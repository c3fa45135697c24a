----------------------------- MODULE ProcessProofs -----------------------------
(***************************************************************************)
(* Proofs about Processes: what holds whatever statements of several       *)
(* processes are interleaved, whichever commands the operators start       *)
(* together, and whoever is killed.                                        *)
(***************************************************************************)
EXTENDS ReportProofs, Processes

-----------------------------------------------------------------------------
(* The commands that processes run                                         *)

StartPcs == {"start_can_use", "start_claim", "start_object", "start_count", "start_segment"}
ChangePcs == {"change_claim", "change_find", "change_end", "change_segment"}
EndPcs == {"end_segment", "end_sum", "end_object"}
ObjectPcs == StartPcs \cup ChangePcs \cup EndPcs \cup {"err_insert"}
BackupPcs == {"finish_usage", "finish_update", "modify_write", "remove_delete"}
VolumePcs == {"state_write", "take_out_delete"}

(* The fields a command has at each of its statements, as far as they are  *)
(* used: the proofs of races rest on these rather than on PTypeOK.         *)
ObjectFields(c) ==
    /\ {"name", "b", "o", "l", "i"} \subseteq DOMAIN c /\ "todo" \notin DOMAIN c
    /\ c.b \in BckId /\ c.o \in ObjName /\ c.l \in Label
    /\ c.name = "start" <=> c.pc \in StartPcs
    /\ c.pc \in {"start_can_use", "start_claim", "start_object"} => c.i \in Given
    /\ c.pc \notin {"start_can_use", "start_claim", "start_object"} => c.i \in Instance
    /\ c.pc = "start_segment" => "n" \in DOMAIN c /\ c.n \in Nat
    /\ c.pc \in ChangePcs \cup EndPcs => "e" \in DOMAIN c /\ c.e \in EndDate
    /\ c.pc \in {"change_end", "change_segment"} => "from" \in DOMAIN c /\ c.from \in Label

BackupFields(c) ==
    /\ "b" \in DOMAIN c /\ "l" \notin DOMAIN c /\ "o" \notin DOMAIN c /\ "todo" \notin DOMAIN c
    /\ c.b \in BckId
    /\ c.pc \in {"finish_usage", "finish_update"} => "e" \in DOMAIN c /\ c.e \in Time \cup {0}
    /\ c.pc = "modify_write" => "row" \in DOMAIN c /\ c.row \in Backup

VolumeFields(c) ==
    /\ "l" \in DOMAIN c /\ "b" \notin DOMAIN c /\ "o" \notin DOMAIN c /\ "todo" \notin DOMAIN c
    /\ c.l \in Label
    /\ c.pc = "state_write" => "st" \in DOMAIN c /\ c.st \in {"F", "A"}

ExpireFields(c) ==
    /\ "todo" \in DOMAIN c /\ "l" \notin DOMAIN c /\ "b" \notin DOMAIN c /\ "o" \notin DOMAIN c
    /\ c.todo \in SUBSET BckId

CommandOK(c) ==
    /\ "pc" \in DOMAIN c
    /\ c.pc \in {"idle", "expire_delete"} \cup ObjectPcs \cup BackupPcs \cup VolumePcs
    /\ c.pc = "idle" => DOMAIN c = {"pc"}
    /\ c.pc \in ObjectPcs => ObjectFields(c)
    /\ c.pc \in BackupPcs => BackupFields(c)
    /\ c.pc \in VolumePcs => VolumeFields(c)
    /\ c.pc = "expire_delete" => ExpireFields(c)

ProcOK == DOMAIN proc = Process /\ \A p \in Process : CommandOK(proc[p])

(* The idle process runs no command.                                       *)
LEMMA IdleOK == CommandOK(Idle) /\ Idle.pc = "idle"
  BY DEF Idle, CommandOK, ObjectPcs, BackupPcs, VolumePcs, StartPcs, ChangePcs, EndPcs

(* new is the command c gone on to statement pc; what it may have read is  *)
(* in field.                                                               *)
GoesOn(c, new, pc, field) ==
    /\ DOMAIN new = DOMAIN c \cup {field}
    /\ new.pc = pc
    /\ \A f \in DOMAIN c : f \notin {"pc", field} => new[f] = c[f]

(* The ways to go on to the next statement.                                *)
LEMMA GotoGoesOn ==
    ASSUME NEW c, "pc" \in DOMAIN c, NEW pc
    PROVE  GoesOn(c, [c EXCEPT !.pc = pc], pc, "pc")
  BY DEF GoesOn

(* ... with a value that was read.                                         *)
LEMMA WithGoesOn ==
    ASSUME NEW c, "pc" \in DOMAIN c, NEW pc, NEW field, field # "pc", NEW v
    PROVE  GoesOn(c, With(c, pc, field, v), pc, field) /\ With(c, pc, field, v)[field] = v
  BY DEF GoesOn, With

(* ... with a backup less to remove.                                       *)
LEMMA TodoGoesOn ==
    ASSUME NEW c, CommandOK(c), c.pc = "expire_delete", NEW b
    PROVE  /\ GoesOn(c, [c EXCEPT !.todo = @ \ {b}], "expire_delete", "todo")
           /\ [c EXCEPT !.todo = @ \ {b}].todo = c.todo \ {b}
  BY DEF GoesOn, CommandOK, ExpireFields

(* The statement that follows each one, and what c has learnt by then.     *)
Follows(c, new) ==
    \/ c.pc = "start_can_use" /\ GoesOn(c, new, "start_claim", "pc") /\ Usable(volumes, c.l, c.b)
    \/ c.pc = "start_claim" /\ GoesOn(c, new, "start_object", "pc")
    \/ /\ c.pc = "start_object" /\ GoesOn(c, new, "start_count", "i") /\ new.i \in Instance
       /\ new.i = ObjInstance(bck_objects, c.b, c.o, c.i)
    \/ c.pc = "start_count" /\ GoesOn(c, new, "start_segment", "n") /\ new.n \in Nat
    \/ c.pc = "change_claim" /\ GoesOn(c, new, "change_find", "pc")
    \/ /\ c.pc = "change_find" /\ GoesOn(c, new, "change_end", "from") /\ new.from \in Label
       /\ \E s \in CurrentVolObjs(vol_obj, c.b, c.o, c.i) : new.from = s.label
    \/ c.pc = "change_end" /\ GoesOn(c, new, "change_segment", "pc")
    \/ c.pc = "end_segment" /\ GoesOn(c, new, "end_sum", "pc")
    \/ c.pc = "end_sum" /\ GoesOn(c, new, "end_object", "total")
    \/ c.pc = "finish_usage" /\ GoesOn(c, new, "finish_update", "pc")
    \/ /\ c.pc = "expire_delete" /\ GoesOn(c, new, "expire_delete", "todo")
       /\ \E b \in c.todo : DeleteBackupIds({b}) /\ new.todo = c.todo \ {b}

(* A command whose fields are complete stays so.                           *)
LEMMA FollowsOK ==
    ASSUME NEW c, CommandOK(c), NEW new, Follows(c, new)
    PROVE  CommandOK(new)
<1> USE DEF StartPcs, ChangePcs, EndPcs, ObjectPcs, BackupPcs, VolumePcs
<1>1. CASE c.pc \in StartPcs
  <2>1. /\ {"pc", "name", "b", "o", "l", "i"} \subseteq DOMAIN c /\ "todo" \notin DOMAIN c
        /\ ObjectFields(c)
    BY <1>1 DEF CommandOK, ObjectFields
  <2>2. ASSUME NEW field \in {"pc", "i", "n"}, GoesOn(c, new, new.pc, field)
        PROVE  /\ {"pc", "name", "b", "o", "l", "i"} \subseteq DOMAIN new
               /\ "todo" \notin DOMAIN new /\ field \in DOMAIN new
               /\ new.b = c.b /\ new.o = c.o /\ new.l = c.l /\ new.name = c.name
               /\ field # "i" => new.i = c.i
    BY <2>1, <2>2 DEF GoesOn
  <2>3. CASE c.pc = "start_can_use" \/ c.pc = "start_claim"
    <3>1. GoesOn(c, new, new.pc, "pc") /\ new.pc \in {"start_claim", "start_object"}
      BY <2>3 DEF Follows, GoesOn
    <3>2. ObjectFields(new)
      BY <2>1, <2>2, <2>3, <3>1 DEF ObjectFields
    <3>3. QED
      BY <2>2, <3>1, <3>2 DEF CommandOK
  <2>4. CASE c.pc = "start_object"
    <3>1. GoesOn(c, new, new.pc, "i") /\ new.pc = "start_count" /\ new.i \in Instance
      BY <2>4 DEF Follows, GoesOn
    <3>2. ObjectFields(new)
      BY <2>1, <2>2, <2>4, <3>1 DEF ObjectFields
    <3>3. QED
      BY <2>2, <3>1, <3>2 DEF CommandOK
  <2>5. CASE c.pc = "start_count"
    <3>1. GoesOn(c, new, new.pc, "n") /\ new.pc = "start_segment" /\ new.n \in Nat
      BY <2>5 DEF Follows, GoesOn
    <3>2. ObjectFields(new)
      BY <2>1, <2>2, <2>5, <3>1 DEF ObjectFields
    <3>3. QED
      BY <2>2, <3>1, <3>2 DEF CommandOK
  <2>6. QED
    BY <1>1, <2>3, <2>4, <2>5 DEF Follows
<1>2. CASE c.pc \in ChangePcs \cup EndPcs
  <2>1. /\ new.pc \in ChangePcs \cup EndPcs /\ "pc" \in DOMAIN new
        /\ new.pc \notin StartPcs
    BY <1>2 DEF Follows, GoesOn, CommandOK
  <2>2. /\ {"name", "b", "o", "l", "i", "e"} \subseteq DOMAIN new /\ "todo" \notin DOMAIN new
        /\ new.b = c.b /\ new.o = c.o /\ new.l = c.l /\ new.i = c.i /\ new.e = c.e /\ new.name = c.name
    BY <1>2 DEF Follows, GoesOn, CommandOK, ObjectFields
  <2>3. new.pc \in {"change_end", "change_segment"} => "from" \in DOMAIN new /\ new.from \in Label
    BY <1>2 DEF Follows, GoesOn, CommandOK, ObjectFields
  <2>4. ObjectFields(c)
    BY <1>2 DEF CommandOK
  <2>5. ObjectFields(new)
    BY <1>2, <2>1, <2>2, <2>3, <2>4 DEF ObjectFields
  <2>6. QED
    BY <2>1, <2>5 DEF CommandOK
<1>3. CASE c.pc = "finish_usage"
  <2>1. /\ new.pc = "finish_update" /\ DOMAIN new = DOMAIN c /\ new.b = c.b /\ new.e = c.e
        /\ BackupFields(c) /\ "pc" \in DOMAIN new
    BY <1>3 DEF Follows, GoesOn, CommandOK, BackupFields
  <2>2. QED
    BY <1>3, <2>1 DEF CommandOK, BackupFields
<1>4. CASE c.pc = "expire_delete"
  <2>1. /\ new.pc = "expire_delete" /\ DOMAIN new = DOMAIN c /\ new.todo \subseteq c.todo
        /\ ExpireFields(c) /\ "pc" \in DOMAIN new
    BY <1>4 DEF Follows, GoesOn, CommandOK, ExpireFields
  <2>2. QED
    BY <1>4, <2>1 DEF CommandOK, ExpireFields
<1>5. QED
  BY <1>1, <1>2, <1>3, <1>4 DEF Follows

(* What a command has looked up before its first statement.                *)
Starts(c) ==
    /\ c.pc \in {"start_can_use", "change_claim", "end_segment", "err_insert", "finish_usage",
                 "modify_write", "remove_delete", "expire_delete", "state_write", "take_out_delete"}
    /\ c.pc = "start_can_use" => c.b \in DOMAIN backups
    /\ c.pc = "change_claim" => Usable(volumes, c.l, c.b)
    /\ c.pc = "end_segment" => \E s \in CurrentVolObjs(vol_obj, c.b, c.o, c.i) : s.label = c.l
    /\ c.pc = "err_insert" => CurrentVolObjs(vol_obj, c.b, c.o, c.i) # {}
    /\ c.pc = "remove_delete" => c.b \in DOMAIN backups /\ (Expired(c.b) \/ Confirms)
    /\ c.pc = "expire_delete" => \A b \in c.todo : b \in DOMAIN backups /\ Expired(b)
    /\ c.pc = "state_write" => c.l \in DOMAIN volumes /\ volumes[c.l].bck_id = 0
    /\ c.pc = "take_out_delete" => CanUse(volumes, c.l, 0) = "F"

(* The commands that are started have all their fields.                    *)
LEMMA BeginOK ==
    ASSUME TypeOK, NEW p, Command(p)
    PROVE  \E c : Begin(p, c) /\ CommandOK(c) /\ Starts(c) /\ ReadOnly
<1> USE DEF StartPcs, ChangePcs, EndPcs, ObjectPcs, BackupPcs, VolumePcs
<1>1. ASSUME NEW b \in BckId, NEW o \in ObjName, NEW l \in Label, NEW given \in Given,
             StartBegin(p, b, o, l, given)
      PROVE  \E c : Begin(p, c) /\ CommandOK(c) /\ Starts(c) /\ ReadOnly
  <2> DEFINE c == [name |-> "start", pc |-> "start_can_use", b |-> b, o |-> o, l |-> l, i |-> given]
  <2>1. CommandOK(c)
    BY DEF CommandOK, ObjectFields
  <2>2. Starts(c)
    BY <1>1 DEF StartBegin, Starts
  <2>3. QED
    BY <1>1, <2>1, <2>2 DEF StartBegin
<1>2. ASSUME NEW b \in BckId, NEW o \in ObjName, NEW l \in Label, NEW i \in Instance,
             NEW e \in EndDate, ChangeBegin(p, b, o, i, l, e)
      PROVE  \E c : Begin(p, c) /\ CommandOK(c) /\ Starts(c) /\ ReadOnly
  <2> DEFINE c == [name |-> "change", pc |-> "change_claim", b |-> b, o |-> o, l |-> l, i |-> i, e |-> e]
  <2>1. CommandOK(c)
    BY DEF CommandOK, ObjectFields
  <2>2. Starts(c)
    BY <1>2 DEF ChangeBegin, Starts
  <2>3. QED
    BY <1>2, <2>1, <2>2 DEF ChangeBegin
<1>3. ASSUME NEW b \in BckId, NEW o \in ObjName, NEW l \in Label, NEW i \in Instance,
             NEW e \in EndDate, EndBegin(p, b, o, i, l, e)
      PROVE  \E c : Begin(p, c) /\ CommandOK(c) /\ Starts(c) /\ ReadOnly
  <2> DEFINE c == [name |-> "end", pc |-> "end_segment", b |-> b, o |-> o, l |-> l, i |-> i, e |-> e]
  <2>1. CommandOK(c)
    BY DEF CommandOK, ObjectFields
  <2>2. Starts(c)
    BY <1>3 DEF EndBegin, Starts
  <2>3. QED
    BY <1>3, <2>1, <2>2 DEF EndBegin
<1>4. ASSUME NEW b \in BckId, NEW o \in ObjName, NEW l \in Label, NEW i \in Instance,
             ErrBegin(p, b, o, i, l)
      PROVE  \E c : Begin(p, c) /\ CommandOK(c) /\ Starts(c) /\ ReadOnly
  <2> DEFINE c == [name |-> "err", pc |-> "err_insert", b |-> b, o |-> o, l |-> l, i |-> i]
  <2>1. CommandOK(c)
    BY DEF CommandOK, ObjectFields
  <2>2. Starts(c)
    BY <1>4 DEF ErrBegin, Starts
  <2>3. QED
    BY <1>4, <2>1, <2>2 DEF ErrBegin
<1>5. ASSUME NEW b \in BckId, FinishBegin(p, b)
      PROVE  \E c : Begin(p, c) /\ CommandOK(c) /\ Starts(c) /\ ReadOnly
  <2>1. PICK e \in Time \cup {0} : Begin(p, [name |-> "finish", pc |-> "finish_usage", b |-> b, e |-> e])
    BY <1>5 DEF FinishBegin
  <2> DEFINE c == [name |-> "finish", pc |-> "finish_usage", b |-> b, e |-> e]
  <2>2. CommandOK(c)
    BY DEF CommandOK, BackupFields
  <2>3. Starts(c)
    BY <1>5 DEF FinishBegin, Starts
  <2>4. QED
    BY <1>5, <2>1, <2>2, <2>3 DEF FinishBegin
<1>6. ASSUME NEW b \in BckId, NEW x \in Time, ModifyBegin(p, b, x)
      PROVE  \E c : Begin(p, c) /\ CommandOK(c) /\ Starts(c) /\ ReadOnly
  <2> DEFINE c == [name |-> "modify", pc |-> "modify_write", b |-> b,
                   row |-> [backups[b] EXCEPT !.expiredate = x]]
  <2>1. [backups[b] EXCEPT !.expiredate = x] \in Backup
    BY <1>6 DEF ModifyBegin, TypeOK, BackupTable, Backup
  <2>2. CommandOK(c)
    BY <2>1 DEF CommandOK, BackupFields
  <2>3. Starts(c)
    BY <1>6 DEF ModifyBegin, Starts
  <2>4. QED
    BY <1>6, <2>2, <2>3 DEF ModifyBegin
<1>7. ASSUME NEW b \in BckId, RemoveBegin(p, b)
      PROVE  \E c : Begin(p, c) /\ CommandOK(c) /\ Starts(c) /\ ReadOnly
  <2> DEFINE c == [name |-> "remove", pc |-> "remove_delete", b |-> b]
  <2>1. CommandOK(c)
    BY DEF CommandOK, BackupFields
  <2>2. Starts(c)
    BY <1>7 DEF RemoveBegin, Starts
  <2>3. QED
    BY <1>7, <2>1, <2>2 DEF RemoveBegin
<1>8. CASE ExpireBegin(p)
  <2> DEFINE expired == {b \in DOMAIN backups : Expired(b)}
  <2> DEFINE c == [name |-> "expire", pc |-> "expire_delete", todo |-> expired]
  <2>1. expired \in SUBSET BckId
    BY DEF TypeOK, BackupTable
  <2>2. Begin(p, c) /\ ReadOnly
    BY <1>8 DEF ExpireBegin
  <2>3. \A b \in expired : b \in DOMAIN backups /\ Expired(b)
    OBVIOUS
  <2> HIDE DEF expired
  <2>4. CommandOK(c)
    BY <2>1 DEF CommandOK, ExpireFields
  <2>5. Starts(c)
    BY <2>3 DEF Starts
  <2>6. QED
    BY <2>2, <2>4, <2>5
<1>9. ASSUME NEW l \in Label, NEW st \in {"F", "A"}, StateBegin(p, l, st)
      PROVE  \E c : Begin(p, c) /\ CommandOK(c) /\ Starts(c) /\ ReadOnly
  <2> DEFINE c == [name |-> "state", pc |-> "state_write", l |-> l, st |-> st]
  <2>1. CommandOK(c)
    BY DEF CommandOK, VolumeFields
  <2>2. Starts(c)
    BY <1>9 DEF StateBegin, Starts
  <2>3. QED
    BY <1>9, <2>1, <2>2 DEF StateBegin
<1>10. ASSUME NEW l \in Label, TakeOutBegin(p, l)
       PROVE  \E c : Begin(p, c) /\ CommandOK(c) /\ Starts(c) /\ ReadOnly
  <2> DEFINE c == [name |-> "take_out", pc |-> "take_out_delete", l |-> l]
  <2>1. CommandOK(c)
    BY DEF CommandOK, VolumeFields
  <2>2. Starts(c)
    BY <1>10 DEF TakeOutBegin, Starts
  <2>3. QED
    BY <1>10, <2>1, <2>2 DEF TakeOutBegin
<1>11. QED
  BY <1>1, <1>2, <1>3, <1>4, <1>5, <1>6, <1>7, <1>8, <1>9, <1>10 DEF Command

-----------------------------------------------------------------------------
(* What a statement does to the tables                                     *)

WriteVolumes(vols) ==
    volumes' = vols /\ UNCHANGED <<backups, bck_objects, vol_obj, bck_errors, now>>

WriteObjects(objs) ==
    bck_objects' = objs /\ UNCHANGED <<volumes, backups, vol_obj, bck_errors, now>>

WriteErrors(errs) ==
    bck_errors' = errs /\ UNCHANGED <<volumes, backups, bck_objects, vol_obj, now>>

SetState(vols, l, st) == IF l \in DOMAIN vols THEN [vols EXCEPT ![l].state = st] ELSE vols

(* The statement of a command c that writes, with what the process has of  *)
(* the rows it read; the tables alone, not where the command goes next.    *)
Writes(c) ==
    \/ c.pc \in {"start_claim", "change_claim"} /\ Claim(c.l, c.b)
    \/ /\ c.pc = "start_object"
       /\ \E i \in Instance : /\ i = ObjInstance(bck_objects, c.b, c.o, c.i)
                              /\ WriteObjects(InsertBckObject(bck_objects, c.b, c.o, i))
    \/ c.pc = "start_segment" /\ WriteSegments(InsertVolObj(vol_obj, c.b, c.o, c.i, c.l, c.n))
    \/ c.pc = "change_segment" /\ WriteSegments(InsertVolObj(vol_obj, c.b, c.o, c.i, c.l, 0))
    \/ /\ c.pc = "change_end"
       /\ \E sz \in Size : WriteSegments(EndVolObj(vol_obj, c.b, c.o, c.i, c.from, c.e, sz))
    \/ /\ c.pc = "end_segment"
       /\ \E sz \in Size : WriteSegments(EndVolObj(vol_obj, c.b, c.o, c.i, c.l, c.e, sz))
    \/ c.pc = "end_object" /\ WriteObjects(EndBckObject(bck_objects, c.b, c.o, c.i, c.e, c.total))
    \/ c.pc = "err_insert" /\ WriteErrors(InsertBckError(bck_errors, c.l, c.b, c.o, c.i))
    \/ c.pc = "finish_usage" /\ WriteVolumes(IncVolumeUsage(volumes, c.b))
    \/ c.pc = "finish_update" /\ WriteBackup(c.b, [end |-> c.e, expiredate |-> backups[c.b].expiredate])
    \/ c.pc = "modify_write" /\ WriteBackup(c.b, c.row)
    \/ c.pc = "remove_delete" /\ DeleteBackupIds({c.b})
    \/ c.pc = "expire_delete" /\ \E b \in c.todo : DeleteBackupIds({b})
    \/ c.pc = "state_write" /\ WriteVolumes(SetState(volumes, c.l, c.st))
    \/ c.pc = "take_out_delete" /\ WriteVolumes(DeleteVolume(volumes, c.l))

(* A statement that reads; and the first of a transaction that finds the   *)
(* database busy.                                                          *)
Reads(c) ==
    c.pc \in {"start_can_use", "start_count", "change_find", "end_sum", "expire_delete"} /\ ReadOnly

(* Process p is at the statement that follows the one it ran, or is done.  *)
GoesTo(p) == \E new : Become(p, new) /\ (new = Idle \/ Follows(proc[p], new))

(* The ways a statement leaves its process.                                *)
LEMMA ExitGoes == ASSUME NEW p, Exit(p) PROVE GoesTo(p)
  BY DEF Exit, GoesTo

(* ... or at the next one.                                                 *)
LEMMA GotoGoes ==
    ASSUME ProcOK, NEW p \in Process, NEW pc, Goto(p, pc),
           \/ At(p, "start_can_use") /\ pc = "start_claim" /\ Usable(volumes, proc[p].l, proc[p].b)
           \/ At(p, "start_claim") /\ pc = "start_object"
           \/ At(p, "change_claim") /\ pc = "change_find"
           \/ At(p, "change_end") /\ pc = "change_segment"
           \/ At(p, "end_segment") /\ pc = "end_sum"
           \/ At(p, "finish_usage") /\ pc = "finish_update"
    PROVE  GoesTo(p)
<1> DEFINE new == [proc[p] EXCEPT !.pc = pc]
<1>1. GoesOn(proc[p], new, pc, "pc")
  BY GotoGoesOn DEF ProcOK, CommandOK
<1>2. Become(p, new)
  BY DEF Goto
<1> HIDE DEF new
<1>3. Follows(proc[p], new)
  BY <1>1 DEF Follows, At
<1>4. QED
  BY <1>2, <1>3 DEF GoesTo

(* Every statement of p writes the tables or reads them, and leaves p at   *)
(* the next statement or done.                                             *)
LEMMA StatementSteps ==
    ASSUME TypeOK, ProcOK, NEW p \in Process, Statement(p)
    PROVE  (Writes(proc[p]) \/ Reads(proc[p])) /\ GoesTo(p)
<1> DEFINE c == proc[p]
<1>1. CommandOK(c) /\ "pc" \in DOMAIN c
  BY DEF ProcOK, CommandOK
<1>2. CASE StartClaim(p)
  <2>1. /\ At(p, "start_claim") /\ c.pc = "start_claim"
        /\ Claim(c.l, c.b)
        /\ Goto(p, "start_object")
    BY <1>2 DEF StartClaim, At
  <2>2. Writes(c)
    BY <2>1 DEF Writes
  <2>3. QED
    BY <2>1, <2>2, GotoGoes
<1>3. CASE StartSegment(p)
  <2>1. /\ At(p, "start_segment") /\ c.pc = "start_segment"
        /\ WriteSegments(InsertVolObj(vol_obj, c.b, c.o, c.i, c.l, c.n))
        /\ Exit(p)
    BY <1>3 DEF StartSegment, At
  <2>2. Writes(c)
    BY <2>1 DEF Writes
  <2>3. QED
    BY <2>1, <2>2, ExitGoes
<1>4. CASE ChangeClaim(p)
  <2>1. /\ At(p, "change_claim") /\ c.pc = "change_claim"
        /\ Claim(c.l, c.b)
        /\ Goto(p, "change_find")
    BY <1>4 DEF ChangeClaim, At
  <2>2. Writes(c)
    BY <2>1 DEF Writes
  <2>3. QED
    BY <2>1, <2>2, GotoGoes
<1>5. CASE ChangeEnd(p)
  <2>1. /\ At(p, "change_end") /\ c.pc = "change_end"
        /\ \E sz \in Size : WriteSegments(EndVolObj(vol_obj, c.b, c.o, c.i, c.from, c.e, sz))
        /\ Goto(p, "change_segment")
    BY <1>5 DEF ChangeEnd, At
  <2>2. Writes(c)
    BY <2>1 DEF Writes
  <2>3. QED
    BY <2>1, <2>2, GotoGoes
<1>6. CASE ChangeSegment(p)
  <2>1. /\ At(p, "change_segment") /\ c.pc = "change_segment"
        /\ WriteSegments(InsertVolObj(vol_obj, c.b, c.o, c.i, c.l, 0))
        /\ Exit(p)
    BY <1>6 DEF ChangeSegment, At
  <2>2. Writes(c)
    BY <2>1 DEF Writes
  <2>3. QED
    BY <2>1, <2>2, ExitGoes
<1>7. CASE EndSegment(p)
  <2>1. /\ At(p, "end_segment") /\ c.pc = "end_segment"
        /\ \E sz \in Size : WriteSegments(EndVolObj(vol_obj, c.b, c.o, c.i, c.l, c.e, sz))
        /\ Goto(p, "end_sum")
    BY <1>7 DEF EndSegment, At
  <2>2. Writes(c)
    BY <2>1 DEF Writes
  <2>3. QED
    BY <2>1, <2>2, GotoGoes
<1>8. CASE EndObject(p)
  <2>1. /\ At(p, "end_object") /\ c.pc = "end_object"
        /\ WriteObjects(EndBckObject(bck_objects, c.b, c.o, c.i, c.e, c.total))
        /\ Exit(p)
    BY <1>8 DEF EndObject, At, WriteObjects
  <2>2. Writes(c)
    BY <2>1 DEF Writes
  <2>3. QED
    BY <2>1, <2>2, ExitGoes
<1>9. CASE ErrInsert(p)
  <2>1. /\ At(p, "err_insert") /\ c.pc = "err_insert"
        /\ WriteErrors(InsertBckError(bck_errors, c.l, c.b, c.o, c.i))
        /\ Exit(p)
    BY <1>9 DEF ErrInsert, At, WriteErrors
  <2>2. Writes(c)
    BY <2>1 DEF Writes
  <2>3. QED
    BY <2>1, <2>2, ExitGoes
<1>10. CASE FinishUsage(p)
  <2>1. /\ At(p, "finish_usage") /\ c.pc = "finish_usage"
        /\ WriteVolumes(IncVolumeUsage(volumes, c.b))
        /\ Goto(p, "finish_update")
    BY <1>10 DEF FinishUsage, At, WriteVolumes
  <2>2. Writes(c)
    BY <2>1 DEF Writes
  <2>3. QED
    BY <2>1, <2>2, GotoGoes
<1>11. CASE FinishUpdate(p)
  <2>1. /\ At(p, "finish_update") /\ c.pc = "finish_update"
        /\ WriteBackup(c.b, [end |-> c.e, expiredate |-> backups[c.b].expiredate])
        /\ Exit(p)
    BY <1>11 DEF FinishUpdate, At
  <2>2. Writes(c)
    BY <2>1 DEF Writes
  <2>3. QED
    BY <2>1, <2>2, ExitGoes
<1>12. CASE ModifyWrite(p)
  <2>1. /\ At(p, "modify_write") /\ c.pc = "modify_write"
        /\ WriteBackup(c.b, c.row)
        /\ Exit(p)
    BY <1>12 DEF ModifyWrite, At
  <2>2. Writes(c)
    BY <2>1 DEF Writes
  <2>3. QED
    BY <2>1, <2>2, ExitGoes
<1>13. CASE RemoveDelete(p)
  <2>1. /\ At(p, "remove_delete") /\ c.pc = "remove_delete"
        /\ DeleteBackupIds({c.b})
        /\ Exit(p)
    BY <1>13 DEF RemoveDelete, At
  <2>2. Writes(c)
    BY <2>1 DEF Writes
  <2>3. QED
    BY <2>1, <2>2, ExitGoes
<1>14. CASE StateWrite(p)
  <2>1. /\ At(p, "state_write") /\ c.pc = "state_write"
        /\ WriteVolumes(SetState(volumes, c.l, c.st))
        /\ Exit(p)
    BY <1>14 DEF StateWrite, At, WriteVolumes, SetState
  <2>2. Writes(c)
    BY <2>1 DEF Writes
  <2>3. QED
    BY <2>1, <2>2, ExitGoes
<1>15. CASE TakeOutDelete(p)
  <2>1. /\ At(p, "take_out_delete") /\ c.pc = "take_out_delete"
        /\ WriteVolumes(DeleteVolume(volumes, c.l))
        /\ Exit(p)
    BY <1>15 DEF TakeOutDelete, At, WriteVolumes
  <2>2. Writes(c)
    BY <2>1 DEF Writes
  <2>3. QED
    BY <2>1, <2>2, ExitGoes
<1>16. CASE StartCanUse(p)
  <2>1. /\ At(p, "start_can_use") /\ ReadOnly
        /\ \/ Goto(p, "start_claim") /\ Usable(volumes, proc[p].l, proc[p].b)
           \/ Exit(p)
    BY <1>16 DEF StartCanUse
  <2>2. QED
    BY <2>1, ExitGoes, GotoGoes DEF At, Reads
<1>17. CASE StartObject(p)
  <2> DEFINE i == ObjInstance(bck_objects, c.b, c.o, c.i)
  <2>1. /\ c.pc = "start_object" /\ i \in Instance
        /\ WriteObjects(InsertBckObject(bck_objects, c.b, c.o, i))
        /\ Become(p, With(c, "start_count", "i", i))
    BY <1>17 DEF StartObject, At, WriteObjects
  <2>2. Writes(c)
    BY <2>1 DEF Writes
  <2>3. i = ObjInstance(bck_objects, c.b, c.o, c.i)
    OBVIOUS
  <2> HIDE DEF i
  <2>4. Follows(c, With(c, "start_count", "i", i))
    BY <1>1, <2>1, <2>3, WithGoesOn DEF Follows
  <2>5. GoesTo(p)
    BY <2>1, <2>4 DEF GoesTo
  <2>6. QED
    BY <2>2, <2>5
<1>18. CASE StartCount(p)
  <2> DEFINE n == CountVolObjLabel(vol_obj, c.b, c.l)
  <2>1. n \in Nat
    BY CountVolObjLabelNat DEF TypeOK
  <2>2. c.pc = "start_count" /\ ReadOnly /\ Become(p, With(c, "start_segment", "n", n))
    BY <1>18 DEF StartCount, At
  <2> HIDE DEF n
  <2>3. Follows(c, With(c, "start_segment", "n", n))
    BY <1>1, <2>1, <2>2, WithGoesOn DEF Follows
  <2>4. QED
    BY <2>2, <2>3 DEF GoesTo, Reads
<1>19. CASE ChangeFind(p)
  <2>1. c.pc = "change_find" /\ ReadOnly
    BY <1>19 DEF ChangeFind, At
  <2>2. ASSUME NEW s \in CurrentVolObjs(vol_obj, c.b, c.o, c.i),
               Become(p, With(c, "change_end", "from", s.label))
        PROVE  GoesTo(p)
    <3>1. s.label \in Label
      BY SegmentIds DEF CurrentVolObjs, TypeOK
    <3>2. Follows(c, With(c, "change_end", "from", s.label))
      BY <1>1, <2>1, <3>1, WithGoesOn DEF Follows
    <3>3. QED
      BY <2>2, <3>2 DEF GoesTo
  <2>3. QED
    BY <1>19, <2>1, <2>2, ExitGoes DEF ChangeFind, Reads
<1>20. CASE EndSum(p)
  <2> DEFINE total == VolObjSumSize(vol_obj, c.b, c.o)
  <2>1. c.pc = "end_sum" /\ ReadOnly /\ Become(p, With(c, "end_object", "total", total))
    BY <1>20 DEF EndSum, At
  <2> HIDE DEF total
  <2>2. Follows(c, With(c, "end_object", "total", total))
    BY <1>1, <2>1, WithGoesOn DEF Follows
  <2>3. QED
    BY <2>1, <2>2 DEF GoesTo, Reads
<1>21. CASE ExpireDelete(p)
  <2>1. c.pc = "expire_delete"
    BY <1>21 DEF ExpireDelete, At
  <2>2. PICK b \in c.todo :
            /\ DeleteBackupIds({b})
            /\ IF c.todo = {b} THEN Exit(p) ELSE Become(p, [c EXCEPT !.todo = @ \ {b}])
    BY <1>21 DEF ExpireDelete
  <2>3. Writes(c)
    BY <2>1, <2>2 DEF Writes
  <2> DEFINE new == [c EXCEPT !.todo = @ \ {b}]
  <2>4. GoesOn(c, new, "expire_delete", "todo") /\ new.todo = c.todo \ {b}
    BY <1>1, <2>1, TodoGoesOn
  <2>5. Exit(p) \/ Become(p, new)
    BY <2>2
  <2> HIDE DEF new
  <2>6. Follows(c, new)
    BY <2>1, <2>2, <2>4 DEF Follows
  <2>7. GoesTo(p)
    BY <2>5, <2>6, ExitGoes DEF GoesTo
  <2>8. QED
    BY <2>3, <2>7
<1>22. CASE ExpireBusy(p)
  BY <1>22, ExitGoes DEF ExpireBusy, At, Reads
<1>23. QED
  BY <1>2, <1>3, <1>4, <1>5, <1>6, <1>7, <1>8, <1>9, <1>10, <1>11, <1>12, <1>13,
     <1>14, <1>15, <1>16, <1>17, <1>18, <1>19, <1>20, <1>21, <1>22 DEF Statement

(* What a step of the processes does to the tables.                        *)
TableStep ==
    \/ ReadOnly
    \/ \E p \in Process : Writes(proc[p])
    \/ \E b \in BckId, x \in Time : NewBackup(b, x)
    \/ \E l \in Label : AddVolume(l, "F", 0)
    \/ Tick

(* Every step is of that kind.                                             *)
LEMMA StepTables ==
    ASSUME TypeOK, ProcOK, [PNext]_pvars
    PROVE  TableStep
<1>1. ASSUME NEW p \in Process, Command(p)
      PROVE  ReadOnly
  BY <1>1, BeginOK
<1>2. ASSUME NEW p \in Process, Statement(p)
      PROVE  Writes(proc[p]) \/ ReadOnly
  BY <1>2, StatementSteps DEF Reads
<1>3. ASSUME NEW p \in Process, Kill(p)
      PROVE  ReadOnly
  BY <1>3 DEF Kill
<1>4. CASE SingleInsert
  BY <1>4 DEF SingleInsert, TableStep
<1>5. CASE UNCHANGED pvars
  BY <1>5 DEF pvars, ReadOnly, TableStep
<1>6. QED
  BY <1>1, <1>2, <1>3, <1>4, <1>5 DEF PNext, TableStep

(* Every process keeps the fields its command needs.                       *)
LEMMA ProcStep ==
    ASSUME TypeOK, ProcOK, [PNext]_pvars
    PROVE  ProcOK'
<1>1. ASSUME NEW p \in Process, NEW new, proc' = [proc EXCEPT ![p] = new], CommandOK(new)
      PROVE  ProcOK'
  BY <1>1 DEF ProcOK
<1>2. ASSUME UNCHANGED proc
      PROVE  ProcOK'
  BY <1>2 DEF ProcOK
<1>3. ASSUME NEW p \in Process, Command(p)
      PROVE  ProcOK'
  BY <1>1, <1>3, BeginOK DEF Begin
<1>4. ASSUME NEW p \in Process, Statement(p)
      PROVE  ProcOK'
  <2>1. PICK new : Become(p, new) /\ (new = Idle \/ Follows(proc[p], new))
    BY <1>4, StatementSteps DEF GoesTo
  <2>2. CommandOK(new)
    BY <2>1, IdleOK, FollowsOK DEF ProcOK
  <2>3. QED
    BY <1>1, <2>1, <2>2 DEF Become
<1>5. ASSUME NEW p \in Process, Kill(p)
      PROVE  ProcOK'
  BY <1>1, <1>5, IdleOK DEF Kill, Exit, Become
<1>6. CASE SingleInsert \/ (Tick /\ UNCHANGED <<proc, started>>) \/ UNCHANGED pvars
  BY <1>2, <1>6 DEF SingleInsert, pvars
<1>7. QED
  BY <1>3, <1>4, <1>5, <1>6 DEF PNext

-----------------------------------------------------------------------------
(* The tables stay well formed                                             *)

(* Setting a volume's state leaves its owner and the other volumes.        *)
LEMMA SetStateTable ==
    ASSUME NEW vols, VolumeTable(vols), NEW l, NEW st \in {"F", "A"}
    PROVE  LET new == SetState(vols, l, st)
           IN  /\ VolumeTable(new)
               /\ DOMAIN new = DOMAIN vols
               /\ \A k \in DOMAIN vols : new[k].bck_id = vols[k].bck_id
               /\ \A k \in DOMAIN vols \ {l} : new[k] = vols[k]
<1>1. CASE l \notin DOMAIN vols
  BY <1>1 DEF SetState
<1>2. CASE l \in DOMAIN vols
  <2>1. vols[l] \in Volume
    BY <1>2 DEF VolumeTable
  <2>2. [vols[l] EXCEPT !.state = st] \in Volume /\ [vols[l] EXCEPT !.state = st].bck_id = vols[l].bck_id
    BY <2>1 DEF Volume
  <2>3. SetState(vols, l, st) = [vols EXCEPT ![l] = [vols[l] EXCEPT !.state = st]]
    BY <1>2 DEF SetState
  <2> DEFINE row == [vols[l] EXCEPT !.state = st]
  <2> HIDE DEF row
  <2>4. QED
    BY <1>2, <2>2, <2>3 DEF VolumeTable, row
<1>3. QED
  BY <1>1, <1>2

(* Every write keeps every table well formed.                              *)
LEMMA WriteTypeOK ==
    ASSUME TypeOK, NEW c, CommandOK(c), Writes(c)
    PROVE  TypeOK'
<1> USE DEF StartPcs, ChangePcs, EndPcs, ObjectPcs, BackupPcs, VolumePcs
<1>1. ASSUME NEW vols, VolumeTable(vols), WriteVolumes(vols)
      PROVE  TypeOK'
  BY <1>1 DEF WriteVolumes, TypeOK
<1>2. ASSUME NEW objs, ObjectTable(objs), WriteObjects(objs)
      PROVE  TypeOK'
  BY <1>2 DEF WriteObjects, TypeOK
<1>3. ASSUME NEW segs, VolObjTable(segs), WriteSegments(segs)
      PROVE  TypeOK'
  BY <1>3 DEF WriteSegments, TypeOK
<1>4. ASSUME NEW b, NEW row \in Backup, WriteBackup(b, row)
      PROVE  TypeOK'
  <2>1. BackupTable(backups')
    BY <1>4, BackupStatements DEF WriteBackup, TypeOK
  <2>2. QED
    BY <1>4, <2>1 DEF WriteBackup, TypeOK
<1>5. ASSUME NEW l, NEW b \in BckId, Claim(l, b)
      PROVE  TypeOK'
  <2>1. VolumeTable(volumes')
    BY <1>5, SetVolumeUsedTable DEF Claim, TypeOK
  <2>2. QED
    BY <1>5, <2>1 DEF Claim, TypeOK
<1>6. ASSUME c.pc \in ObjectPcs
      PROVE  /\ c.b \in BckId /\ c.o \in ObjName /\ c.l \in Label
             /\ c.pc \notin {"start_can_use", "start_claim", "start_object"} => c.i \in Instance
             /\ c.pc = "start_segment" => c.n \in Nat
             /\ c.pc \in ChangePcs \cup EndPcs => c.e \in Time \cup {0}
             /\ c.pc \in {"change_end", "change_segment"} => c.from \in Label
  BY <1>6, ProcessesAssumption DEF CommandOK, ObjectFields
<1>7. CASE c.pc \in {"start_claim", "change_claim"} /\ Claim(c.l, c.b)
  BY <1>5, <1>6, <1>7
<1>8. CASE /\ c.pc = "start_object"
           /\ \E i \in Instance : WriteObjects(InsertBckObject(bck_objects, c.b, c.o, i))
  BY <1>2, <1>6, <1>8, ObjectStatements DEF TypeOK
<1>9. CASE c.pc = "start_segment" /\ WriteSegments(InsertVolObj(vol_obj, c.b, c.o, c.i, c.l, c.n))
  BY <1>3, <1>6, <1>9, VolObjStatements DEF TypeOK
<1>10. CASE c.pc = "change_segment" /\ WriteSegments(InsertVolObj(vol_obj, c.b, c.o, c.i, c.l, 0))
  BY <1>3, <1>6, <1>10, VolObjStatements DEF TypeOK
<1>11. CASE /\ c.pc = "change_end"
            /\ \E sz \in Size : WriteSegments(EndVolObj(vol_obj, c.b, c.o, c.i, c.from, c.e, sz))
  BY <1>3, <1>6, <1>11, VolObjStatements DEF TypeOK
<1>12. CASE /\ c.pc = "end_segment"
            /\ \E sz \in Size : WriteSegments(EndVolObj(vol_obj, c.b, c.o, c.i, c.l, c.e, sz))
  BY <1>3, <1>6, <1>12, VolObjStatements DEF TypeOK
<1>13. CASE c.pc = "end_object" /\ WriteObjects(EndBckObject(bck_objects, c.b, c.o, c.i, c.e, c.total))
  BY <1>2, <1>6, <1>13, ObjectStatements DEF TypeOK
<1>14. CASE c.pc = "err_insert" /\ WriteErrors(InsertBckError(bck_errors, c.l, c.b, c.o, c.i))
  <2>1. ErrorTable(bck_errors')
    BY <1>6, <1>14, ErrorStatements DEF WriteErrors, TypeOK
  <2>2. QED
    BY <1>14, <2>1 DEF WriteErrors, TypeOK
<1>15. CASE c.pc = "finish_usage" /\ WriteVolumes(IncVolumeUsage(volumes, c.b))
  BY <1>1, <1>15, IncVolumeUsageTable DEF TypeOK
<1>16. CASE c.pc = "finish_update" /\ WriteBackup(c.b, [end |-> c.e, expiredate |-> backups[c.b].expiredate])
  <2>1. c.e \in Time \cup {0}
    BY <1>16 DEF CommandOK, BackupFields
  <2>2. CASE c.b \in DOMAIN backups
    <3>1. backups[c.b].expiredate \in Time
      BY <2>2 DEF TypeOK, BackupTable, Backup
    <3>2. [end |-> c.e, expiredate |-> backups[c.b].expiredate] \in Backup
      BY <2>1, <3>1 DEF Backup
    <3>3. QED
      BY <1>4, <1>16, <3>2
  <2>3. CASE c.b \notin DOMAIN backups
    BY <1>16, <2>3 DEF WriteBackup, TypeOK
  <2>4. QED
    BY <2>2, <2>3
<1>17. CASE c.pc = "modify_write" /\ WriteBackup(c.b, c.row)
  <2>1. c.row \in Backup
    BY <1>17 DEF CommandOK, BackupFields
  <2>2. QED
    BY <1>4, <1>17, <2>1
<1>18. ASSUME NEW B, DeleteBackupIds(B)
       PROVE  TypeOK'
  BY <1>18, DeleteTypeOK
<1>19. CASE c.pc = "state_write" /\ WriteVolumes(SetState(volumes, c.l, c.st))
  <2>1. c.st \in {"F", "A"}
    BY <1>19 DEF CommandOK, VolumeFields
  <2>2. QED
    BY <1>1, <1>19, <2>1, SetStateTable DEF TypeOK
<1>20. CASE c.pc = "take_out_delete" /\ WriteVolumes(DeleteVolume(volumes, c.l))
  BY <1>1, <1>20, DeleteVolumeTable DEF TypeOK
<1>21. QED
  BY <1>7, <1>8, <1>9, <1>10, <1>11, <1>12, <1>13, <1>14, <1>15, <1>16, <1>17, <1>18, <1>19, <1>20
  DEF Writes

(* So does every step of several processes.                                *)
LEMMA PTypeStep ==
    ASSUME TypeOK, ProcOK, [PNext]_pvars
    PROVE  TypeOK'
<1>1. ASSUME NEW p \in Process, Writes(proc[p])
      PROVE  TypeOK'
  BY <1>1, WriteTypeOK DEF ProcOK
<1>2. CASE ReadOnly
  BY <1>2 DEF ReadOnly, vars, TypeOK
<1>3. ASSUME NEW b \in BckId, NEW x \in Time, NewBackup(b, x)
      PROVE  TypeOK'
  <2>1. Next
    BY <1>3 DEF Next, BackupCommand
  <2>2. QED
    BY <2>1, TypeStep
<1>4. ASSUME NEW l \in Label, AddVolume(l, "F", 0)
      PROVE  TypeOK'
  <2>1. Next
    BY <1>4 DEF Next, VolumeCommand
  <2>2. QED
    BY <2>1, TypeStep
<1>5. CASE Tick
  BY <1>5, TypeStep DEF Next
<1>6. QED
  BY <1>1, <1>2, <1>3, <1>4, <1>5, StepTables DEF TableStep

(* The library and the processes before the first command.                 *)
LEMMA PInitOK == PInit => TypeOK /\ ProcOK
<1> SUFFICES ASSUME PInit
             PROVE  TypeOK /\ ProcOK
  OBVIOUS
<1>1. VolumeTable(volumes)
  BY DEF PInit, VolumeTable, Volume
<1>2. BackupTable(backups)
  BY DEF PInit, BackupTable, Backup
<1>3. VolObjTable(vol_obj) /\ ObjectTable(bck_objects)
  BY FS_EmptySet DEF PInit, VolObjTable, ObjectTable
<1>4. ErrorTable(bck_errors)
  BY DEF PInit, ErrorTable
<1>5. ProcOK
  BY IdleOK DEF PInit, ProcOK
<1>6. QED
  BY <1>1, <1>2, <1>3, <1>4, <1>5 DEF PInit, TypeOK

-----------------------------------------------------------------------------
(* What is recorded of a tape stays, whoever interferes                    *)

(* Segments that go leave no backup behind, so the history of the backups  *)
(* that stay is kept.                                                      *)
LEMMA HistoryOfKeptBackups ==
    ASSUME NEW B, HistoryKept(vol_obj, vol_obj', B), DOMAIN backups' \cap B = {}
    PROVE  KeepsHistory
<1>1. \A s \in vol_obj : s.bck_id \in DOMAIN backups' => s.bck_id \notin B
  OBVIOUS
<1>2. QED
  BY <1>1 DEF HistoryKept, OnRecord, KeepsHistory

(* No statement that writes loses any of it.                               *)
LEMMA WritesKeepHistory ==
    ASSUME NEW c, Writes(c)
    PROVE  KeepsHistory
<1>1. ASSUME HistoryKept(vol_obj, vol_obj', {})
      PROVE  KeepsHistory
  BY <1>1, HistoryOfKeptBackups
<1>2. ASSUME UNCHANGED vol_obj
      PROVE  KeepsHistory
  BY <1>1, <1>2, StatementsKeepHistory
<1>3. ASSUME NEW b, NEW o, NEW i, NEW l, NEW n, WriteSegments(InsertVolObj(vol_obj, b, o, i, l, n))
      PROVE  KeepsHistory
  <2>1. vol_obj \subseteq vol_obj'
    BY <1>3, StatementsKeepHistory DEF WriteSegments
  <2>2. QED
    BY <1>1, <2>1, StatementsKeepHistory
<1>4. ASSUME NEW b, NEW o, NEW i, NEW l, NEW e, NEW sz,
             WriteSegments(EndVolObj(vol_obj, b, o, i, l, e, sz))
      PROVE  KeepsHistory
  <2>1. EndVolObj(vol_obj, b, o, i, l, e, sz) \subseteq vol_obj'
    BY <1>4 DEF WriteSegments
  <2>2. QED
    BY <1>1, <2>1, StatementsKeepHistory
<1>5. ASSUME NEW B, DeleteBackupIds(B)
      PROVE  KeepsHistory
  <2>1. vol_obj' = DeleteRows(vol_obj, B) /\ DOMAIN backups' = DOMAIN backups \ B
    BY <1>5 DEF DeleteBackupIds, DeleteBackups
  <2>2. HistoryKept(vol_obj, vol_obj', B) /\ DOMAIN backups' \cap B = {}
    BY <2>1, StatementsKeepHistory
  <2>3. QED
    BY <2>2, HistoryOfKeptBackups
<1>6. ASSUME NEW l, NEW b, NEW row, NEW vols, NEW objs, NEW errs,
             Claim(l, b) \/ WriteVolumes(vols) \/ WriteObjects(objs) \/ WriteErrors(errs) \/ WriteBackup(b, row)
      PROVE  UNCHANGED vol_obj
  BY <1>6 DEF Claim, WriteVolumes, WriteObjects, WriteErrors, WriteBackup
<1>7. QED
  BY <1>2, <1>3, <1>4, <1>5, <1>6 DEF Writes

(* ... nor does any step of a process.                                     *)
LEMMA TablesKeepHistory ==
    ASSUME TableStep
    PROVE  KeepsHistory
<1>1. ASSUME UNCHANGED vol_obj
      PROVE  KeepsHistory
  <2>1. HistoryKept(vol_obj, vol_obj', {})
    BY <1>1, StatementsKeepHistory
  <2>2. QED
    BY <2>1, HistoryOfKeptBackups
<1>2. QED
  BY <1>1, WritesKeepHistory DEF TableStep, ReadOnly, vars, NewBackup, AddVolume, Tick

(* No step of any process takes a segment of a backup that stays, or opens *)
(* one again, moves it or changes what was recorded when it ended.         *)
THEOREM RacesKeepHistory == PSpec => SegmentsAreHistory
<1>1. TypeOK /\ ProcOK /\ [PNext]_pvars => (TypeOK /\ ProcOK)'
  BY PTypeStep, ProcStep
<1>2. TypeOK /\ ProcOK /\ [PNext]_pvars => [KeepsHistory]_vars
  BY StepTables, TablesKeepHistory
<1>3. QED
  BY PInitOK, <1>1, <1>2, PTL DEF PSpec, SegmentsAreHistory, KeepsHistory

(* The errors of a label outlive the backups they were reported for.       *)
LEMMA WritesKeepErrors ==
    ASSUME TypeOK, NEW c, CommandOK(c), Writes(c)
    PROVE  KeepsErrors
<1>1. ErrorTable(bck_errors)
  BY DEF TypeOK
<1>2. ASSUME UNCHANGED bck_errors
      PROVE  KeepsErrors
  BY <1>1, <1>2, StatementsKeepErrors
<1>3. CASE c.pc = "err_insert" /\ WriteErrors(InsertBckError(bck_errors, c.l, c.b, c.o, c.i))
  <2> DEFINE row == [bck_id |-> c.b, label |-> c.l, objname |-> c.o, obj_instance |-> c.i]
  <2>1. c.b \in BckId /\ c.l \in Label /\ c.o \in ObjName /\ c.i \in Instance
    BY <1>3 DEF CommandOK, ObjectFields, ObjectPcs, StartPcs, ChangePcs, EndPcs
  <2>2. row \in BckError
    BY <2>1 DEF BckError
  <2>3. bck_errors' = Append(bck_errors, row)
    BY <1>3 DEF WriteErrors, InsertBckError
  <2> HIDE DEF row
  <2>4. QED
    BY <1>1, <2>2, <2>3, StatementsKeepErrors
<1>4. ASSUME NEW B, DeleteBackupIds(B)
      PROVE  KeepsErrors
  <2>1. bck_errors' = DetachErrors(bck_errors, B)
    BY <1>4 DEF DeleteBackupIds
  <2>2. QED
    BY <1>1, <2>1, StatementsKeepErrors
<1>5. ASSUME NEW l, NEW b, NEW row, NEW vols, NEW objs, NEW segs,
             Claim(l, b) \/ WriteVolumes(vols) \/ WriteObjects(objs) \/ WriteSegments(segs) \/ WriteBackup(b, row)
      PROVE  UNCHANGED bck_errors
  BY <1>5 DEF Claim, WriteVolumes, WriteObjects, WriteSegments, WriteBackup
<1>6. QED
  BY <1>2, <1>3, <1>4, <1>5 DEF Writes

(* ... whatever other commands run when an error is reported, or when a    *)
(* backup is removed.                                                      *)
THEOREM RacesKeepErrors == PSpec => ErrorHistoryIsKept
<1>1. TypeOK /\ ProcOK /\ [PNext]_pvars => (TypeOK /\ ProcOK)'
  BY PTypeStep, ProcStep
<1>2. TypeOK /\ ProcOK /\ [PNext]_pvars => [KeepsErrors]_vars
  <2> SUFFICES ASSUME TypeOK, ProcOK, [PNext]_pvars
               PROVE  KeepsErrors \/ UNCHANGED vars
    OBVIOUS
  <2>1. ASSUME UNCHANGED bck_errors
        PROVE  KeepsErrors
    BY <2>1, StatementsKeepErrors DEF TypeOK
  <2>2. ASSUME NEW p \in Process, Writes(proc[p])
        PROVE  KeepsErrors
    BY <2>2, WritesKeepErrors DEF ProcOK
  <2>3. QED
    BY <2>1, <2>2, StepTables DEF TableStep, ReadOnly, NewBackup, AddVolume, Tick
<1>3. QED
  BY PInitOK, <1>1, <1>2, PTL DEF PSpec, ErrorHistoryIsKept, KeepsErrors

-----------------------------------------------------------------------------
(* /verify after commands got in each other's way                          *)

(* When the eight queries of /verify return no row, no reference dangles:  *)
(* on any well-formed catalogue, however it came about.                    *)
LEMMA NoAlarmNoOrphan ==
    ASSUME TypeOK, FiniteTables
    PROVE  VerifyFindsOrphans
<1> SUFFICES ASSUME Total = 0
             PROVE  CatalogReferences
  BY DEF VerifyFindsOrphans
<1> DEFINE a == Cardinality(ErrorsWithoutBackup(bck_errors, backups))
<1> DEFINE b == Cardinality(ErrorsWithoutObject(bck_errors, bck_objects))
<1> DEFINE c == Cardinality(ObjectsWithoutBackup(bck_objects, backups))
<1> DEFINE d == Cardinality(ObjectsWithoutSegment(bck_objects, vol_obj))
<1> DEFINE e == Cardinality(SegmentsWithoutObject(vol_obj, bck_objects))
<1> DEFINE f == Cardinality(SegmentsWithoutVolume(vol_obj, volumes))
<1> DEFINE g == Cardinality(VolumesWithoutSegment(volumes, vol_obj))
<1> DEFINE h == Cardinality(VolumesWithoutBackup(volumes, backups))
<1>1. /\ a \in Nat /\ b \in Nat /\ c \in Nat /\ d \in Nat
      /\ e \in Nat /\ f \in Nat /\ g \in Nat /\ h \in Nat
  BY FiniteAnswers, NoRows
<1>2. a = 0 /\ c = 0 /\ d = 0 /\ e = 0
  <2>1. a + b + c + d + e + f + g + h = 0
    BY DEF Total, TotalErrors
  <2> HIDE DEF a, b, c, d, e, f, g, h
  <2>2. QED
    BY <1>1, <2>1
<1>3. /\ ErrorsWithoutBackup(bck_errors, backups) = {}
      /\ ObjectsWithoutBackup(bck_objects, backups) = {}
      /\ ObjectsWithoutSegment(bck_objects, vol_obj) = {}
      /\ SegmentsWithoutObject(vol_obj, bck_objects) = {}
  BY <1>2, FiniteAnswers, NoRows
<1>4. SegmentsHaveObjects /\ ObjectsHaveSegments
  BY <1>3 DEF SegmentsWithoutObject, ObjectsWithoutSegment, Unmatched,
              SegmentsHaveObjects, ObjectsHaveSegments
<1>5. ObjectsHaveBackups
  BY <1>3 DEF ObjectsWithoutBackup, ObjectsHaveBackups
<1>6. ErrorsHaveBackups
  <2>1. \A k \in DOMAIN bck_errors : bck_errors[k].bck_id \in BckId \cup {0}
    <3>1. \A k \in DOMAIN bck_errors : bck_errors[k] \in BckError
      BY DEF TypeOK, ErrorTable
    <3>2. QED
      BY <3>1 DEF BckError
  <2>2. \A id \in BckId : id > 0
    BY CatalogAssumption
  <2>3. QED
    BY <1>3, <2>1, <2>2 DEF ErrorsWithoutBackup, ErrorsHaveBackups
<1>7. QED
  BY <1>4, <1>5, <1>6 DEF CatalogReferences

(* No step makes the table of objects infinite.                            *)
LEMMA FiniteObjectsStep ==
    ASSUME TableStep, IsFiniteSet(bck_objects)
    PROVE  IsFiniteSet(bck_objects')
<1>1. ASSUME \/ UNCHANGED bck_objects
             \/ \E b, o, i : bck_objects' = InsertBckObject(bck_objects, b, o, i)
             \/ \E b, o, i, e, total : bck_objects' = EndBckObject(bck_objects, b, o, i, e, total)
             \/ \E B : bck_objects' = DeleteRows(bck_objects, B)
      PROVE  IsFiniteSet(bck_objects')
  BY <1>1, FiniteObjects
<1>2. ASSUME NEW c, Writes(c)
      PROVE  IsFiniteSet(bck_objects')
  BY <1>1, <1>2 DEF Writes, Claim, WriteVolumes, WriteObjects, WriteSegments, WriteErrors, WriteBackup,
                    DeleteBackupIds
<1>3. QED
  BY <1>1, <1>2 DEF TableStep, ReadOnly, vars, NewBackup, AddVolume, Tick

(* A total of 0 from /verify means no dangling reference, after any mix of *)
(* commands, however interleaved and with any of them killed.  (The labels *)
(* of a library are finitely many.)                                        *)
THEOREM RacesDoNotFoolVerify ==
    ASSUME IsFiniteSet(Label)
    PROVE  PSpec => []VerifyFindsOrphans
<1> DEFINE Inv == TypeOK /\ ProcOK /\ IsFiniteSet(bck_objects)
<1>1. PInit => Inv
  BY PInitOK, FS_EmptySet DEF PInit
<1>2. Inv /\ [PNext]_pvars => Inv'
  BY PTypeStep, ProcStep, StepTables, FiniteObjectsStep
<1>3. Inv => VerifyFindsOrphans
  <2>1. ASSUME Inv
        PROVE  FiniteTables
    BY <2>1, FS_Subset DEF TypeOK, VolumeTable, FiniteTables
  <2>2. QED
    BY <2>1, NoAlarmNoOrphan
<1>4. QED
  BY <1>1, <1>2, <1>3, PTL DEF PSpec

-----------------------------------------------------------------------------
(* A /startbackup that is not killed puts its object on a tape             *)

(* ObjectsReachTape, in terms of keys.                                     *)
OnTheWay(cmds, b, o, i) ==
    \E p \in Process : /\ cmds[p].pc \in {"start_count", "start_segment"}
                       /\ cmds[p].b = b /\ cmds[p].o = o /\ cmds[p].i = i

ReachTape ==
    \A b, o, i : HasRow(bck_objects, b, o, i) => HasRow(vol_obj, b, o, i) \/ OnTheWay(proc, b, o, i)

(* The process that takes a step is on the way to the tape with the object *)
(* it inserts until it inserts the segment.                                *)
LEMMA StatementReachesTape ==
    ASSUME TypeOK, ProcOK, ReachTape, NEW p \in Process, Statement(p)
    PROVE  ReachTape'
<1> USE DEF StartPcs, ChangePcs, EndPcs, ObjectPcs, BackupPcs, VolumePcs
<1> DEFINE c == proc[p]
<1>1. CommandOK(c) /\ (Writes(c) \/ Reads(c)) /\ GoesTo(p)
  BY StatementSteps DEF ProcOK
<1>2. PICK new : Become(p, new) /\ (new = Idle \/ Follows(c, new))
  BY <1>1 DEF GoesTo
<1>3. \A q \in Process : proc'[q] = IF q = p THEN new ELSE proc[q]
  BY <1>2 DEF Become, ProcOK
<1> HIDE DEF c
<1>4. ASSUME NEW b, NEW o, NEW i, OnTheWay(proc, b, o, i)
      PROVE  \/ OnTheWay(proc', b, o, i)
             \/ c.pc \in {"start_count", "start_segment"} /\ c.b = b /\ c.o = o /\ c.i = i
  <2>1. PICK q \in Process : /\ proc[q].pc \in {"start_count", "start_segment"}
                             /\ proc[q].b = b /\ proc[q].o = o /\ proc[q].i = i
    BY <1>4 DEF OnTheWay
  <2>2. CASE q = p
    BY <2>1, <2>2 DEF c
  <2>3. CASE q # p
    <3>1. proc'[q] = proc[q]
      BY <1>3, <2>3
    <3>2. QED
      BY <2>1, <3>1 DEF OnTheWay
  <2>4. QED
    BY <2>2, <2>3
<1>5. CASE StartObject(p)
  <2> DEFINE n == ObjInstance(bck_objects, c.b, c.o, c.i)
  <2>1. /\ c.pc = "start_object" /\ proc' = [proc EXCEPT ![p] = With(c, "start_count", "i", n)]
        /\ bck_objects' = InsertBckObject(bck_objects, c.b, c.o, n) /\ vol_obj' = vol_obj
    BY <1>5 DEF StartObject, At, Become, c
  <2> HIDE DEF n
  <2>2. /\ proc'[p].pc = "start_count" /\ proc'[p].i = n
        /\ proc'[p].b = c.b /\ proc'[p].o = c.o
    <3>1. proc'[p] = With(c, "start_count", "i", n)
      BY <2>1 DEF ProcOK
    <3>2. {"pc", "b", "o", "i"} \subseteq DOMAIN c
      BY <1>1, <2>1 DEF CommandOK, ObjectFields
    <3>3. QED
      BY <3>1, <3>2 DEF With
  <2>3. OnTheWay(proc', c.b, c.o, n)
    BY <2>2 DEF OnTheWay
  <2>4. AddsKey(bck_objects, bck_objects', c.b, c.o, n)
    BY <2>1, InsertedKeys
  <2>5. ASSUME NEW b, NEW o, NEW i, HasRow(bck_objects', b, o, i), ~HasRow(vol_obj, b, o, i)
        PROVE  OnTheWay(proc', b, o, i)
    BY <1>4, <2>1, <2>3, <2>4, <2>5 DEF AddsKey, ReachTape
  <2>6. QED
    BY <2>1, <2>5 DEF ReachTape
<1>6. CASE StartCount(p)
  <2>1. /\ c.pc = "start_count" /\ UNCHANGED <<bck_objects, vol_obj>>
        /\ \E n : proc' = [proc EXCEPT ![p] = With(c, "start_segment", "n", n)]
    BY <1>6 DEF StartCount, At, Become, ReadOnly, vars, c
  <2>2. /\ proc'[p].pc = "start_segment" /\ proc'[p].i = c.i
        /\ proc'[p].b = c.b /\ proc'[p].o = c.o
    <3>1. PICK n : proc'[p] = With(c, "start_segment", "n", n)
      BY <2>1 DEF ProcOK
    <3>2. {"pc", "b", "o", "i"} \subseteq DOMAIN c
      BY <1>1, <2>1 DEF CommandOK, ObjectFields
    <3>3. QED
      BY <3>1, <3>2 DEF With
  <2>3. OnTheWay(proc', c.b, c.o, c.i)
    BY <2>2 DEF OnTheWay
  <2>4. ASSUME NEW b, NEW o, NEW i, HasRow(bck_objects, b, o, i), ~HasRow(vol_obj, b, o, i)
        PROVE  OnTheWay(proc', b, o, i)
    BY <1>4, <2>3, <2>4 DEF ReachTape
  <2>5. QED
    BY <2>1, <2>4 DEF ReachTape
<1>7. CASE StartSegment(p)
  <2>1. /\ c.pc = "start_segment" /\ bck_objects' = bck_objects
        /\ \E n : vol_obj' = InsertVolObj(vol_obj, c.b, c.o, c.i, c.l, n)
    BY <1>7 DEF StartSegment, At, WriteSegments, c
  <2>2. AddsKey(vol_obj, vol_obj', c.b, c.o, c.i)
    BY <2>1, InsertedKeys
  <2>3. ASSUME NEW b, NEW o, NEW i, HasRow(bck_objects, b, o, i), ~HasRow(vol_obj', b, o, i)
        PROVE  OnTheWay(proc', b, o, i)
    BY <1>4, <2>2, <2>3 DEF ReachTape, AddsKey
  <2>4. QED
    BY <2>1, <2>3 DEF ReachTape
<1>8. ASSUME c.pc \notin {"start_object", "start_count", "start_segment"}
      PROVE  ReachTape'
  <2>1. \A b, o, i : OnTheWay(proc, b, o, i) => OnTheWay(proc', b, o, i)
    BY <1>4, <1>8
  <2>2. ASSUME \A b, o, i : HasRow(bck_objects', b, o, i) =>
                   /\ HasRow(bck_objects, b, o, i)
                   /\ HasRow(vol_obj, b, o, i) => HasRow(vol_obj', b, o, i)
        PROVE  ReachTape'
    BY <2>1, <2>2 DEF ReachTape
  <2>3. ASSUME UNCHANGED <<bck_objects, vol_obj>>
        PROVE  ReachTape'
    BY <2>2, <2>3
  <2>4. ASSUME NEW b, NEW o, NEW i, NEW l, NEW n, WriteSegments(InsertVolObj(vol_obj, b, o, i, l, n))
        PROVE  ReachTape'
    <3>1. AddsKey(vol_obj, vol_obj', b, o, i)
      BY <2>4, InsertedKeys DEF WriteSegments
    <3>2. QED
      BY <2>2, <2>4, <3>1 DEF AddsKey, WriteSegments
  <2>5. ASSUME NEW b, NEW o, NEW i, NEW l, NEW e, NEW sz,
               WriteSegments(EndVolObj(vol_obj, b, o, i, l, e, sz))
        PROVE  ReachTape'
    <3>1. SameKeys(vol_obj, vol_obj')
      BY <2>5, EndedKeys DEF WriteSegments
    <3>2. QED
      BY <2>2, <2>5, <3>1 DEF SameKeys, WriteSegments
  <2>6. ASSUME NEW b, NEW o, NEW i, NEW e, NEW total,
               WriteObjects(EndBckObject(bck_objects, b, o, i, e, total))
        PROVE  ReachTape'
    <3>1. SameKeys(bck_objects, bck_objects')
      BY <2>6, EndedKeys DEF WriteObjects
    <3>2. QED
      BY <2>2, <2>6, <3>1 DEF SameKeys, WriteObjects
  <2>7. ASSUME NEW B, DeleteBackupIds(B)
        PROVE  ReachTape'
    BY <2>2, <2>7, DeletedKeys DEF DeleteBackupIds
  <2>8. ASSUME NEW l, NEW b, NEW row, NEW vols, NEW errs,
               Claim(l, b) \/ WriteVolumes(vols) \/ WriteBackup(b, row) \/ WriteErrors(errs)
        PROVE  ReachTape'
    BY <2>3, <2>8 DEF Claim, WriteVolumes, WriteBackup, WriteErrors
  <2>9. CASE Reads(c)
    BY <2>3, <2>9 DEF Reads, ReadOnly, vars
  <2>10. CASE Writes(c)
    BY <1>8, <2>4, <2>5, <2>6, <2>7, <2>8, <2>10 DEF Writes
  <2>11. QED
    BY <1>1, <2>9, <2>10
<1>9. c.pc \in {"start_object", "start_count", "start_segment"} =>
          StartObject(p) \/ StartCount(p) \/ StartSegment(p)
  BY DEF c, Statement, At, StartCanUse, StartClaim, ChangeClaim, ChangeFind, ChangeEnd, ChangeSegment,
         EndSegment, EndSum, EndObject, ErrInsert, FinishUsage, FinishUpdate, ModifyWrite,
         RemoveDelete, ExpireDelete, ExpireBusy, StateWrite, TakeOutDelete
<1>10. QED
  BY <1>5, <1>6, <1>7, <1>8, <1>9

(* An object without a segment has a /startbackup that is about to give it *)
(* one, whoever else works on the same backup, if nobody is killed.        *)
THEOREM RacesReachTape ==
    ASSUME ~Kills
    PROVE  PSpec => []ObjectsReachTape
<1> DEFINE Inv == TypeOK /\ ProcOK /\ ReachTape
<1>1. PInit => Inv
  BY PInitOK DEF PInit, ReachTape, HasRow
<1>2. Inv /\ [PNext]_pvars => Inv'
  <2> SUFFICES ASSUME Inv, [PNext]_pvars
               PROVE  ReachTape'
    BY PTypeStep, ProcStep
  <2>1. ASSUME UNCHANGED <<bck_objects, vol_obj>>,
               \A q \in Process : proc'[q] = proc[q] \/ proc[q].pc = "idle"
        PROVE  ReachTape'
    <3>1. ASSUME NEW b, NEW o, NEW i, OnTheWay(proc, b, o, i)
          PROVE  OnTheWay(proc', b, o, i)
      BY <2>1, <3>1 DEF OnTheWay
    <3>2. QED
      BY <2>1, <3>1 DEF ReachTape
  <2>2. ASSUME NEW p \in Process, Command(p)
        PROVE  ReachTape'
    <3>1. PICK c : Begin(p, c) /\ ReadOnly
      BY <2>2, BeginOK
    <3>2. proc[p].pc = "idle" /\ \A q \in Process \ {p} : proc'[q] = proc[q]
      BY <3>1 DEF Begin, At, ProcOK
    <3>3. QED
      BY <2>1, <3>1, <3>2 DEF ReadOnly, vars
  <2>3. CASE SingleInsert \/ (Tick /\ UNCHANGED <<proc, started>>) \/ UNCHANGED pvars
    <3>1. UNCHANGED <<bck_objects, vol_obj, proc>>
      BY <2>3 DEF SingleInsert, NewBackup, AddVolume, Tick, pvars, vars
    <3>2. QED
      BY <2>1, <3>1
  <2>4. QED
    BY <2>2, <2>3, StatementReachesTape DEF PNext, Kill
<1>3. Inv => ObjectsReachTape
  <2> SUFFICES ASSUME ReachTape, NEW r \in bck_objects
               PROVE  \/ \E s \in vol_obj : IsOf(s, r.bck_id, r.objname, r.obj_instance)
                      \/ \E p \in Process : /\ proc[p].pc \in {"start_count", "start_segment"}
                                           /\ IsOf(r, proc[p].b, proc[p].o, proc[p].i)
    BY DEF ObjectsReachTape
  <2>1. HasRow(bck_objects, r.bck_id, r.objname, r.obj_instance)
    BY DEF HasRow, IsOf
  <2>2. CASE HasRow(vol_obj, r.bck_id, r.objname, r.obj_instance)
    BY <2>2 DEF HasRow
  <2>3. CASE OnTheWay(proc, r.bck_id, r.objname, r.obj_instance)
    BY <2>3 DEF OnTheWay, IsOf
  <2>4. QED
    BY <2>1, <2>2, <2>3 DEF ReachTape
<1>4. QED
  BY <1>1, <1>2, <1>3, PTL DEF PSpec

-----------------------------------------------------------------------------
(* The type invariant                                                      *)

AnyCommand == {Idle} \cup StartCommand \cup ChangeCommand \cup EndCommand \cup OtherCommand

(* The sum /endbackup reads is a number.                                   *)
LEMMA VolObjSumSizeNat ==
    ASSUME NEW segs, VolObjTable(segs), NEW b, NEW o
    PROVE  VolObjSumSize(segs, b, o) \in Nat
<1> DEFINE X == {s \in segs : s.bck_id = b /\ s.objname = o}
           sizes == [s \in X |-> s.size]
<1>1. IsFiniteSet(X)
  BY FS_Subset DEF VolObjTable
<1>2. Numbers(X, sizes)
  <2>1. Size \cup {0} \subseteq Nat
    BY CatalogAssumption
  <2>2. \A s \in segs : s.size \in Nat
    BY <2>1 DEF VolObjTable, VolObj
  <2>3. QED
    BY <2>2 DEF Numbers
<1>3. VolObjSumSize(segs, b, o) = MapThenSumSet(LAMBDA s : s.size, X)
  BY DEF VolObjSumSize
<1>4. MapThenSumSet(LAMBDA s : s.size, X) = SumOf(X, sizes)
  BY <1>1, SizesAreSum
<1> HIDE DEF X, sizes
<1>5. SumOf(X, sizes) \in Nat
  BY <1>1, <1>2, SumRemove
<1>6. QED
  BY <1>3, <1>4, <1>5

(* A command goes on to its next statement without what it reads there.    *)
LEMMA GotoTyped ==
    ASSUME NEW c \in AnyCommand, NEW pc,
           \/ c.pc = "start_can_use" /\ pc = "start_claim"
           \/ c.pc = "start_claim" /\ pc = "start_object"
           \/ c.pc = "change_claim" /\ pc = "change_find"
           \/ c.pc = "change_end" /\ pc = "change_segment"
           \/ c.pc = "end_segment" /\ pc = "end_sum"
           \/ c.pc = "finish_usage" /\ pc = "finish_update"
    PROVE  [c EXCEPT !.pc = pc] \in AnyCommand
<1>1. CASE c.pc \in {"start_can_use", "start_claim"}
  <2>1. c \in [name : {"start"}, pc : {"start_can_use", "start_claim", "start_object"},
               b : BckId, o : ObjName, l : Label, i : Given]
    BY <1>1 DEF AnyCommand, Idle, StartCommand, ChangeCommand, EndCommand, OtherCommand
  <2>2. [c EXCEPT !.pc = pc] \in StartCommand
    BY <1>1, <2>1 DEF StartCommand
  <2>3. QED
    BY <2>2 DEF AnyCommand
<1>2. CASE c.pc = "change_claim"
  <2>1. c \in [name : {"change"}, pc : {"change_claim", "change_find"},
               b : BckId, o : ObjName, l : Label, i : Instance, e : EndDate]
    BY <1>2 DEF AnyCommand, Idle, StartCommand, ChangeCommand, EndCommand, OtherCommand
  <2>2. [c EXCEPT !.pc = pc] \in ChangeCommand
    BY <1>2, <2>1 DEF ChangeCommand
  <2>3. QED
    BY <2>2 DEF AnyCommand
<1>3. CASE c.pc = "change_end"
  <2>1. c \in [name : {"change"}, pc : {"change_end", "change_segment"},
               b : BckId, o : ObjName, l : Label, i : Instance, e : EndDate, from : Label]
    BY <1>3 DEF AnyCommand, Idle, StartCommand, ChangeCommand, EndCommand, OtherCommand
  <2>2. [c EXCEPT !.pc = pc] \in ChangeCommand
    BY <1>3, <2>1 DEF ChangeCommand
  <2>3. QED
    BY <2>2 DEF AnyCommand
<1>4. CASE c.pc = "end_segment"
  <2>1. c \in [name : {"end"}, pc : {"end_segment", "end_sum"},
               b : BckId, o : ObjName, l : Label, i : Instance, e : EndDate]
    BY <1>4 DEF AnyCommand, Idle, StartCommand, ChangeCommand, EndCommand, OtherCommand
  <2>2. [c EXCEPT !.pc = pc] \in EndCommand
    BY <1>4, <2>1 DEF EndCommand
  <2>3. QED
    BY <2>2 DEF AnyCommand
<1>5. CASE c.pc = "finish_usage"
  <2>1. c \in [name : {"finish"}, pc : {"finish_usage", "finish_update"}, b : BckId, e : Time \cup {0}]
    BY <1>5 DEF AnyCommand, Idle, StartCommand, ChangeCommand, EndCommand, OtherCommand
  <2>2. [c EXCEPT !.pc = pc] \in OtherCommand
    BY <1>5, <2>1 DEF OtherCommand
  <2>3. QED
    BY <2>2 DEF AnyCommand
<1>6. QED
  BY <1>1, <1>2, <1>3, <1>4, <1>5

(* ... with it,                                                            *)
LEMMA WithTyped ==
    ASSUME NEW c \in AnyCommand
    PROVE  /\ \A i \in Instance :
                 c.pc = "start_object" => With(c, "start_count", "i", i) \in AnyCommand
           /\ \A n \in Nat :
                 /\ c.pc = "start_count" => With(c, "start_segment", "n", n) \in AnyCommand
                 /\ c.pc = "end_sum" => With(c, "end_object", "total", n) \in AnyCommand
           /\ \A l \in Label :
                 c.pc = "change_find" => With(c, "change_end", "from", l) \in AnyCommand
<1>1. ASSUME NEW i \in Instance, c.pc = "start_object"
      PROVE  With(c, "start_count", "i", i) \in AnyCommand
  <2>1. c \in [name : {"start"}, pc : {"start_can_use", "start_claim", "start_object"},
               b : BckId, o : ObjName, l : Label, i : Given]
    BY <1>1 DEF AnyCommand, Idle, StartCommand, ChangeCommand, EndCommand, OtherCommand
  <2>2. With(c, "start_count", "i", i) \in StartCommand
    BY <2>1 DEF With, StartCommand
  <2>3. QED
    BY <2>2 DEF AnyCommand
<1>2. ASSUME NEW n \in Nat, c.pc = "start_count"
      PROVE  With(c, "start_segment", "n", n) \in AnyCommand
  <2>1. c \in [name : {"start"}, pc : {"start_count"}, b : BckId, o : ObjName, l : Label, i : Instance]
    BY <1>2 DEF AnyCommand, Idle, StartCommand, ChangeCommand, EndCommand, OtherCommand
  <2>2. With(c, "start_segment", "n", n) \in StartCommand
    BY <2>1 DEF With, StartCommand
  <2>3. QED
    BY <2>2 DEF AnyCommand
<1>3. ASSUME NEW n \in Nat, c.pc = "end_sum"
      PROVE  With(c, "end_object", "total", n) \in AnyCommand
  <2>1. c \in [name : {"end"}, pc : {"end_segment", "end_sum"},
               b : BckId, o : ObjName, l : Label, i : Instance, e : EndDate]
    BY <1>3 DEF AnyCommand, Idle, StartCommand, ChangeCommand, EndCommand, OtherCommand
  <2>2. With(c, "end_object", "total", n) \in EndCommand
    BY <2>1 DEF With, EndCommand
  <2>3. QED
    BY <2>2 DEF AnyCommand
<1>4. ASSUME NEW l \in Label, c.pc = "change_find"
      PROVE  With(c, "change_end", "from", l) \in AnyCommand
  <2>1. c \in [name : {"change"}, pc : {"change_claim", "change_find"},
               b : BckId, o : ObjName, l : Label, i : Instance, e : EndDate]
    BY <1>4 DEF AnyCommand, Idle, StartCommand, ChangeCommand, EndCommand, OtherCommand
  <2>2. With(c, "change_end", "from", l) \in ChangeCommand
    BY <2>1 DEF With, ChangeCommand
  <2>3. QED
    BY <2>2 DEF AnyCommand
<1>5. QED
  BY <1>1, <1>2, <1>3, <1>4

(* ... or with a backup less to remove, as long as there is one.           *)
LEMMA TodoTyped ==
    ASSUME NEW c \in AnyCommand, c.pc = "expire_delete", NEW b \in c.todo, c.todo # {b}
    PROVE  [c EXCEPT !.todo = @ \ {b}] \in AnyCommand
<1>1. c \in [name : {"expire"}, pc : {"expire_delete"}, todo : (SUBSET BckId) \ {{}}]
  BY DEF AnyCommand, Idle, StartCommand, ChangeCommand, EndCommand, OtherCommand
<1>2. c.todo \ {b} \in (SUBSET BckId) \ {{}}
  BY <1>1
<1>3. [c EXCEPT !.todo = @ \ {b}] \in [name : {"expire"}, pc : {"expire_delete"}, todo : (SUBSET BckId) \ {{}}]
  BY <1>1, <1>2
<1>4. QED
  BY <1>3 DEF AnyCommand, OtherCommand

(* The commands that are started are of the types of PTypeOK.              *)
LEMMA BeginTyped ==
    ASSUME TypeOK, NEW p, Command(p)
    PROVE  \E c \in AnyCommand : Begin(p, c)
<1>1. ASSUME NEW b \in BckId, NEW o \in ObjName, NEW l \in Label, NEW given \in Given,
             StartBegin(p, b, o, l, given)
      PROVE  \E c \in AnyCommand : Begin(p, c)
  <2> DEFINE c == [name |-> "start", pc |-> "start_can_use", b |-> b, o |-> o, l |-> l, i |-> given]
  <2>1. c \in AnyCommand
    BY DEF AnyCommand, StartCommand
  <2>2. Begin(p, c)
    BY <1>1 DEF StartBegin
  <2>3. QED
    BY <2>1, <2>2
<1>2. ASSUME NEW b \in BckId, NEW o \in ObjName, NEW l \in Label, NEW i \in Instance, NEW e \in EndDate,
             ChangeBegin(p, b, o, i, l, e)
      PROVE  \E c \in AnyCommand : Begin(p, c)
  <2> DEFINE c == [name |-> "change", pc |-> "change_claim", b |-> b, o |-> o, l |-> l, i |-> i, e |-> e]
  <2>1. c \in AnyCommand
    BY DEF AnyCommand, ChangeCommand
  <2>2. Begin(p, c)
    BY <1>2 DEF ChangeBegin
  <2>3. QED
    BY <2>1, <2>2
<1>3. ASSUME NEW b \in BckId, NEW o \in ObjName, NEW l \in Label, NEW i \in Instance, NEW e \in EndDate,
             EndBegin(p, b, o, i, l, e)
      PROVE  \E c \in AnyCommand : Begin(p, c)
  <2> DEFINE c == [name |-> "end", pc |-> "end_segment", b |-> b, o |-> o, l |-> l, i |-> i, e |-> e]
  <2>1. c \in AnyCommand
    BY DEF AnyCommand, EndCommand
  <2>2. Begin(p, c)
    BY <1>3 DEF EndBegin
  <2>3. QED
    BY <2>1, <2>2
<1>4. ASSUME NEW b \in BckId, NEW o \in ObjName, NEW l \in Label, NEW i \in Instance,
             ErrBegin(p, b, o, i, l)
      PROVE  \E c \in AnyCommand : Begin(p, c)
  <2> DEFINE c == [name |-> "err", pc |-> "err_insert", b |-> b, o |-> o, l |-> l, i |-> i]
  <2>1. c \in AnyCommand
    BY DEF AnyCommand, OtherCommand
  <2>2. Begin(p, c)
    BY <1>4 DEF ErrBegin
  <2>3. QED
    BY <2>1, <2>2
<1>5. ASSUME NEW b \in BckId, FinishBegin(p, b)
      PROVE  \E c \in AnyCommand : Begin(p, c)
  <2>1. PICK e \in Time \cup {0} :
            Begin(p, [name |-> "finish", pc |-> "finish_usage", b |-> b, e |-> e])
    BY <1>5 DEF FinishBegin
  <2> DEFINE c == [name |-> "finish", pc |-> "finish_usage", b |-> b, e |-> e]
  <2>2. c \in AnyCommand
    BY DEF AnyCommand, OtherCommand
  <2>3. QED
    BY <2>1, <2>2
<1>6. ASSUME NEW b \in BckId, RemoveBegin(p, b)
      PROVE  \E c \in AnyCommand : Begin(p, c)
  <2> DEFINE c == [name |-> "remove", pc |-> "remove_delete", b |-> b]
  <2>1. c \in AnyCommand
    BY DEF AnyCommand, OtherCommand
  <2>2. Begin(p, c)
    BY <1>6 DEF RemoveBegin
  <2>3. QED
    BY <2>1, <2>2
<1>7. ASSUME NEW b \in BckId, NEW x \in Time, ModifyBegin(p, b, x)
      PROVE  \E c \in AnyCommand : Begin(p, c)
  <2> DEFINE row == [backups[b] EXCEPT !.expiredate = x]
             c == [name |-> "modify", pc |-> "modify_write", b |-> b, row |-> row]
  <2>1. row \in Backup
    <3>1. [backups[b] EXCEPT !.expiredate = x] \in Backup
      BY <1>7 DEF ModifyBegin, TypeOK, BackupTable, Backup
    <3>2. QED
      BY <3>1
  <2>2. Begin(p, c)
    BY <1>7 DEF ModifyBegin
  <2> HIDE DEF row
  <2>3. c \in AnyCommand
    BY <2>1 DEF AnyCommand, OtherCommand
  <2>4. QED
    BY <2>2, <2>3
<1>8. ASSUME NEW l \in Label, NEW st \in {"F", "A"}, StateBegin(p, l, st)
      PROVE  \E c \in AnyCommand : Begin(p, c)
  <2> DEFINE c == [name |-> "state", pc |-> "state_write", l |-> l, st |-> st]
  <2>1. c \in AnyCommand
    BY DEF AnyCommand, OtherCommand
  <2>2. Begin(p, c)
    BY <1>8 DEF StateBegin
  <2>3. QED
    BY <2>1, <2>2
<1>9. ASSUME NEW l \in Label, TakeOutBegin(p, l)
      PROVE  \E c \in AnyCommand : Begin(p, c)
  <2> DEFINE c == [name |-> "take_out", pc |-> "take_out_delete", l |-> l]
  <2>1. c \in AnyCommand
    BY DEF AnyCommand, OtherCommand
  <2>2. Begin(p, c)
    BY <1>9 DEF TakeOutBegin
  <2>3. QED
    BY <2>1, <2>2
<1>10. ASSUME ExpireBegin(p)
       PROVE  \E c \in AnyCommand : Begin(p, c)
  <2> DEFINE todo == {b \in DOMAIN backups : Expired(b)}
             c == [name |-> "expire", pc |-> "expire_delete", todo |-> todo]
  <2>1. todo \in (SUBSET BckId) \ {{}}
    BY <1>10 DEF ExpireBegin, TypeOK, BackupTable
  <2>2. Begin(p, c)
    BY <1>10 DEF ExpireBegin
  <2> HIDE DEF todo
  <2>3. c \in AnyCommand
    BY <2>1 DEF AnyCommand, OtherCommand
  <2>4. QED
    BY <2>2, <2>3
<1>11. QED
  BY <1>1, <1>2, <1>3, <1>4, <1>5, <1>6, <1>7, <1>8, <1>9, <1>10 DEF Command

(* Every statement leaves its process with such a command, or done.        *)
LEMMA StatementTyped ==
    ASSUME TypeOK, NEW p, proc[p] \in AnyCommand, Statement(p)
    PROVE  \E new \in AnyCommand : Become(p, new)
<1> DEFINE c == proc[p]
<1>1. ASSUME Exit(p)
      PROVE  \E new \in AnyCommand : Become(p, new)
  BY <1>1 DEF Exit, AnyCommand
<1>2. ASSUME NEW pc, Goto(p, pc), [c EXCEPT !.pc = pc] \in AnyCommand
      PROVE  \E new \in AnyCommand : Become(p, new)
  BY <1>2 DEF Goto
<1>3. CASE \/ StartSegment(p) \/ ChangeSegment(p) \/ EndObject(p) \/ ErrInsert(p) \/ FinishUpdate(p)
           \/ ModifyWrite(p) \/ RemoveDelete(p) \/ ExpireBusy(p) \/ StateWrite(p) \/ TakeOutDelete(p)
  BY <1>1, <1>3 DEF StartSegment, ChangeSegment, EndObject, ErrInsert, FinishUpdate, ModifyWrite,
                    RemoveDelete, ExpireBusy, StateWrite, TakeOutDelete
<1>4. CASE StartCanUse(p)
  BY <1>1, <1>2, <1>4, GotoTyped DEF StartCanUse, At
<1>5. CASE StartClaim(p) \/ ChangeClaim(p) \/ ChangeEnd(p) \/ EndSegment(p) \/ FinishUsage(p)
  BY <1>2, <1>5, GotoTyped DEF StartClaim, ChangeClaim, ChangeEnd, EndSegment, FinishUsage, At
<1>6. CASE StartObject(p)
  <2>1. PICK i \in Instance : Become(p, With(c, "start_count", "i", i))
    BY <1>6 DEF StartObject
  <2>2. c.pc = "start_object"
    BY <1>6 DEF StartObject, At
  <2>3. QED
    BY <2>1, <2>2, WithTyped
<1>7. CASE StartCount(p)
  <2>1. PICK n \in Nat : Become(p, With(c, "start_segment", "n", n))
    BY <1>7, CountVolObjLabelNat DEF StartCount, TypeOK
  <2>2. c.pc = "start_count"
    BY <1>7 DEF StartCount, At
  <2>3. QED
    BY <2>1, <2>2, WithTyped
<1>8. CASE ChangeFind(p)
  <2>1. c.pc = "change_find"
    BY <1>8 DEF ChangeFind, At
  <2>2. ASSUME NEW s \in CurrentVolObjs(vol_obj, c.b, c.o, c.i),
               Become(p, With(c, "change_end", "from", s.label))
        PROVE  \E new \in AnyCommand : Become(p, new)
    <3>1. s.label \in Label
      BY SegmentIds DEF CurrentVolObjs, TypeOK
    <3>2. QED
      BY <2>1, <2>2, <3>1, WithTyped
  <2>3. QED
    BY <1>1, <1>8, <2>2 DEF ChangeFind
<1>9. CASE EndSum(p)
  <2>1. PICK n \in Nat : Become(p, With(c, "end_object", "total", n))
    BY <1>9, VolObjSumSizeNat DEF EndSum, TypeOK
  <2>2. c.pc = "end_sum"
    BY <1>9 DEF EndSum, At
  <2>3. QED
    BY <2>1, <2>2, WithTyped
<1>10. CASE ExpireDelete(p)
  <2>1. c.pc = "expire_delete"
    BY <1>10 DEF ExpireDelete, At
  <2>2. PICK b \in c.todo : IF c.todo = {b} THEN Exit(p) ELSE Become(p, [c EXCEPT !.todo = @ \ {b}])
    BY <1>10 DEF ExpireDelete
  <2>3. QED
    BY <1>1, <2>1, <2>2, TodoTyped
<1>11. QED
  BY <1>3, <1>4, <1>5, <1>6, <1>7, <1>8, <1>9, <1>10 DEF Statement

(* Every step keeps the types of the commands and the bound on them.       *)
LEMMA CommandsStep ==
    ASSUME TypeOK, proc \in [Process -> AnyCommand], started \in 0 .. MaxCommands, [PNext]_pvars
    PROVE  proc' \in [Process -> AnyCommand] /\ started' \in 0 .. MaxCommands
<1>1. ASSUME NEW p \in Process, NEW new \in AnyCommand, Become(p, new)
      PROVE  proc' \in [Process -> AnyCommand] /\ started' \in 0 .. MaxCommands
  BY <1>1 DEF Become
<1>2. ASSUME NEW p \in Process, Command(p)
      PROVE  proc' \in [Process -> AnyCommand] /\ started' \in 0 .. MaxCommands
  <2>1. PICK c \in AnyCommand : Begin(p, c)
    BY <1>2, BeginTyped
  <2>2. MaxCommands \in Nat
    BY ProcessesAssumption
  <2>3. QED
    BY <2>1, <2>2 DEF Begin
<1>3. ASSUME NEW p \in Process, Statement(p)
      PROVE  proc' \in [Process -> AnyCommand] /\ started' \in 0 .. MaxCommands
  BY <1>1, <1>3, StatementTyped
<1>4. ASSUME NEW p \in Process, Kill(p)
      PROVE  proc' \in [Process -> AnyCommand] /\ started' \in 0 .. MaxCommands
  BY <1>1, <1>4 DEF Kill, Exit, AnyCommand
<1>5. CASE SingleInsert
  BY <1>5, ProcessesAssumption DEF SingleInsert
<1>6. CASE (Tick /\ UNCHANGED <<proc, started>>) \/ UNCHANGED pvars
  BY <1>6 DEF pvars
<1>7. QED
  BY <1>2, <1>3, <1>4, <1>5, <1>6 DEF PNext

(* Whatever statements are interleaved and whoever is killed, the tables   *)
(* stay well formed and every command holds what its next statement needs. *)
THEOREM RacesKeepTypes == PSpec => []PTypeOK
<1> DEFINE Inv == TypeOK /\ ProcOK /\ proc \in [Process -> AnyCommand] /\ started \in 0 .. MaxCommands
<1>1. PInit => Inv
  BY PInitOK, ProcessesAssumption DEF PInit, AnyCommand
<1>2. Inv /\ [PNext]_pvars => Inv'
  BY PTypeStep, ProcStep, CommandsStep
<1>3. Inv => PTypeOK
  BY DEF PTypeOK, AnyCommand
<1>4. QED
  BY <1>1, <1>2, <1>3, PTL DEF PSpec
=============================================================================
