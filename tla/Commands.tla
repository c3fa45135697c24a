------------------------------ MODULE Commands -------------------------------
(***************************************************************************)
(* A command line as one value: a record of its name and of the qualifiers *)
(* that matter, and what execute_cmds does with it.  The handlers are      *)
(* Library's actions; the same command can be run on another catalogue     *)
(* through an instance of this module.                                     *)
(***************************************************************************)
EXTENDS Library

CONSTANT GivenInstance      \* the values /objinstance of /startbackup takes; 0 leaves it out

ASSUME CommandsAssumption == GivenInstance \subseteq Instance \cup {0}

\* The command lines: b = 0 leaves out /bck_id, e = 0 /end.
VolumeCommands ==
    [name : {"add", "state"}, l : Label, st : {"F", "A"}] \cup
    [name : {"remove"}, l : Label]

BackupCommands ==
    [name : {"new"}, b : BckId \cup {0}, x : Time] \cup
    [name : {"finish"}, b : BckId, e : Time \cup {0}] \cup
    [name : {"modify"}, b : BckId, x : Time] \cup
    [name : {"remove_backup"}, b : BckId]

ObjectCommands ==
    [name : {"start"}, b : BckId, o : ObjName, i : GivenInstance, l : Label] \cup
    [name : {"error"}, b : BckId, o : ObjName, i : Instance, l : Label] \cup
    [name : {"change", "end"}, b : BckId, o : ObjName, i : Instance, l : Label,
     e : Time, sz : Size]

CommandLines ==
    VolumeCommands \cup BackupCommands \cup ObjectCommands \cup [name : {"expire"}]

-----------------------------------------------------------------------------
Add(c) == c.name = "add" /\ AddVolume(c.l, c.st, 0)
State(c) == c.name = "state" /\ ModifyState(c.l, c.st)
Remove(c) == c.name = "remove" /\ RemoveVolume(c.l)

\* Without /bck_id the clock chooses.
New(c) == c.name = "new" /\ \E b \in IF c.b = 0 THEN BckId ELSE {c.b} : NewBackup(b, c.x)
Finish(c) == c.name = "finish" /\ FinishBackup(c.b, c.e)
Modify(c) ==
    c.name = "modify" /\ c.b \in DOMAIN backups /\ ModifyBackup(c.b, c.x, backups[c.b].end)
RemoveB(c) == c.name = "remove_backup" /\ RemoveBackup(c.b)

Start(c) == c.name = "start" /\ StartBackup(c.b, c.o, c.l, c.i)
Error(c) == c.name = "error" /\ ErrBackup(c.b, c.o, c.i, c.l)
Change(c) ==
    /\ c.name = "change"
    /\ \/ ChangeVolume(c.b, c.o, c.i, c.l, c.e, c.sz)
       \/ ChangeVolumeNoSegment(c.b, c.o, c.i, c.l)
End(c) == c.name = "end" /\ EndBackup(c.b, c.o, c.i, c.l, c.e, c.sz)
Expire(c) == c.name = "expire" /\ RunExpiration(0)

\* execute_cmds: the handler of the command's name.
Run(c) ==
    \/ Add(c) \/ State(c) \/ Remove(c)
    \/ New(c) \/ Finish(c) \/ Modify(c) \/ RemoveB(c)
    \/ Start(c) \/ Error(c) \/ Change(c) \/ End(c)
    \/ Expire(c)

Refused(c) == ~ENABLED Run(c)

\* The refusals that exit() in the handler; after the others the handler returns.
ModifyExits(c) == c.name = "state" /\ c.l \in DOMAIN volumes            \* part of a backup
RemoveExits(c) == c.name = "remove_backup" /\ c.b \in DOMAIN backups   \* not expired, no `Y'

ExitsWhenRefused(c) == ModifyExits(c) \/ RemoveExits(c)
=============================================================================
