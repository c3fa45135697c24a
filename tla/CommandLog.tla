----------------------------- MODULE CommandLog ------------------------------
(***************************************************************************)
(* The command log and /replaylog.  A blib process runs its command and    *)
(* then appends it to the log, completed by what the handler decided       *)
(* (addqual); /replaylog /new runs the lines of the log, in their order,   *)
(* on an empty catalogue.                                                  *)
(*                                                                         *)
(* The replica kept here is what a replay of the log so far would make: a  *)
(* line changes it when it is appended, so the log itself is not part of   *)
(* the state.  Between the two steps of a process other processes run and  *)
(* log theirs, so the order of the log need not be that of the commands,   *)
(* and a process that is killed there leaves no line.                      *)
(*                                                                         *)
(* A date goes through the log as `ctime:<seconds>', which the parser of   *)
(* dates does not read: every date comes back as one in 1900.              *)
(***************************************************************************)
EXTENDS Commands, Discipline

CONSTANTS
    Process,
    MaxCommands,    \* bound on the number of commands
    LostDate,       \* the date read back from the log, before any other
    Expirations,    \* whether /runexpiration is among the commands
    Kills           \* whether a process may be killed

ASSUME CommandLogAssumption ==
    /\ MaxCommands \in Nat
    /\ LostDate \in Nat \ {0} /\ \A t \in Time : LostDate < t
    /\ Expirations \in BOOLEAN /\ Kills \in BOOLEAN

VARIABLES
    pending,    \* process -> the line it has still to append to the log, and what
                \* its command keeps others from until then
    commands,   \* number of commands run so far
    lost,       \* whether a killed process has left its line out of the log
    aborted,    \* whether the replay has ended in an exit() before the end of the log
    rvolumes, rbackups, robjects, rvol_obj, rerrors     \* the replayed catalogue

rtables == <<rvolumes, rbackups, robjects, rvol_obj, rerrors>>
logvars == <<pending, commands, lost, aborted>>

\* The replay's clock is not earlier than the one of the commands, and no date that
\* it is compared with survives the log: any later clock does what this one does.
Replica == INSTANCE Commands WITH
    volumes <- rvolumes, backups <- rbackups, bck_objects <- robjects,
    vol_obj <- rvol_obj, bck_errors <- rerrors

Nothing == [line |-> [name |-> "nothing"], keeps |-> {}, shares |-> {}]

\* Some volumes and backups are there, and their lines in the log.
CInit ==
    /\ \E L \in SUBSET Label, B \in SUBSET BckId, x \in Time :
          /\ volumes = [l \in L |-> [bck_id |-> 0, state |-> "F", usage |-> 0]]
          /\ backups = [b \in B |-> [end |-> 0, expiredate |-> x]]
          /\ rbackups = [b \in B |-> [end |-> 0, expiredate |-> LostDate]]
    /\ rvolumes = volumes
    /\ bck_objects = {} /\ robjects = {} /\ vol_obj = {} /\ rvol_obj = {}
    /\ bck_errors = <<>> /\ rerrors = <<>>
    /\ now \in Time
    /\ pending = [p \in Process |-> Nothing]
    /\ commands = 0 /\ lost = FALSE /\ aborted = FALSE

-----------------------------------------------------------------------------
(* The line in the log                                                     *)

\* printlitdate and time_cvt_str_to_blib: what a date of the line is when it is read.
ReadBack(c) ==
    [f \in DOMAIN c |-> IF f \in {"x", "e"} /\ c[f] # 0 THEN LostDate ELSE c[f]]

\* The command with the number of the backup or of the instance it has got.
Completions(c) ==
    CASE c.name = "new" /\ c.b = 0 -> {[c EXCEPT !.b = b] : b \in BckId \ DOMAIN backups}
      [] c.name = "start" /\ ~Refused(c) ->
            {[c EXCEPT !.i = ObjInstance(bck_objects, c.b, c.o, c.i)]}
      [] OTHER -> {c}

LineAsTyped(typed, completed) == ReadBack(typed)    \* Broken: no addqual.
Line(typed, completed) == ReadBack(completed)

\* What a command c keeps others from, so that its place in the log does not matter:
\* the volumes a removal gives back, the instance a start has opened, and the sizes
\* an object's total adds up, besides.
Reserved(c) ==
    Exclusive(c) \cup
    (IF c.name = "remove_backup"
     THEN {<<"label", l>> : l \in {k \in DOMAIN volumes : volumes[k].bck_id = c.b}} ELSE {}) \cup
    (IF c.name = "start" THEN {<<"object", c.b, c.o, c.i>>} ELSE {}) \cup
    (IF c.name \in {"change", "end"} THEN {<<"object", c.b, c.o>>} ELSE {})

KeptApart(c) ==
    \A q \in Process :
        /\ Reserved(c) \cap (pending[q].keeps \cup pending[q].shares) = {}
        /\ Shared(c) \cap pending[q].keeps = {}

-----------------------------------------------------------------------------
\* The bounds of Library do not count as refusals.
InBounds(c) ==
    /\ c.name = "error" => Len(bck_errors) < MaxErrors
    /\ c.name = "finish" => \A l \in DOMAIN volumes : volumes[l].usage < MaxUsage
    /\ c.name = "start" => ObjInstance(bck_objects, c.b, c.o, c.i) \in Instance

\* Process p runs a command, or is refused and returns, or exits.
Execute(p, typed) ==
    /\ pending[p] = Nothing /\ commands < MaxCommands
    /\ InBounds(typed) /\ (typed.name = "expire" => Expirations)
    /\ \E c \in Completions(typed) :
          /\ KeptApart(c)
          /\ IF Refused(c) THEN UNCHANGED vars ELSE Run(c)
          /\ pending' = IF Refused(c) /\ ExitsWhenRefused(c) THEN pending
                        ELSE [pending EXCEPT ![p] = [line |-> Line(typed, c),
                                                     keeps |-> Reserved(c),
                                                     shares |-> Shared(c)]]
    /\ commands' = commands + 1
    /\ UNCHANGED <<lost, aborted, rtables>>

\* log_cmd, and the replay of that line.
Log(p) ==
    LET line == pending[p].line
        refused == Replica!Refused(line)
    IN  /\ pending[p] # Nothing
        /\ pending' = [pending EXCEPT ![p] = Nothing]
        /\ aborted' = (aborted \/ (refused /\ Replica!ExitsWhenRefused(line)))
        /\ IF aborted \/ refused THEN UNCHANGED rtables ELSE Replica!Run(line)
        /\ UNCHANGED <<commands, lost, volumes, backups, bck_objects, vol_obj, bck_errors, now>>

Kill(p) ==
    /\ Kills /\ pending[p] # Nothing
    /\ pending' = [pending EXCEPT ![p] = Nothing]
    /\ lost' = TRUE
    /\ UNCHANGED <<vars, commands, aborted, rtables>>

CNext ==
    \E p \in Process :
        \/ \E c \in CommandLines : Execute(p, c)
        \/ Log(p)
        \/ Kill(p)

CSpec == CInit /\ [][CNext]_<<vars, logvars, rtables>>

-----------------------------------------------------------------------------
(* Properties                                                              *)

\* What a catalogue says when its dates are reduced to `ended' or not.
Undated(bcks) == [b \in DOMAIN bcks |-> bcks[b].end = 0]
UndatedRows(rows) == {[r EXCEPT !.end = IF r.end = 0 THEN 0 ELSE LostDate] : r \in rows}

\* The rows of bck_errors, in whatever order they were inserted: the table has no key.
SameErrors(errs, others) ==
    \E f \in Bijection(DOMAIN errs, DOMAIN others) :
        \A k \in DOMAIN errs : others[f[k]] = errs[k]

\* Once every command has its line, a replay into a new database restores all of
\* the catalogue but its dates and the order of its errors, although the lines of
\* commands that are kept apart may be in another order than the commands: the
\* backup and instance numbers the handlers chose are in the log, a command that was
\* refused is refused again, and none ends the replay.
ReplayRestores ==
    ~lost /\ (\A p \in Process : pending[p] = Nothing) =>
        /\ ~aborted
        /\ rvolumes = volumes
        /\ Undated(rbackups) = Undated(backups)
        /\ UndatedRows(robjects) = UndatedRows(bck_objects)
        /\ UndatedRows(rvol_obj) = UndatedRows(vol_obj)
        /\ SameErrors(rerrors, bck_errors)

\* Even with lines missing or out of order a replay makes a consistent catalogue: its
\* segments are on tapes of their own backup and every row has the rows it refers to.
ReplayIsConsistent ==
    Replica!SegmentsOnOwnedVolumes /\ Replica!CatalogReferences

-----------------------------------------------------------------------------
\* What the help text promises of dates, ctime:n: a replayed /runexpiration takes
\* no backup that had not expired when the command was run.
ReplayKeepsData ==
    (\A p \in Process : pending[p] = Nothing) =>
        \A s \in vol_obj :
            backups[s.bck_id].expiredate >= now =>
                \E t \in rvol_obj : IsOf(t, s.bck_id, s.objname, s.obj_instance)
=============================================================================
