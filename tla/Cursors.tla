------------------------------- MODULE Cursors -------------------------------
(***************************************************************************)
(* How one blib process reads the catalogue: a stack of prepared           *)
(* statements (dbh->sqlstack), one status for all of them (dbh->status),   *)
(* and handlers that open a cursor inside the loop over another one.       *)
(* db_find steps whatever statement is on top, so a loop goes on with its  *)
(* own cursor only if everything run inside it left the stack as it was.   *)
(*                                                                         *)
(* A handler is the sequence of statements it runs, and a loop the         *)
(* sequence it runs for each row.  What the rows hold is not modelled, so  *)
(* where a handler decides on a row it has a set of such sequences.        *)
(* A statement can fail when it is prepared (a catalogue without tables, a *)
(* locked schema) or when it is stepped (SQLITE_BUSY once db_busy_handler  *)
(* has given up, an I/O error).                                            *)
(***************************************************************************)
EXTENDS Integers, Sequences

CONSTANTS
    SQL_MAX,    \* slots of dbh->sqlstack
    Failures,   \* where a statement may fail: "prepare", "step"
    MaxStuck    \* bound on the failed steps of one process

ASSUME CursorAssumption ==
    SQL_MAX \in Nat /\ Failures \subseteq {"prepare", "step"} /\ MaxStuck \in Nat

-----------------------------------------------------------------------------
(* The statements of the handlers                                          *)

\* Run and popped in one call.  "known" and "fetch" are db_find_backups_by_bck_id,
\* "delete" is the transaction of db_delete_backup_id.
Execs == {"exec", "known", "fetch", "delete"}

\* db_find with FND_EQUAL.
Lookups == {"lookup", "equal", "locate"}

\* Broken: a volume that is not found is passed over.
IfNotFoundLenient(item) ==
    CASE item \in {"known", "equal"} -> "return"
      [] item = "fetch" -> "exit"
      [] OTHER -> "go on"

\* What a handler does when one of them finds no row: go on, leave the loop or
\* the handler, or exit(EBADF).
IfNotFound(item) ==
    CASE item \in {"known", "equal"}  -> "return"
      [] item \in {"fetch", "locate"} -> "exit"
      [] OTHER -> "go on"

\* Slots a statement takes: the transaction keeps one under those of its updates.
Depth(item) == IF item = "delete" THEN 2 ELSE 1

\* db_find with FND_FIRST and FND_NEXT: the loops.
VerifyQueries == {"errors1", "errors2", "objects1", "objects2",
                  "vol_obj1", "vol_obj2", "volumes1", "volumes2"}
Queries == VerifyQueries \cup
    {"labels", "free", "by_expire", "volumes", "backups", "objects", "segments",
     "objects_of", "segments_of", "errors", "tapes"}

\* What each loop runs for a row.
LabelsBodies == {<<>>, <<"exec">>, <<"exec", "exec">>}
ExpiryBodies == {<<>>, <<"exec", "delete">>, <<"exec", "volumes", "delete">>}
VolumesBodies == {<<"exec">>}
BackupsBodies == {<<>>, <<"volumes">>}
ObjectsBodies == {<<"fetch", "segments">>}
SegmentsBodies == {<<"locate">>}
ReportBodies(q) ==
    CASE q = "objects_of"  -> {<<"segments_of">>}
      [] q = "segments_of" -> {<<"exec", "errors">>}
      [] q = "tapes"       -> {<<"exec", "exec">>}
      [] OTHER             -> {<<>>}

Bodies(q) ==
    CASE q = "labels"    -> LabelsBodies
      [] q = "by_expire" -> ExpiryBodies
      [] q = "volumes"   -> VolumesBodies
      [] q = "backups"   -> BackupsBodies
      [] q = "objects"   -> ObjectsBodies
      [] q = "segments"  -> SegmentsBodies
      [] OTHER           -> ReportBodies(q)

\* What each handler runs: /add stands for the commands without a loop.
Handlers ==
    {<<"lookup">>, <<"lookup", "exec">>,                             \* /add
     <<"labels">>, <<"free">>,                                       \* /report...
     <<"by_expire">>,                                                \* /runexpiration
     <<"backups">>, <<"lookup", "backups">>, <<"equal", "volumes">>, \* /listbackups
     <<"objects">>,                                                  \* /listobjects
     <<"known", "objects_of", "tapes">>,                             \* /reportbackup
     <<"errors1", "errors2", "objects1", "objects2",                 \* /verify
       "vol_obj1", "vol_obj2", "volumes1", "volumes2">>}

-----------------------------------------------------------------------------
VARIABLES
    sqlstack,   \* dbh->sqlstack: the query of each statement not yet finalized
    status,     \* dbh->status: "ok", "row", "done" or "err"
    frames,     \* the handler and, above it, its open loops: what each has still to run
    stuck,      \* how many steps failed with their statement left on the stack
    exited      \* "no", or how the process ended

vars == <<sqlstack, status, frames, stuck, exited>>

Init ==
    /\ sqlstack = <<>>
    /\ status = "ok"
    /\ \E h \in Handlers : frames = <<[query |-> "none", todo |-> h]>>
    /\ stuck = 0
    /\ exited = "no"

\* The innermost open loop, and the next statement in it.
Current == frames[Len(frames)]
AtEnd == Current.todo = <<>>
Item == Head(Current.todo)

Pop(s) == SubSeq(s, 1, Len(s) - 1)
SetTodo(todo) == [frames EXCEPT ![Len(frames)] = [query |-> Current.query, todo |-> todo]]
GoOn == SetTodo(Tail(Current.todo))

Running == exited = "no"
ToRun(items) == Running /\ ~AtEnd /\ Item \in items
Room == Len(sqlstack) + Depth(Item) <= SQL_MAX
Outcomes(failing) == {"row", "done"} \cup (IF failing THEN {"err"} ELSE {})

\* Broken: the pop after the last row is missing; only FND_EQUAL pops.
AfterStepEqualOnly(st, out, equal) == IF equal THEN Pop(st) ELSE st
\* Broken: FND_EQUAL is forgotten.
AfterStepDoneOnly(st, out, equal) == IF out = "done" THEN Pop(st) ELSE st

\* The end of db_find: a statement that is done, or that was to return one row
\* only, is popped; one whose step failed is not.
AfterStep(st, out, equal) == IF out = "done" \/ equal THEN Pop(st) ELSE st

\* A step that failed and left its statement behind, in reach of MaxStuck.
CountStuck(out) ==
    /\ out = "err" => stuck < MaxStuck
    /\ stuck' = IF out = "err" THEN stuck + 1 ELSE stuck

-----------------------------------------------------------------------------
(* Loops                                                                   *)

\* FND_FIRST, prepared: the loop is entered when the step returns a row.
First ==
    /\ ToRun(Queries) /\ Room
    /\ \E out \in Outcomes("step" \in Failures) :
          /\ sqlstack' = AfterStep(Append(sqlstack, Item), out, FALSE)
          /\ status' = out
          /\ CountStuck(out)
          /\ IF out = "row"
             THEN \E b \in Bodies(Item) :
                     frames' = Append(GoOn, [query |-> Item, todo |-> b])
             ELSE frames' = GoOn
    /\ UNCHANGED exited

\* FND_FIRST, not prepared: popped again, and no loop.
FirstUnprepared ==
    /\ ToRun(Queries) /\ Room /\ "prepare" \in Failures
    /\ sqlstack' = Pop(Append(sqlstack, Item))
    /\ status' = "err"
    /\ frames' = GoOn
    /\ UNCHANGED <<stuck, exited>>

\* FND_NEXT: steps the statement on top, whose ever it is.
Advance ==
    /\ Running /\ AtEnd /\ Len(frames) > 1 /\ status # "err"
    /\ \E out \in Outcomes("step" \in Failures) :
          /\ sqlstack' = AfterStep(sqlstack, out, FALSE)
          /\ status' = out
          /\ CountStuck(out)
          /\ IF out = "row" THEN \E b \in Bodies(Current.query) : frames' = SetTodo(b)
                            ELSE frames' = Pop(frames)
    /\ UNCHANGED exited

\* FND_NEXT after anything failed: the top is popped and the loop ends.
AdvanceFailed ==
    /\ Running /\ AtEnd /\ Len(frames) > 1 /\ status = "err"
    /\ sqlstack' = Pop(sqlstack)
    /\ frames' = Pop(frames)
    /\ UNCHANGED <<status, stuck, exited>>

\* FND_NEXT returns an object of another name: FND_FINSIHED.
Finish ==
    /\ Running /\ AtEnd /\ Len(frames) > 1 /\ Current.query = "objects" /\ status # "err"
    /\ status' = "row"
    /\ sqlstack' = Pop(sqlstack)
    /\ frames' = Pop(frames)
    /\ UNCHANGED <<stuck, exited>>

-----------------------------------------------------------------------------
(* Statements without a loop                                               *)

\* The handler goes on after Item came back with out, or ends, or exits.
Proceed(out) ==
    LET notFound == IF out = "row" THEN "go on" ELSE IfNotFound(Item)
    IN  /\ frames' = IF notFound = "return" THEN SetTodo(<<>>) ELSE GoOn
        /\ exited' = IF notFound = "exit" THEN "EBADF" ELSE "no"

Exec ==
    /\ ToRun(Execs) /\ Room
    /\ \E out \in Outcomes(Failures # {}) : status' = out /\ Proceed(out)
    /\ sqlstack' = Pop(Append(sqlstack, Item))
    /\ UNCHANGED stuck

Lookup ==
    /\ ToRun(Lookups) /\ Room
    /\ \E out \in Outcomes("step" \in Failures) :
          /\ status' = out /\ Proceed(out)
          /\ sqlstack' = AfterStep(Append(sqlstack, Item), out, TRUE)
    /\ UNCHANGED stuck

\* FND_EQUAL, not prepared: popped once for the error, and once more because it
\* is FND_EQUAL.  sqlstack_pop exits when nothing is left for the second one.
LookupUnprepared ==
    /\ ToRun(Lookups) /\ Room /\ "prepare" \in Failures
    /\ status' = "err"
    /\ sqlstack' = Pop(sqlstack)
    /\ IF sqlstack = <<>> THEN exited' = "underflow" /\ UNCHANGED <<frames, stuck>>
                          ELSE Proceed("err") /\ stuck' = stuck - 1

\* sqlstack_push exits when the stack is full.
Overflow ==
    /\ ToRun(Queries \cup Execs \cup Lookups) /\ ~Room
    /\ exited' = "overflow"
    /\ UNCHANGED <<sqlstack, status, frames, stuck>>

\* db_close at the end of the process: SQLite refuses to close a connection that
\* has statements which are not finalized.
Close ==
    /\ Running /\ AtEnd /\ Len(frames) = 1
    /\ exited' = IF sqlstack = <<>> THEN "closed" ELSE "busy"
    /\ UNCHANGED <<sqlstack, status, frames, stuck>>

Exited == ~Running /\ UNCHANGED vars

Next ==
    \/ First \/ FirstUnprepared \/ Advance \/ AdvanceFailed \/ Finish
    \/ Exec \/ Lookup \/ LookupUnprepared
    \/ Overflow \/ Close \/ Exited

Spec == Init /\ [][Next]_vars

-----------------------------------------------------------------------------
(* Properties                                                              *)

\* The statements a running handler has left on the stack are those of its open
\* loops and one for each step that failed, never one more or less: a loop that
\* ends by its last row, by FND_FINSIHED or by an error elsewhere takes exactly
\* one with it, and a nested lookup none.
StuckStatements == Running => Len(sqlstack) = Len(frames) - 1 + stuck

\* No open loop loses its cursor to what runs inside it, not even to the second
\* pop of a lookup: there is always a statement for its FND_NEXT to step.
LoopsKeepCursors == Running => Len(sqlstack) >= Len(frames) - 1

\* As long as no step has failed, the stack is the cursors of the open loops in
\* their order, so FND_NEXT steps the loop's own one.
CursorsAreOwn ==
    Running /\ stuck = 0 =>
        sqlstack = [k \in 1 .. Len(frames) - 1 |-> frames[k + 1].query]

\* The deepest a handler goes is three statements: the slots run out, and
\* SQLite refuses to close the catalogue, only after steps have failed.
ExitsNeedFailures ==
    /\ exited = "overflow" => stuck + 3 > SQL_MAX
    /\ exited = "busy" => stuck > 0
=============================================================================
