------------------------------ MODULE Sharing -------------------------------
(***************************************************************************)
(* Several blib processes on one catalogue file: how they open or create   *)
(* it, which of SQLite's file locks each of their statements needs, and    *)
(* who waits for whom.  What the rows hold is left to Processes; here a    *)
(* statement is the locks it takes and how it ends.                        *)
(*                                                                         *)
(* SQLite (vendored) has one file lock per connection: SHARED while a      *)
(* select is being stepped, RESERVED from the first change of a            *)
(* transaction, PENDING while a commit waits for the readers to finish.    *)
(* When a lock is not to be had it calls db_busy_handler, which always     *)
(* says `again' (its limit of 2000000 tries is not modelled): the          *)
(* statement waits.  It does not call it for a connection that already     *)
(* reads: the statement fails with SQLITE_BUSY at once.                    *)
(***************************************************************************)
EXTENDS Integers, Sequences, FiniteSets

CONSTANTS
    Process,
    Commands,   \* the commands the processes run
    Deletes,    \* statements in the transaction of db_delete_backup_id
    Tables,     \* create statements in load_schema
    MaxRows,    \* bound on the backups one /runexpiration goes through
    Kills       \* whether a process may be killed

\* The statements of each command: "select" is a find with everything nested
\* in it, "write" an autocommitted change or the immediate transaction of
\* db_insert_bck_objects, "delete" db_delete_backup_id, and "expiry" the select
\* of /runexpiration with a db_delete_backup_id for the rows that have expired.
\* The select at the end of `finish' counts errors, that of `modify' displays the
\* backup; a tape is modified with the statements of `add'.
Statements ==
    [add    |-> <<"select", "write">>,
     start  |-> <<"select", "select", "write", "write", "select", "write">>,
     change |-> <<"select", "write", "select", "write", "write">>,
     end    |-> <<"select", "write", "select", "write">>,
     err    |-> <<"select", "write">>,
     finish |-> <<"select", "write", "write", "select">>,
     modify |-> <<"select", "write", "select">>,
     remove |-> <<"select", "delete">>,
     expire |-> <<"expiry">>,
     report |-> <<"select">>]

ASSUME SharingAssumption ==
    /\ Commands \subseteq DOMAIN Statements
    /\ Deletes \in Nat \ {0} /\ Tables \in Nat \ {0} /\ MaxRows \in Nat \ {0}
    /\ Kills \in BOOLEAN

Missing == 0 - 1

VARIABLES
    schema,     \* Missing, or how many create statements the file has seen
    proc,       \* process -> its command and how far it is
    disturbed   \* whether, before the schema was whole, another process opened
                \* the file or the one that loads the schema was killed

vars == <<schema, proc, disturbed>>

(* The fields of proc[p]:                                                  *)
(*   pc       start, stat, load, run or done                               *)
(*   name     the command                                                  *)
(*   todo     its statements that are still to run                         *)
(*   lock     none, shared, reserved or pending                            *)
(*   rows     rows its open select still has; 0 when none is open          *)
(*   next     next statement of its deletion; 0 outside one                *)
(*   applied  the statements of the deletion that took effect              *)
(*   yielded  whether, during the deletion, another process let go of its  *)
(*            RESERVED lock without committing                             *)
(*   refused  whether a statement of it came back with SQLITE_BUSY         *)
Start(c) ==
    [pc |-> "start", name |-> c, todo |-> Statements[c], lock |-> "none", rows |-> 0,
     next |-> 0, applied |-> {}, yielded |-> FALSE, refused |-> FALSE]

Init ==
    /\ schema \in {Missing, Tables}
    /\ proc \in [Process -> {Start(c) : c \in Commands}]
    /\ disturbed = FALSE

-----------------------------------------------------------------------------
(* SQLite's locks                                                          *)
Others(p) == Process \ {p}
Writer(q) == proc[q].lock \in {"reserved", "pending"}

\* p may read: nobody is waiting to commit.  p may write: nobody else writes.
CanRead(p) == \A q \in Others(p) : proc[q].lock # "pending"
CanWrite(p) == \A q \in Others(p) : ~Writer(q)

\* A commit needs every other reader to be done.
CanCommit(p) == \A q \in Others(p) : proc[q].lock = "none"

\* p takes another record.
Become(p, c) == proc' = [proc EXCEPT ![p] = c]

\* ... and lets go of its locks without a commit: if it had reserved the file, the
\* deletions that other processes are in are marked.
Yield(p, c) ==
    proc' = [q \in Process |->
                IF q = p THEN c
                ELSE IF Writer(p) /\ proc[q].pc = "run" /\ proc[q].next > 0
                THEN [proc[q] EXCEPT !.yielded = TRUE]
                ELSE proc[q]]

\* The lock p goes back to after a transaction: its select may still be open.
Resting(p) == IF proc[p].rows > 0 THEN "shared" ELSE "none"

-----------------------------------------------------------------------------
(* db_open                                                                 *)

Halfway == schema \in 0 .. Tables - 1

\* stat: the schema is to be loaded only if there is no file.
Stat(p) ==
    /\ proc[p].pc = "start"
    /\ Become(p, [proc[p] EXCEPT !.pc = IF schema = Missing THEN "stat" ELSE "run"])
    /\ disturbed' = (disturbed \/ Halfway)
    /\ UNCHANGED schema

\* sqlite3_open makes an empty file, unless another process just has.
Create(p) ==
    /\ proc[p].pc = "stat"
    /\ schema' = IF schema = Missing THEN 0 ELSE schema
    /\ disturbed' = (disturbed \/ Halfway)
    /\ Become(p, [proc[p] EXCEPT !.pc = "load"])

EndLoad(c) == [c EXCEPT !.pc = "run", !.next = 0, !.lock = "none"]

\* load_schema: the next create statement (next counts those that succeeded)
\* finds its table there already, or a lock in its way.  No busy handler is
\* installed yet, the first failure ends load_schema, and db_open does not look
\* at what it returns.
LoadFails(p) ==
    LET c == proc[p]
    IN  /\ c.pc = "load"
        /\ \/ c.lock = "none" /\ (schema # c.next \/ ~CanWrite(p))
           \/ c.lock = "reserved" /\ ~CanCommit(p)
        /\ Yield(p, EndLoad(c))
        /\ UNCHANGED <<schema, disturbed>>

LoadReserve(p) ==
    LET c == proc[p]
    IN  /\ c.pc = "load" /\ c.lock = "none" /\ schema = c.next /\ CanWrite(p)
        /\ Become(p, [c EXCEPT !.lock = "reserved"])
        /\ UNCHANGED <<schema, disturbed>>

\* Broken: the test of the status is the wrong way round.
LoadCommitReturn(p) ==
    LET c == proc[p]
    IN  /\ c.pc = "load" /\ c.lock = "reserved" /\ CanCommit(p)
        /\ schema' = schema + 1
        /\ Become(p, EndLoad(c))
        /\ UNCHANGED disturbed

LoadCommit(p) ==
    LET c == proc[p]
    IN  /\ c.pc = "load" /\ c.lock = "reserved" /\ CanCommit(p)
        /\ schema' = schema + 1
        /\ Become(p, IF schema' = Tables THEN EndLoad(c)
                     ELSE [c EXCEPT !.next = @ + 1, !.lock = "none"])
        /\ UNCHANGED disturbed

-----------------------------------------------------------------------------
(* The statements of a command                                             *)
Runs(p, kinds) == proc[p].pc = "run" /\ proc[p].todo # <<>> /\ Head(proc[p].todo) \in kinds

\* Within a deletion, and not yet at its commit.
Deleting(p) == proc[p].pc = "run" /\ proc[p].next \in 1 .. Deletes

Released(p) == [proc[p] EXCEPT !.lock = "none", !.rows = 0,
                               !.next = 0, !.applied = {}, !.yielded = FALSE]

GoOn(p) == [Released(p) EXCEPT !.todo = Tail(@)]

Exit(p) == [Released(p) EXCEPT !.pc = "done", !.todo = <<>>]

\* A table the statement needs may not be there: the handler gives up.
Unprepared(p) ==
    /\ Runs(p, {"select", "write", "delete", "expiry"})
    /\ proc[p].lock = "none" /\ Halfway
    /\ Become(p, Exit(p))
    /\ UNCHANGED <<schema, disturbed>>

\* The first row of a select is stepped.
SelectOpen(p) ==
    /\ Runs(p, {"select", "expiry"})
    /\ proc[p].rows = 0 /\ CanRead(p)
    /\ \E n \in 1 .. (IF Runs(p, {"expiry"}) THEN MaxRows ELSE 1) :
          Become(p, [proc[p] EXCEPT !.lock = "shared", !.rows = n])
    /\ UNCHANGED <<schema, disturbed>>

\* Broken: the select is not run to its end, and keeps its lock.
SelectLeft(p) ==
    /\ Runs(p, {"select", "expiry"})
    /\ proc[p].rows > 0 /\ proc[p].next = 0
    /\ Become(p, IF proc[p].rows = 1 THEN [proc[p] EXCEPT !.todo = Tail(@)]
                 ELSE [proc[p] EXCEPT !.rows = @ - 1])
    /\ UNCHANGED <<schema, disturbed>>

\* The next row, or the end of the select, which gives the lock back.
SelectStep(p) ==
    /\ Runs(p, {"select", "expiry"})
    /\ proc[p].rows > 0 /\ proc[p].next = 0
    /\ Become(p, IF proc[p].rows = 1 THEN GoOn(p) ELSE [proc[p] EXCEPT !.rows = @ - 1])
    /\ UNCHANGED <<schema, disturbed>>

\* Broken: nobody looks whether another process writes.
ReserveUnguarded(p) ==
    /\ Runs(p, {"write"}) \/ Deleting(p)
    /\ ~Writer(p)
    /\ Become(p, [proc[p] EXCEPT !.lock = "reserved"])
    /\ UNCHANGED <<schema, disturbed>>

\* A change, or the first change of a transaction, reserves the file.
Reserve(p) ==
    /\ Runs(p, {"write"}) \/ Deleting(p)
    /\ ~Writer(p) /\ CanWrite(p)
    /\ proc[p].lock = "none" => CanRead(p)
    /\ Become(p, [proc[p] EXCEPT !.lock = "reserved"])
    /\ UNCHANGED <<schema, disturbed>>

\* The update found no row, or the insert was rolled back: nothing to commit.
WriteNothing(p) ==
    /\ Runs(p, {"write"}) /\ proc[p].lock = "reserved"
    /\ Yield(p, GoOn(p))
    /\ UNCHANGED <<schema, disturbed>>

\* The commit has to wait for the readers, and lets no new ones in.
Pend(p) ==
    /\ proc[p].pc = "run" /\ proc[p].lock = "reserved" /\ ~CanCommit(p)
    /\ Runs(p, {"write"}) \/ proc[p].next > Deletes
    /\ Become(p, [proc[p] EXCEPT !.lock = "pending"])
    /\ UNCHANGED <<schema, disturbed>>

Commit(p) ==
    /\ Runs(p, {"write"}) /\ Writer(p) /\ CanCommit(p)
    /\ Become(p, GoOn(p))
    /\ UNCHANGED <<schema, disturbed>>

(* db_delete_backup_id: begin, Deletes statements, commit                  *)

\* begin transaction takes no lock.
DeleteBegin(p) ==
    /\ Runs(p, {"delete"}) \/ (Runs(p, {"expiry"}) /\ proc[p].rows > 0)
    /\ proc[p].next = 0
    /\ Become(p, [proc[p] EXCEPT !.next = 1])
    /\ UNCHANGED <<schema, disturbed>>

\* Broken: no `begin transaction', each statement commits.
DeleteAutocommitted(p) ==
    /\ Deleting(p) /\ Writer(p) /\ CanCommit(p)
    /\ Become(p, [proc[p] EXCEPT !.next = @ + 1, !.applied = @ \cup {proc[p].next},
                                 !.lock = Resting(p)])
    /\ UNCHANGED <<schema, disturbed>>

DeleteStatement(p) ==
    /\ Deleting(p) /\ Writer(p)
    /\ Become(p, [proc[p] EXCEPT !.next = @ + 1, !.applied = @ \cup {proc[p].next}])
    /\ UNCHANGED <<schema, disturbed>>

\* Broken: the busy handler is called in every case.
NeverDeadlocks(p) == FALSE

\* A connection that reads already would wait for a writer that may be waiting
\* for it.
WouldDeadlock(p) == proc[p].lock = "shared"

\* The statement fails; db_delete_backup_id goes on to the next one.
Refused(p) ==
    /\ Deleting(p)
    /\ WouldDeadlock(p) /\ ~CanWrite(p)
    /\ Become(p, [proc[p] EXCEPT !.next = @ + 1, !.refused = TRUE])
    /\ UNCHANGED <<schema, disturbed>>

\* The backup was gone before this /removebackup came to it: nothing to commit.
DeleteNothing(p) ==
    /\ Runs(p, {"delete"}) /\ proc[p].next > Deletes
    /\ Yield(p, GoOn(p))
    /\ UNCHANGED <<schema, disturbed>>

\* commit, if there is anything to: the next row, or the end of the command.
DeleteCommit(p) ==
    /\ proc[p].pc = "run" /\ proc[p].next > Deletes
    /\ Writer(p) => CanCommit(p)
    /\ Become(p, IF proc[p].rows < 2 THEN GoOn(p)
                 ELSE [proc[p] EXCEPT !.rows = @ - 1, !.next = 0, !.applied = {},
                                      !.yielded = FALSE, !.lock = Resting(p)])
    /\ UNCHANGED <<schema, disturbed>>

Finish(p) ==
    /\ proc[p].pc = "run" /\ proc[p].todo = <<>>
    /\ Become(p, Exit(p))
    /\ UNCHANGED <<schema, disturbed>>

\* The process is gone, and its locks with it.
Kill(p) ==
    /\ Kills /\ proc[p].pc # "done"
    /\ Yield(p, Exit(p))
    /\ disturbed' = (disturbed \/ (proc[p].pc = "load" /\ Halfway))
    /\ UNCHANGED schema

Step(p) ==
    \/ Stat(p) \/ Create(p) \/ LoadReserve(p) \/ LoadCommit(p) \/ LoadFails(p)
    \/ Unprepared(p) \/ Finish(p)
    \/ SelectOpen(p) \/ SelectStep(p)
    \/ Reserve(p) \/ WriteNothing(p) \/ Pend(p) \/ Commit(p)
    \/ DeleteBegin(p) \/ DeleteStatement(p) \/ Refused(p) \/ DeleteNothing(p) \/ DeleteCommit(p)

AllDone == (\A p \in Process : proc[p].pc = "done") /\ UNCHANGED vars

Next == (\E p \in Process : Step(p) \/ Kill(p)) \/ AllDone

\* A process that can go on does: a statement that waits is tried again by
\* db_busy_handler without end, and nothing else makes a process wait.
Fairness == \A p \in Process : WF_vars(Step(p))

Spec == Init /\ [][Next]_vars /\ Fairness

-----------------------------------------------------------------------------
(* Properties                                                              *)

\* Processes keep within their commands, and at most one of them writes.
SharingTypeOK ==
    /\ schema \in Missing .. Tables
    /\ disturbed \in BOOLEAN
    /\ \A p \in Process :
          /\ proc[p].pc \in {"start", "stat", "load", "run", "done"}
          /\ proc[p].lock \in {"none", "shared", "reserved", "pending"}
          /\ proc[p].rows \in 0 .. MaxRows /\ proc[p].next \in Nat
          /\ proc[p].applied \subseteq 1 .. Deletes
    /\ \A p, q \in Process : Writer(p) /\ Writer(q) => p = q

\* Every command comes to its end, whatever the others do or wherever they are
\* killed: no two processes wait for each other, although /runexpiration writes
\* while it reads, and none waits for a lock that is never given back.
CommandsEnd == \A p \in Process : <>(proc[p].pc = "done")

\* A statement comes back with SQLITE_BUSY only in the loop of /runexpiration.
\* The other handlers check few of the statements they run, and lose no write
\* this way because none of them still reads when it writes.
OnlyExpiryIsRefused == \A p \in Process : proc[p].refused => proc[p].name = "expire"

\* The deletion of a backup takes effect as a whole or not at all, unless, while
\* it ran inside the loop of /runexpiration, another process reserved the file
\* and let go of it without a commit (killed, rolled back, or no row changed).
DeletesAreWholeUnlessYielded ==
    \A p \in Process :
        proc[p].next > Deletes /\ proc[p].pc = "run" =>
            \/ proc[p].applied \in {{}, 1 .. Deletes}
            \/ (proc[p].yielded /\ proc[p].name = "expire")

\* The catalogue is created whole, unless another process opens the file before
\* the schema is in it or the process that loads the schema is killed.
SchemaIsWholeUnlessDisturbed ==
    Halfway /\ (\A p \in Process : proc[p].pc # "load") => disturbed
=============================================================================
