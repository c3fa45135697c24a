# blib: a verification project for the Backup LIBrary

blib keeps the catalogue of a tape backup library in one SQLite file: which
volumes (tapes) there are, which backup each one belongs to, which object of
which backup is on which volume, and the errors seen while writing.  It is run
once per command (`blib /startbackup=... /bck_id=...`) by backup scripts, cron
jobs and operators, so several blib processes may work on the file at once.
This directory models the catalogue and the commands that change it in TLA+,
checks the models with TLC and proves the main results with TLAPS.

## The system

| component | source (`src/src/`) | state | operations | interacts with |
|---|---|---|---|---|
| catalogue tables and statements | `data_access.c`, `data_structures.h` | tables volumes, backups, bck_objects, vol_obj, bck_errors | one function per SQL statement | called by every handler |
| library commands | `execute_cmds.c` | none of its own: the tables, the clock | one `do_cmd_*` handler per command | parser (qualifiers in), tables (statements), exit code and output (out) |
| consistency check | `data_access.c` `db_verify` | reads the tables | eight queries, one total | `/verify` |
| statement stack and error status | `data_access.c` `sqlstack_*`, `dbcheck` | a stack of prepared statements, `dbh->status`, `dbh->errmsg` | push, pop, first/next/equal finds | every statement; the exit code of the process |
| opening, creating, locking | `data_access.c` `db_open`, `load_schema`, `db_busy_handler`, SQLite | the file, SQLite's file locks | create the file and its tables; wait and retry, give up | processes sharing the file |
| command language | `parseslashcmd.c`, `split.c` | a list of parsed commands and defaults | parse, look up by whole name in either case, defaults, log | handlers |
| command log and replay | `parseslashcmd.c` `log_cmd`, `execute_cmds.c` `do_cmd_replaylog` | a log file | append a command after it ran; run a log again | all commands |
| volume reports and filters | `execute_cmds.c` `do_cmd_report*`, `filtcmp` | reads the tables | select, filter, count | tables |
| backup report | `do_cmd_reportbackup.c` | reads the tables, totals | per volume and per object totals, text or html | tables, mail |
| files, lists, times, strings | `fileio.c`, `list.c`, `timefunc.c`, `util.c` | open files, linked lists | open/dup/copy, insert/delete, conversions | all |
| program start and exit | `blib.c` | options | options, command line, exit status | parser, handlers |

What is hard here: a command is several autocommitted statements, and the
processes hold no lock across them, so a command may see the catalogue change
between a look and the write it decided on; a process may be killed between two
statements; removal of a backup must reach five tables; expiry runs a
transaction per backup inside an open select; and the history of errors outlives
the backup it refers to.  What makes each component correct:

* catalogue and commands: the references between the five tables hold, a tape
  with data of one backup is never given to another one or taken out, history is
  only lost with its backup, a backup is not lost before it expires;
* `/verify`: it reports nothing on a healthy catalogue and something on every
  damaged one;
* processes: the same, when conflicting commands are kept apart or a process is
  killed, and a list of what is lost when they are not;
* statement stack: whatever statement fails, a loop goes on with its own
  statement, and what is left on the stack is what failed;
* log and replay: a replayed log gives the same catalogue, whatever the order in
  which processes reached the log;
* locking: every command ends, and nothing a command writes is lost to a lock;
* parser, filters: a word of the shell stays one word, a qualifier selects what
  it says, the log's line reads back as the command that ran;
* reports: the two halves of a report agree, and errors that were recorded show.

## The modules

| module | models | extends |
|---|---|---|
| `Catalog` | the tables, and each statement as a pure operator from rows to rows | |
| `Library` | a whole `do_cmd_*` handler per action, one command at a time | `Catalog` |
| `TapePool` | what the library promises about tapes: add, retire, take, return | |
| `LibraryPool` | the mapping under which `Library` implements `TapePool` | `Library` |
| `Verify` | the queries of `db_verify` and their total | `Catalog` |
| `LibraryClaims` | `/verify` on what the commands produce; what the program's texts say and the commands do not keep | `LibraryPool`, `Verify` |
| `Reports` | the totals of `/reportbackup`, `/display` and `/errcount` | `LibraryClaims` |
| `Discipline` | which commands careful operators keep apart | |
| `Processes` | the handlers taken apart into statements, run by several processes that may be killed | `LibraryClaims`, `Discipline` |
| `Commands` | a command line as a value, and the handler it runs | `Library` |
| `CommandLog` | processes that run commands and log them afterwards; the catalogue a replay of the log makes, as a second instance of `Commands` | `Commands`, `Discipline` |
| `Cursors` | the stack of prepared statements under every handler, each prepare and step free to fail | |
| `Sharing` | processes opening, creating and locking the file, statement by statement; rows left out | |
| `CommandLine` | from the shell's words through the parser and the filters of `/report` to the log and back | |
| `MCLibrary`, `MCProcesses`, `MCCommandLog`, `MCSharing`, `MCCommandLine` | instances and symmetry for TLC | |
| `LibraryProofs` | theorems about `Library`: types, ownership, references, what a command never loses, its refinement of `TapePool`; sums over finite sets | `LibraryPool`, `Commands` |
| `ReportProofs` | what `/verify` counts and reports add up after commands one at a time | `LibraryProofs`, `Reports` |
| `ProcessProofs` | what several processes keep although they race | `ReportProofs`, `Processes` |
| `DisciplineProofs` | what they keep when conflicting commands stay apart | `ProcessProofs` |
| `CommandLogProofs` | what a replay of the log makes | `LibraryProofs`, `CommandLog` |
| `CursorProofs` | theorems about `Cursors` | `Cursors` |
| `SharingProofs` | theorems about `Sharing` | `Sharing` |
| `CommandLineProofs` | theorems about the parser of `CommandLine` | `CommandLine` |

**State.**  `volumes` and `backups` have a one-column unique index and are
functions from it; `bck_objects` and `vol_obj` are sets of rows, kept unique by
the guards of the inserts as the indexes do; `bck_errors` is a sequence, since
it has no unique index and duplicates count.  0 in a `bck_id` or `end` column is
the code's `none` or `not ended`.  `now` is the clock `nowgm()` reads, and only
goes forward.  Columns that no guard or property depends on (node, description,
media, group, location, start and bookkeeping dates) are left out.

**Actions.**  `Library` has one action per handler: guards are the negations of
the early returns, so a refused command is a stuttering step.  The dates, sizes
and numbers an operator gives are chosen from `Time`, `Size`, `Instance`.  Where
the code does something surprising the model does it too: a duplicate
`/objinstance` rolls the object back and still adds the segment, `/change_volume`
claims the volume before it looks for anything to move, `/endbackup` adds up the
sizes of every instance, `/errbackup` does not look at the label,
`/finishbackup` checks nothing, and the limit of `/runexpiration=n` counts a
backup only when `db_delete_backup_id` returns something other than `SQLITE_OK`.

In `Processes` a command is a record in `proc[p]`: name, program counter,
qualifiers, and what its earlier statements read.  A statement (or an explicit
transaction: the insert of an object, the deletion of a backup) is one atomic
step.  The look that opens a command is a step together with its start.  `Kill`
ends a process between two steps.  `ExpireBusy` is the case of `/runexpiration`
where another process is in the middle of a write: the select is still open, so
SQLite does not wait, every statement of the deletion fails, and the loop goes
on as if it had succeeded.  `Disciplined` is the discipline of two careful
operators: no two commands run at once that use the same volume label, the same
instance of an object, or one the whole of a backup the other works on (several
`/startbackup` of one backup, on different labels, may).  blib does not enforce
it; the runs with `Disciplined = FALSE` show what happens without it.
`ExpirePartly` is what `ExpireBusy` leads to when the other process is killed
before its commit: the statements that met it have failed, the rest of the
deletion is carried out.  It is a step of `AbandonedSpec` only, which one run
uses to show that a backup may then leave the catalogue in part.

`Sharing` is about SQLite's file locks instead of the rows.  A process opens the
file (`Stat`, `Create`, `LoadReserve`, `LoadCommit`, `LoadFails`: `db_open` loads
the schema only if there was no file, before it sets the busy handler, and looks
at no status) and runs the statements of its command (`Statements`).  Its `lock`
is the connection's: SHARED while a select is stepped, RESERVED from the first
change on, PENDING while a commit waits for readers.  A statement that needs a
lock it cannot have waits, since `db_busy_handler` says `again`; SQLite does not
ask it for a connection that already reads, whose statement is `Refused` at
once.  These locks are modelled from the vendored `sqlite3.c` (`unixLock`,
`pager_wait_on_lock`, `sqlite3BtreeBeginTrans`, `vdbeCommit`).  `applied`, `yielded` and `refused` record which statements of a deletion
took effect, whether a writer gave way during it, and whether one came back with
SQLITE_BUSY.

`CommandLine` keeps one command line: the words `typed`, the `chain` of commands
the parser makes of them, the volumes `/report` has `shown` and the `line` in the
log.  Texts are sequences of characters in which a name counts as one, since
quoting, blanks and comparison signs are where the code takes texts apart.
`MkCmdLine` is `mkcmdline`, `GetCmd`, `GetCmp` and `NewCmd` are `getcmd`,
`get_cmp` and `newcmd`, `CheckSyntax` is `checksyntax`, `DisplayCmd` is
`display_cmd`.  What the code does to `/usage` is modelled as it is: `modify_vol`
asks and fills the first qualifier of the command, whichever that is.  The
operators were compared with a build of the program on the 5168 command lines
with at most two qualifiers of an instance like the one checked: the volumes
shown and the lines logged were the same on all of them.

`Reports` has no state; its operators follow the loops and the keys of each
select.  An object adds the errors of the segment it read last, since `tot_errs`
starts again for each; which one that is depends on start dates the catalogue
model leaves out, so any one may be.

`Cursors` keeps `dbh->status`, the stack and the loops the running handler has
open, and leaves the rows out: a step yields a row, the end or an error, a busy
database among them.  A handler is a tree of loops and lookups (`Handlers`, from the `Bodies`
operators); `frames` is the path into it.  `First` and `Advance` are `db_find` with `FND_FIRST` and
`FND_NEXT`, `Finish` with `FND_FINSIHED`, `Lookup` with `FND_EQUAL`, `Exec` the
functions that push, step and pop one statement.  `FND_NEXT` steps
whatever is on top of the stack, as the code does, so a statement left behind by
a failed step can be stepped by a loop that did not prepare it.

In `CommandLog`, `Execute` is a process running its command and `Log` the same
process appending the line, with what other processes do in between.  The line
is the command as typed completed by `addqual`: the backup id the clock gave, the
instance number the table gave.  `ReadBack` is what the way through the log does
to a date: `printlitdate` writes `ctime:<seconds>`, `time_cvt_str_to_blib` does
not look at whether `strptime` could read it, and a date at the end of 1899
comes out.  The replica (`rvolumes` and so on) is the catalogue a replay of the
log so far makes; a line that the handler refuses changes nothing, one that it
refuses with `exit()` ends the replay (`aborted`).  `Reserved` is what the
operators keep others from until the line is in the log; it is wider than the
discipline of `Processes` in the three places where it has to be, named at its
definition.

## The runs

| run | cfg | shows |
|---|---|---|
| library | `MCLibrary.cfg` | any sequence of commands, one at a time: references, ownership, history, the alarms of `/verify`, and that the catalogue implements `TapePool`; the totals of a report agree, and which errors it may leave out |
| processes | `MCProcesses.cfg` | two processes, statement by statement, killed at will, conflicting commands kept apart: the same promises, and closed objects, distinct instances, `/verify` finding what a killed process left |
| processes_racing | `MCProcessesRacing.cfg` | no discipline: what still holds |
| claim_expire | `ClaimRunExpirationStops.cfg` | violated: `/runexpiration=1` does not stop |
| race_verify | `RaceVerifyFindsLostTapes.cfg` | violated: two backups claim one volume, and `/verify` is silent about the segment whose volume is the other one's |
| race_expire | `RaceBackupsLeaveWhole.cfg` | violated: a deletion in the loop of `/runexpiration` is carried out in part |
| cursors | `MCCursors.cfg` | every handler, every statement of it failing or not: what is left on the stack is accounted for, an open loop keeps a statement, as long as nothing fails it is its own, and the process only exits early after a failure |
| replay | `MCCommandLog.cfg` | two processes, any order of their lines, one of them killed before it logs: a replay of a complete log restores the catalogue but for its dates, of any log a consistent one |
| claim_replay | `ClaimReplayKeepsData.cfg` | violated: a replayed `/runexpiration` removes a backup that had not expired |
| sharing | `MCSharing.cfg` | two processes on one file, each any command, killed anywhere, the file there or not: every command ends, only `/runexpiration` has statements refused, a deletion and the creation of the file are whole but for the cases named in the properties |
| language | `MCCommandLine.cfg` | a command and up to two qualifiers, every comparison, values with blanks, slashes and quotes: words stay apart, a report shows what is asked and a log line reads back, but for the cases named in the properties |
| claim_filter | `ClaimReportShowsWhatIsAsked.cfg` | violated: `/report /group<1` shows the groups above 1 |

Some properties are promises with their exceptions, and the exceptions are what
a user should know: the error history of removed backups is counted by `/verify`
(`VerifyAlarmsAreExplained`); a quote within a word of the shell may make several
qualifiers of it (`WordsStayApart`); `/modify=x /usage` is logged as `/usage1`, where a
replay stops (`LogReadsBackUnless`); texts compare the wrong way round, and
`/usage` only filters rightly as the first qualifier (`ReportIsRightInOrder`);
errors on an earlier tape of an object, or against a tape it is not on, are in no
total of a report, and the logs of `/includelogs?=` then stay out of the mail
(`ErrorsAreReported`); a process killed while it creates the file leaves it
without some tables for good (`SchemaIsWholeUnlessDisturbed`).

**Bounds.**  Two labels are enough for a change of volume and for a race on one
of them while the other is in use; two backup ids for one backup to take another's
tape; two dates for a backup that has and one that has not expired; two
instances (in `Processes`) for two objects of one name; one object name, since
the statements treat (name, instance) as a pair; two sizes in `library`, where
totals are compared, and one elsewhere.  Labels, and
processes, are interchangeable, and the runs use that symmetry; no run with it
checks liveness.  `MaxUsage` and `MaxErrors` bound the usage counter and the error
table in the guards of `FinishBackup` and `ErrBackup` (and of `FinishUsage` and
`ErrInsert`); `i \in Instance` bounds the instance number `/startbackup` gives
out; `MaxCommands` bounds how many commands are started in `Processes` (four
disciplined, three racing: enough for start, change, expire or remove and one
other).  `CHECK_DEADLOCK FALSE`: a library nobody has commands left for is at rest.
`Processes` starts from a library whose volumes and backups exist, so that the
commands go into the interesting part; so does `CommandLog`, from any subset of
them, with their lines in the log.  There four commands are enough for start,
change or end, remove and one that reuses the tape; one time and one size, since
dates do not survive the log and any later clock of the replay does what this
one does.  `GivenInstance = {0}`: no `/objinstance` at `/startbackup`.  A duplicate one leaves two
segments of an object open at once, and which of them `/change_volume` takes is
then up to the order of SQLite's rows, which the replica need not share.
`Expirations` is off in the run `replay`, because of what claim_replay shows.
`Cursors` has a stack of five (`SQL_MAX`; the code's is larger) and at most four failed
steps per process (`MaxStuck`): the deepest handler needs three places, so the
stack overflows within the bound, and only then.  `Failures` says where a
statement may fail: at its prepare and at its step.

`Sharing` runs every pair of commands; the six statements of a deletion and the
twelve of `load_schema` are those of the code, two rows (`MaxRows`) are enough for
an expiry that goes on after a deletion.  Two processes are enough for each of
them to wait for the other; the invariants are proved for any number.  `CommandLine` has four
names of the table (a command with a label and one without a value, a qualifier
with a text and one with an optional number), values of up to five characters,
and rows with two groups and three counts; a command line ends, hence no
deadlock check.

**Fairness and liveness.**  `CommandsEnd` of `Sharing` says that every process
comes to its end, under weak fairness of each process's own steps.  The code
justifies that much: a blib process waits for nothing but a lock, the busy handler
makes it try again (2000000 times, which the model takes for ever), and the
system runs it.  No fairness is assumed of a kill.  That two processes
may overtake each other at a lock is allowed; that they wait for each other would
be a deadlock, and is what SQLite's refusal to call the handler for a reader
prevents, at the price `race_expire` shows.  Nothing is claimed of the scripts:
whether one ever runs `/endbackup` is up to the script.

## The proofs

`LibraryProofs` proves, for every set of labels, ids, names, dates and sizes:

* `TypeCorrect`: `Spec => []TypeOK`.  Lemmas say what each statement of `Catalog`
  does to a well-formed table; `TypeStep` has one step per command.
* `TapeOwnership`: `Spec => [](SegmentsOnOwnedVolumes /\ FreeVolumesAreUnowned)`.
  The conjunction is inductive relative to `TypeOK`: a segment is put on a volume
  only in the step that claims it (`ClaimKeepsOwners`), a claimed volume is freed
  only with all segments of its backup (`DeleteOwnership`), and `/modify` and
  `/remove` reach unowned volumes only, which hold no segment.  `FreeTapesUnowned`
  states its second half alone.

`PoolRefinement` is `Spec => Pool!Spec`, the refinement the run
`library` checks on its instance; it needs `TapeOwnership` for `/remove`, which
the pool allows only for an empty tape.

It proves the rest of what `Library` promises: `ReferencesHold`
(`Spec => []CatalogReferences`), `TapesReturnBeforeReuse`, `HistoryIsKept`,
`DataIsKept` and `ErrorsAreKept` (the four action properties).  `References` says
of the keys in two tables what the invariant says of their rows, so that one lemma
for each statement says what it does to the keys (a duplicate `/objinstance` is
where it is not obvious: the insert of the object is rolled back and its segment
is not).  References are inductive with the types.  The action properties need
them and the ownership of tapes: the data of a backup stays because `/modify` and
`/remove` cannot reach its tapes, and nothing but the deletion reaches its rows.

`ReportProofs` proves `AlarmsAreExplained` (`Spec => []VerifyAlarmsAreExplained`):
of the eight queries five count nothing, and the other three count what the property
names.  The invariant adds to references and ownership that tables are finite (the
queries count rows) and that an error of a backup still there is an error of one of
its objects.  It assumes `NullRow \notin Label`: the row of nulls a left outer join
adds is no label.

It also proves what a report adds up, for catalogues of any size:

* `ReportsAddUp` (`Spec => []ReportAddsUp`).  A total is the sum of one number per
  row, by volume on one side and by object on the other; both are the sum over all
  segments of the backup, because each segment is in one volume and in one object
  (references and unique numbers).  The fold by which the community modules define
  such a sum is recursive.  `LibraryProofs` describes it instead: a function on the
  subsets of a finite set that adds one element's number at a time (`IsSum`) is the
  sum.  From that it proves what a sum does when an element is taken out
  (`SumRemove`) and that a sum over a union of fibres is the sum of the sums
  (`SumFibres`).  Where the argument wants induction over a finite set it takes a
  smallest subset for which the statement fails (`LeastSubset`);
* `ErrorsReported` (`Spec => []ErrorsAreReported`): an error no total shows is one on
  an earlier tape of its object or against a tape the object is not on, and a backup
  that is complete has no open object.

Both rest on the inductive invariant `Reportable`: the types, finite tables,
ownership, references, errors of objects of their backup, one row for each object,
and a segment for every object that has ended.

**Several processes.**  `ProcessProofs` and `DisciplineProofs` are about
`Processes`, for any number of processes and commands and any labels, ids, names,
dates and sizes.  `ProcOK` types the record of a running command: what each
statement of it has read when its turn comes.  Each statement is then one of few
ways to write the tables (`Writes`) or writes nothing (`Reads`), and the lemmas
below are stated once for these and not for each handler.

However the processes race, and wherever they are killed:

* `RacesKeepTypes` (`[]PTypeOK`): the record of every running command has the fields
  and the types its next statement needs, and the total of the sizes of an object
  is a number, by `VolObjSumSizeNat`;
* `RacesKeepHistory`, `RacesKeepErrors`: `SegmentsAreHistory` and
  `ErrorHistoryIsKept`; every statement that writes a segment keeps its key,
  and a segment that has ended is ended by none of them again;
* `RacesDoNotFoolVerify` (`[]VerifyFindsOrphans`): the total of `/verify` is a sum
  of counts, so a total of 0 empties each of them.  It assumes `IsFiniteSet(Label)`:
  all labels are in the library from the start, and `/verify` counts volumes;
* `RacesReachTape` (`[]ObjectsReachTape`), for `~Kills`: an object without a segment
  is one that a running `/startbackup` is about to put on a tape.  A killed process does
  leave one behind, which is why the hypothesis is there.

With conflicting commands kept apart (`ASSUME Disciplined`), and processes killed
anywhere:

* `DisciplineKeepsOwners`, `DisciplineKeepsFree`, `DisciplineKeepsReferences`:
  the invariants of tapes and references between any two statements;
* `DisciplineKeepsData`, `DisciplineLeavesWhole`: the action properties
  `DataIsRetained` and `BackupsLeaveWhole`;
* `DisciplinedPoolRefinement` (`PSpec => ImplementsTapePool`): every statement of
  every process is a step of the tape pool or a stutter;
* `EndedStaysClosed`, `NumbersAreDistinct` (`[]EndedObjectsAreClosed` and
  `[]InstancesAreDistinct`), for `Given \subseteq {0}`: with a number given by hand
  a duplicate leaves two open segments, as said under the bounds.

`Disciplines`, the inductive invariant of the first six, is `TypeOK`, `ProcOK`,
`Ownership`, `NoDangling` and two parts the properties do not show.  `Apart` says
that no two running commands conflict, as the discipline asks; `ConflictSeparates`
turns it into what two commands cannot have in common.  `AllReady` says what a
command still relies on from what its earlier statements read: after its claim
the label is owned by its backup, the backup it looked up is there, the object it
is about to write to has its row, an expiration removes only what had expired.  A
statement of one process keeps all processes ready because it writes to the labels,
objects and backups of its own command only (`OthersReady`).  Drop the discipline
and exactly this step fails; the run `race_verify` is how.  `Instances` adds for
the last two that an object has at most one open segment, none when it has ended,
and that the number a `/startbackup` has read from the table is not in it until it
writes (`NumberIsNew`), because no other command on the same object takes the same
number between its own two statements.

**Statement stack and locks.**  `CursorProofs` proves, for a stack of any size, the
four invariants of the run `cursors`:

* `StackAccounted` (`[]StuckStatements`) and `CursorsKept` (`[]LoopsKeepCursors`).
  The inductive invariant `Accounts` adds to them the types and the count that
  ties the stack to the loops and to the failed steps; the first follows from the
  count, the second from it and from the type of the frames;
* `CursorsOwn` (`[]CursorsAreOwn`).  A step that fails may be made up for by the second
  pop of a later lookup, so `stuck` can come back to 0.  That happens outside the
  loops only (inside one the lookup is `locate`, whose handler exits), where the
  stack is then empty;
* `ExitsBlameFailures` (`[]ExitsNeedFailures`).  `Need` is the number of slots a
  statement takes with all its loop runs; `Shallow` says that what is open and
  what is still to run fits into three.

`SharingProofs` proves, for any number of processes, tables, statements in a
deletion and rows of an expiration, with processes killed anywhere, the four
invariants of the run `sharing`: `SingleWriter` (`Spec => []SharingTypeOK`),
`RefusalsAreExpiry` (`[]OnlyExpiryIsRefused`), `DeletionsAreWhole`
(`[]DeletesAreWholeUnlessYielded`) and `CreationIsWhole`
(`[]SchemaIsWholeUnlessDisturbed`).  None is inductive.  `SharingInv` adds

* what a lock, an open select and a deletion say of the statement a process runs
  (`LockOK`): hence a process that reads while it writes runs `/runexpiration`;
* what a deletion has done so far (`DeletionOK`): everything while it holds the
  file, nothing while it is refused, and both only after a writer has given way;
* `Waiting`: as long as statements of a deletion have been refused and nobody has
  given way, a writer is there, and it cannot commit past the open select.  This
  is why a refused deletion is refused to its end;
* `Creation`: until the last table is there, everybody but the process that
  creates them is idle, unless the creation was disturbed.

`BecomeKeeps` and `YieldKeeps` say once what a step of one process must respect;
every action is an instance of one of them.

**Command log.**  `CommandLogProofs` proves `ReplaysAreConsistent`: for any commands,
processes and order of their lines, the catalogue a replay makes is consistent
(`CSpec => []ReplayIsConsistent`).  The replica is a second instance of `Library`,
whose dates are `Time` and the one `ReadBack` makes of a lost date; `LibraryProofs` is
instantiated for it, and the invariant `RestoredInv` says that the replica has the
types, the owners and the references that `LibraryProofs` proves for the library.
`LinesOK` types the lines of the log and the commands about to be logged, so
that each line a replay carries out is a step of `Library` in the replica.

**Command language.**  `CommandLineProofs` proves for command lines of any length, any
values and any comparisons:

* `WordsAreKeptApart` (`Spec => []WordsStayApart`): what the shell passes as one word is
  one command or qualifier with the name and the value of the word, whatever is in the
  value but quotes.  `FlattenFollows` says where each word is in the text mkcmdline makes,
  `WordParts` what getcmd finds there: the closing quote, all signs, and no more.
  `WordRead` then says that it goes on exactly behind the word, or stops with an error;
* `ChainIsOneCommand` (`[]CommandTypeOK`): a chain that is carried out is one command and
  the qualifiers behind it, each with a comparison there is;
* `ReportsAreRightInOrder` (`[]ReportIsRightInOrder`): `/report` shows the volumes that every
  filter asks for, whatever the volumes, the words and the signs, if there is one filter of
  a kind, `/usage` is the first, and texts are compared for being equal or not.
  `ComparisonMeans` goes through the table of get_cmp (all signs and pairs of signs that
  are no error keep the sides the help text gives them), `EqualBothWays` is why the swapped
  arguments of strncasecmp do no harm to `=` and `!`, and `FillsUsage` why modify_vol
  does none to a filter with a sign.  `Showing` adds to the invariant what `/report` made of
  the chain that was parsed;
* `LogsReadBack` (`[]LogReadsBackUnless`): the line that is logged is read back as the
  commands that ran, with their comparisons and values, however many and however long, but
  for the cases the property names.  `Recorded` adds to the invariant that the chain is one
  newcmd makes (`Sound`: the name and the kind of value of a qualifier of the table, a text
  trimmed at its end) and that the line is what display_cmd writes for it; the
  lemmas up to `ParsedIsSound` and `FilledIsSound` show that parsing and modify_vol keep
  that.  `DisplayRead` says what getcmd makes of one printed command, from the blank
  before it or from its name, which is where the command before may stop: the bare name
  (`BareRead`), the number, read back from its digits (`NumberRead`, `DecimalReadsBack`), or
  the text between its quotes (`TextRead`).  `AllReadAgain` goes from the last
  command of the line to the first.

parseslashcmd is a recursive function of the position: `GetCmdAdvances` (the next position
is behind this one and not behind the end of the text) is why there is one
(`ParseExists`), and where a proof goes by induction it takes the smallest position,
or number of words, for which the statement fails (`LeastNumber`).  The proof found
that the property had been stated too strongly: `/modify=x'/usage'/usage` is three
commands, and the quotes are outside the bound the run had.

The assumptions are those of the modules: `CatalogAssumption` (0 is no backup id,
date or instance), `LibraryAssumption` (the bounds are numbers), those of
`Processes`, `CursorAssumption` and `SharingAssumption` (there is a table, a
statement and a row to go through), and the hypotheses named above.

Only model-checked are:

* `CommandsEnd`, since liveness is out of the prover's reach;
* `ReplayRestores`, whose condition (no line was refused) is an ENABLED, and which is
  about lines in any order that commands out of each other's way allow.

## What is not modelled, and what comes next

Not modelled: SQLite but for the locks of `Sharing` (a statement is taken to be
atomic and durable), the 2000000 tries of `db_busy_handler`, reading and
formatting of dates, the text of reports, mail, html, temporary files, memory
management, the helper programs `caltime` and `ctime`, and `split`/`mkargv`.
Dates are numbers that do not wrap: `db_lookup_endofbackup` reads one through a
32-bit call, which matters from 2038.

Of the command language: names in capitals, `/log`, `/nolog`, `/output`,
`/database` and `/new`, states and dates as filters, defaults, and a `%` in a value
(`newstr` takes the value for a format).  `/reportexpired` ends in undefined
behaviour before it reads anything, because its query goes through `printf`
twice; `/reportbackup` without a value reads through a null pointer.

`/since` and `/until` of a replay, a log replayed twice, and the number of files
a replay leaves open are not modelled either; `Cursors` runs one command per
process.
