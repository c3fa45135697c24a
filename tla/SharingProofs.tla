---------------------------- MODULE SharingProofs ----------------------------
(***************************************************************************)
(* Sharing, for any number of processes, statements and tables: one        *)
(* process writes at a time, which statements may be refused, and when a   *)
(* deletion or the creation of the file is whole.                          *)
(***************************************************************************)
EXTENDS Sharing, SequenceTheorems, TLAPS

Kind == {"select", "write", "delete", "expiry"}

Proc ==
    [pc : {"start", "stat", "load", "run", "done"}, name : DOMAIN Statements,
     todo : Seq(Kind), lock : {"none", "shared", "reserved", "pending"},
     rows : 0 .. MaxRows, next : Nat, applied : SUBSET (1 .. Deletes),
     yielded : BOOLEAN, refused : BOOLEAN]

HeadIn(c, kinds) == c.todo # <<>> /\ Head(c.todo) \in kinds

IsWriter(c) == c.lock \in {"reserved", "pending"}

(* What holds of the record c of each process, when the file has sch       *)
(* tables.                                                                 *)

\* Before and after its command a process has nothing open.
RestOK(c) ==
    c.pc \in {"start", "stat", "done"} => c.lock = "none" /\ c.rows = 0 /\ c.next = 0

\* A process that reserved the file for a table knows how many there are.
LoadOK(c, sch) ==
    c.pc = "load" => /\ c.lock \in {"none", "reserved"} /\ c.rows = 0 /\ c.next < Tables
                     /\ c.lock = "reserved" => sch = c.next

\* What a lock, an open select and a deletion say of the statement being run.
LockOK(c) ==
    /\ c.pc = "run" /\ c.lock # "none" => c.rows > 0 \/ HeadIn(c, {"write", "delete"})
    /\ c.lock = "shared" => c.rows > 0
    /\ c.rows > 0 => /\ c.pc = "run" /\ HeadIn(c, {"select", "expiry"}) /\ c.lock # "none"
                     /\ c.next = 0 => c.lock = "shared"
    /\ c.pc = "run" /\ c.next > 0 => HeadIn(c, {"delete"}) \/ (HeadIn(c, {"expiry"}) /\ c.rows > 0)

\* Only /runexpiration has an expiry to run and statements refused.
ExpiryOK(c) ==
    /\ \A k \in 1 .. Len(c.todo) : c.todo[k] = "expiry" => c.name = "expire"
    /\ c.refused => c.name = "expire"

\* A deletion has had effect so far, or none because it is being refused, or a
\* writer has given way to it.
DeletionOK(c) ==
    /\ c.pc # "run" \/ c.next = 0 => c.applied = {}
    /\ c.pc = "run" /\ c.next > 0 =>
          /\ c.next <= Deletes + 1
          /\ \/ c.applied = 1 .. (c.next - 1) /\ (c.next > 1 => IsWriter(c))
             \/ c.applied = {} /\ c.lock = "shared"
             \/ c.yielded /\ c.name = "expire"

ProcOK(c, sch) ==
    RestOK(c) /\ LoadOK(c, sch) /\ LockOK(c) /\ ExpiryOK(c) /\ DeletionOK(c)

(* ... and of the processes together.                                      *)
Types ==
    /\ schema \in Missing .. Tables
    /\ disturbed \in BOOLEAN
    /\ proc \in [Process -> Proc]

Each == \A p \in Process : ProcOK(proc[p], schema)

OneWriter == \A p, q \in Process : Writer(p) /\ Writer(q) => p = q

\* Statements of c have been refused, and no writer has given way since.
Blocked(c) == c.pc = "run" /\ c.next > 1 /\ c.lock = "shared" /\ ~c.yielded

\* The writer that refused them is still there.
Waiting == \A p \in Process : Blocked(proc[p]) => \E q \in Others(p) : Writer(q)

\* An undisturbed file without all its tables: nobody has one open but the
\* process that is about to create the next table.
Idle(p) == proc[p].pc \in {"start", "stat", "done"}
Creation ==
    ~disturbed =>
        /\ schema = Missing => \A p \in Process : Idle(p)
        /\ Halfway => \E p \in Process : /\ proc[p].pc = "load" /\ proc[p].next = schema
                                         /\ \A q \in Others(p) : Idle(q)

(* The inductive invariant.                                                *)
Locked == Types /\ Each /\ OneWriter /\ Waiting

SharingInv == Locked /\ Creation

-----------------------------------------------------------------------------
(* Records and statement lists                                             *)

\* The statements of every command are of the four kinds, and only
\* /runexpiration has an expiry among them.
LEMMA StatementsOK ==
    ASSUME NEW c \in DOMAIN Statements
    PROVE  /\ Statements[c] \in Seq(Kind)
           /\ \A k \in 1 .. Len(Statements[c]) : Statements[c][k] = "expiry" => c = "expire"
<1>1. CASE c \in {"add", "err"}
  <2>1. Statements[c] = <<"select", "write">>
    BY <1>1 DEF Statements
  <2> QED  BY <1>1, <2>1 DEF Kind
<1>2. CASE c = "start"
  <2>1. Statements[c] = <<"select", "select", "write", "write", "select", "write">>
    BY <1>2 DEF Statements
  <2> QED  BY <1>2, <2>1 DEF Kind
<1>3. CASE c = "change"
  <2>1. Statements[c] = <<"select", "write", "select", "write", "write">>
    BY <1>3 DEF Statements
  <2> QED  BY <1>3, <2>1 DEF Kind
<1>4. CASE c = "end"
  <2>1. Statements[c] = <<"select", "write", "select", "write">>
    BY <1>4 DEF Statements
  <2> QED  BY <1>4, <2>1 DEF Kind
<1>5. CASE c = "finish"
  <2>1. Statements[c] = <<"select", "write", "write", "select">>
    BY <1>5 DEF Statements
  <2> QED  BY <1>5, <2>1 DEF Kind
<1>6. CASE c = "remove"
  <2>1. Statements[c] = <<"select", "delete">>
    BY <1>6 DEF Statements
  <2> QED  BY <1>6, <2>1 DEF Kind
<1>7. CASE c = "expire"
  <2>1. Statements[c] = <<"expiry">>
    BY <1>7 DEF Statements
  <2> QED  BY <1>7, <2>1 DEF Kind
<1>8. CASE c = "report"
  <2>1. Statements[c] = <<"select">>
    BY <1>8 DEF Statements
  <2> QED  BY <1>8, <2>1 DEF Kind
<1>9. CASE c = "modify"
  <2>1. Statements[c] = <<"select", "write", "select">>
    BY <1>9 DEF Statements
  <2> QED  BY <1>9, <2>1 DEF Kind
<1> QED  BY <1>1, <1>2, <1>3, <1>4, <1>5, <1>6, <1>7, <1>8, <1>9 DEF Statements

\* What is left of a command has no expiry either if the whole had none.
LEMMA TailOK ==
    ASSUME NEW c \in Proc, c.todo # <<>>, ExpiryOK(c)
    PROVE  /\ Tail(c.todo) \in Seq(Kind)
           /\ \A k \in 1 .. Len(Tail(c.todo)) : Tail(c.todo)[k] = "expiry" => c.name = "expire"
<1>1. c.todo \in Seq(Kind)
  BY DEF Proc
<1>2. /\ Tail(c.todo) \in Seq(Kind)
      /\ Len(c.todo) \in Nat /\ Len(Tail(c.todo)) = Len(c.todo) - 1
      /\ \A k \in 1 .. Len(Tail(c.todo)) : Tail(c.todo)[k] = c.todo[k + 1]
  BY <1>1, HeadTailProperties, LenProperties
<1>3. ASSUME NEW k \in 1 .. Len(Tail(c.todo)), Tail(c.todo)[k] = "expiry"
      PROVE  c.name = "expire"
  <2>1. k + 1 \in 1 .. Len(c.todo) /\ c.todo[k + 1] = "expiry"
    BY <1>2, <1>3
  <2> QED  BY <2>1 DEF ExpiryOK
<1> QED  BY <1>2, <1>3

\* A process whose next statement is an expiry runs /runexpiration.
LEMMA HeadOK ==
    ASSUME NEW c \in Proc, ExpiryOK(c), HeadIn(c, {"expiry"})
    PROVE  c.name = "expire"
<1>1. c.todo \in Seq(Kind) /\ c.todo # <<>> /\ Head(c.todo) = "expiry"
  BY DEF Proc, HeadIn
<1>2. Len(c.todo) \in Nat /\ 1 \in 1 .. Len(c.todo) /\ c.todo[1] = "expiry"
  BY <1>1, EmptySeq, LenProperties
<1> QED  BY <1>2 DEF ExpiryOK

\* A deletion inside an open select is one of /runexpiration.
LEMMA NestedDeletion ==
    ASSUME NEW c \in Proc, ExpiryOK(c), LockOK(c), c.pc = "run", c.next > 0, c.rows > 0
    PROVE  c.name = "expire"
<1>1. HeadIn(c, {"expiry"})
  BY DEF LockOK, HeadIn
<1> QED  BY <1>1, HeadOK

-----------------------------------------------------------------------------
(* Steps                                                                   *)

\* A process that takes a record good by itself keeps the invariant if it
\* writes only where nobody else does, gives up a reserved file only by a commit
\* nobody reads at, and is refused only because of a writer.
LEMMA BecomeKeeps ==
    ASSUME Locked, NEW p \in Process, NEW c \in Proc, Become(p, c),
           schema' \in Missing .. Tables, disturbed' \in BOOLEAN,
           ProcOK(c, schema'),
           \A q \in Others(p) : ProcOK(proc[q], schema'),
           IsWriter(c) => Writer(p) \/ CanWrite(p),
           Writer(p) => IsWriter(c) \/ CanCommit(p),
           Blocked(c) => Blocked(proc[p]) \/ ~CanWrite(p)
    PROVE  Locked'
<1>1. /\ proc' \in [Process -> Proc]
      /\ proc'[p] = c
      /\ \A q \in Others(p) : proc'[q] = proc[q]
  BY DEF Locked, Types, Become, Others
<1>2. Types'
  BY <1>1 DEF Types
<1>3. Each'
  BY <1>1, Zenon DEF Each, Others
<1>4. \A q \in Others(p) : Writer(q)' <=> Writer(q)
  BY <1>1 DEF Writer
<1>5. Writer(p)' <=> IsWriter(c)
  BY <1>1 DEF Writer, IsWriter
<1>6. OneWriter'
  BY <1>4, <1>5, Zenon DEF Locked, OneWriter, CanWrite, Others
<1>7. ASSUME NEW q \in Process, Blocked(proc'[q])
      PROVE  \E r \in Others(q) : Writer(r)'
  <2>1. CASE q = p
    <3>1. \E r \in Others(p) : Writer(r)
      BY <1>1, <1>7, <2>1, Zenon DEF Locked, Waiting, CanWrite
    <3> QED  BY <1>4, <2>1, <3>1, Zenon
  <2>2. CASE q # p
    <3>1. q \in Others(p) /\ Blocked(proc[q]) /\ ~CanCommit(p)
      BY <1>1, <1>7, <2>2 DEF Others, Blocked, CanCommit
    <3>2. PICK r \in Others(q) : Writer(r)
      BY <3>1, Zenon DEF Locked, Waiting
    <3>3. CASE r = p
      BY <1>5, <3>1, <3>2, <3>3, Zenon
    <3>4. CASE r # p
      BY <1>4, <3>2, <3>4, Zenon DEF Others
    <3> QED  BY <3>3, <3>4
  <2> QED  BY <2>1, <2>2
<1>8. Waiting'
  BY <1>7, Zenon DEF Waiting, Others
<1> QED  BY <1>2, <1>3, <1>6, <1>8 DEF Locked

\* A process that lets go of its locks without a commit keeps it too: the
\* deletions that waited for it are marked.
LEMMA YieldKeeps ==
    ASSUME Locked, NEW p \in Process, NEW c \in Proc, Yield(p, c), c.lock = "none",
           schema' = schema, disturbed' \in BOOLEAN, ProcOK(c, schema)
    PROVE  Locked'
<1>1. /\ proc' \in [Process -> Proc]
      /\ proc'[p] = c
      /\ \A q \in Others(p) :
            \/ proc'[q] = proc[q] /\ ~(Writer(p) /\ proc[q].pc = "run" /\ proc[q].next > 0)
            \/ Writer(p) /\ proc'[q] = [proc[q] EXCEPT !.yielded = TRUE]
  <2>1. \A q \in Process : [proc[q] EXCEPT !.yielded = TRUE] \in Proc
    BY DEF Locked, Types, Proc
  <2> QED  BY <2>1 DEF Locked, Types, Yield, Others
<1>2. Types'
  BY <1>1 DEF Locked, Types
<1>3. \A d \in Proc : ProcOK(d, schema) => ProcOK([d EXCEPT !.yielded = TRUE], schema)
  <2> SUFFICES ASSUME NEW d \in Proc, ProcOK(d, schema)
               PROVE  ProcOK([d EXCEPT !.yielded = TRUE], schema)
    OBVIOUS
  <2> DEFINE e == [d EXCEPT !.yielded = TRUE]
  <2>1. /\ e.pc = d.pc /\ e.name = d.name /\ e.todo = d.todo /\ e.lock = d.lock
        /\ e.rows = d.rows /\ e.next = d.next /\ e.applied = d.applied
        /\ e.refused = d.refused /\ e.yielded = TRUE
    BY DEF Proc
  <2> HIDE DEF e
  <2>2. RestOK(e) /\ LoadOK(e, schema)
    BY <2>1 DEF ProcOK, RestOK, LoadOK
  <2>3. LockOK(e)
    BY <2>1 DEF ProcOK, LockOK, HeadIn
  <2>4. ExpiryOK(e)
    BY <2>1 DEF ProcOK, ExpiryOK
  <2>5. DeletionOK(e)
    BY <2>1 DEF ProcOK, DeletionOK, IsWriter
  <2>6. ProcOK(e, schema)
    BY <2>2, <2>3, <2>4, <2>5 DEF ProcOK
  <2> QED  BY <2>6 DEF e
<1>4. Each'
  <2> SUFFICES ASSUME NEW q \in Process
               PROVE  ProcOK(proc'[q], schema)
    BY DEF Each
  <2>1. CASE q = p
    BY <1>1, <2>1
  <2>2. CASE q # p
    BY <1>1, <1>3, <2>2, Zenon DEF Locked, Types, Each, Others
  <2> QED  BY <2>1, <2>2
<1>5. \A q \in Others(p) : proc'[q].lock = proc[q].lock
  <2>1. \A d \in Proc : [d EXCEPT !.yielded = TRUE].lock = d.lock
    BY DEF Proc
  <2>2. \A q \in Others(p) : proc[q] \in Proc
    BY DEF Locked, Types, Others
  <2> QED  BY <1>1, <2>1, <2>2, Zenon
<1>6. ~Writer(p)' /\ \A q \in Others(p) : Writer(q)' <=> Writer(q)
  BY <1>1, <1>5 DEF Writer
<1>7. OneWriter'
  BY <1>6, Zenon DEF Locked, OneWriter, Others
<1>8. ASSUME NEW q \in Process, Blocked(proc'[q])
      PROVE  \E r \in Others(q) : Writer(r)'
  <2>1. q \in Others(p)
    BY <1>1, <1>8 DEF Others, Blocked
  <2>2. proc'[q] = proc[q] /\ ~(Writer(p) /\ proc[q].pc = "run" /\ proc[q].next > 0)
    BY <1>1, <1>8, <2>1 DEF Locked, Types, Others, Proc, Blocked
  <2>3. ~Writer(p)
    BY <1>8, <2>1, <2>2 DEF Blocked, Locked, Types, Others, Proc
  <2>4. PICK r \in Others(q) : Writer(r)
    BY <1>8, <2>1, <2>2, Zenon DEF Locked, Waiting, Others
  <2> QED  BY <1>6, <2>3, <2>4, Zenon DEF Others
<1>9. Waiting'
  BY <1>8, Zenon DEF Waiting, Others
<1> QED  BY <1>2, <1>4, <1>7, <1>9 DEF Locked

\* The common case: the file has as many tables as before.
LEMMA StepKeeps ==
    ASSUME Locked, NEW p \in Process, NEW c \in Proc, Become(p, c),
           schema' = schema, disturbed' \in BOOLEAN, ProcOK(c, schema),
           IsWriter(c) => Writer(p) \/ CanWrite(p),
           Writer(p) => IsWriter(c) \/ CanCommit(p),
           Blocked(c) => Blocked(proc[p]) \/ ~CanWrite(p)
    PROVE  Locked'
<1>1. schema' \in Missing .. Tables /\ ProcOK(c, schema')
  BY DEF Locked, Types
<1>2. \A q \in Others(p) : ProcOK(proc[q], schema')
  BY DEF Locked, Each, Others
<1> QED  BY <1>1, <1>2, BecomeKeeps

\* What the invariant says of one process.
LEMMA OneProcess ==
    ASSUME Locked, NEW p \in Process
    PROVE  /\ proc[p] \in Proc
           /\ RestOK(proc[p]) /\ LoadOK(proc[p], schema) /\ LockOK(proc[p])
           /\ ExpiryOK(proc[p]) /\ DeletionOK(proc[p])
           /\ Writer(p) <=> IsWriter(proc[p])
BY DEF Locked, Types, Each, ProcOK, Writer, IsWriter

\* A process that goes on to its next statement has nothing open.
LEMMA GoOnOK ==
    ASSUME Locked, NEW p \in Process, proc[p].pc = "run", proc[p].todo # <<>>
    PROVE  /\ GoOn(p) \in Proc /\ ProcOK(GoOn(p), schema)
           /\ GoOn(p).lock = "none" /\ GoOn(p).next = 0
<1> DEFINE d == proc[p]  c == GoOn(p)
<1>1. d \in Proc /\ ExpiryOK(d)
  BY OneProcess
<1>2. /\ Tail(d.todo) \in Seq(Kind)
      /\ \A k \in 1 .. Len(Tail(d.todo)) : Tail(d.todo)[k] = "expiry" => d.name = "expire"
  BY <1>1, TailOK
<1>3. /\ c \in Proc
      /\ c.pc = "run" /\ c.name = d.name /\ c.todo = Tail(d.todo) /\ c.lock = "none"
      /\ c.rows = 0 /\ c.next = 0 /\ c.applied = {} /\ c.refused = d.refused
  <2> DEFINE f(t) == [d EXCEPT !.lock = "none", !.rows = 0, !.next = 0, !.applied = {},
                               !.yielded = FALSE, !.todo = t]
  <2>1. ASSUME NEW t \in Seq(Kind)
        PROVE  /\ f(t) \in Proc
               /\ f(t).pc = d.pc /\ f(t).name = d.name /\ f(t).todo = t /\ f(t).lock = "none"
               /\ f(t).rows = 0 /\ f(t).next = 0 /\ f(t).applied = {}
               /\ f(t).refused = d.refused
    <3>1. d \in Proc /\ MaxRows \in Nat /\ 0 \in 0 .. MaxRows
      BY <1>1, SharingAssumption
    <3> QED  BY <3>1 DEF Proc
  <2>2. c = f(Tail(d.todo))
    BY <1>1 DEF GoOn, Released, Proc
  <2> HIDE DEF c, f
  <2> QED  BY <1>2, <2>1, <2>2, Zenon
<1> HIDE DEF c
<1>4. ExpiryOK(c)
  BY <1>1, <1>2, <1>3 DEF ExpiryOK
<1>5. RestOK(c) /\ LoadOK(c, schema) /\ LockOK(c) /\ DeletionOK(c)
  BY <1>3 DEF RestOK, LoadOK, LockOK, DeletionOK
<1>6. ProcOK(c, schema)
  BY <1>4, <1>5 DEF ProcOK
<1> QED  BY <1>3, <1>6 DEF c

\* ... and so does one that has ended.
LEMMA ExitOK ==
    ASSUME Locked, NEW p \in Process
    PROVE  /\ Exit(p) \in Proc /\ ProcOK(Exit(p), schema)
           /\ Exit(p).pc = "done" /\ Exit(p).lock = "none" /\ Exit(p).next = 0
<1> DEFINE d == proc[p]  c == Exit(p)
<1>1. d \in Proc /\ ExpiryOK(d)
  BY OneProcess
<1>2. <<>> \in Seq(Kind) /\ Len(<<>>) = 0
  BY EmptySeq
<1>3. /\ c \in Proc
      /\ c.pc = "done" /\ c.name = d.name /\ c.todo = <<>> /\ c.lock = "none"
      /\ c.rows = 0 /\ c.next = 0 /\ c.applied = {} /\ c.refused = d.refused
  <2> DEFINE e == [d EXCEPT !.lock = "none", !.rows = 0, !.next = 0, !.applied = {},
                            !.yielded = FALSE, !.pc = "done", !.todo = <<>>]
  <2>1. c = e
    BY <1>1 DEF Exit, Released, Proc
  <2> DEFINE f(t) == [d EXCEPT !.lock = "none", !.rows = 0, !.next = 0, !.applied = {},
                               !.yielded = FALSE, !.pc = "done", !.todo = t]
  <2>2. ASSUME NEW t \in Seq(Kind)
        PROVE  /\ f(t) \in Proc
               /\ f(t).pc = "done" /\ f(t).name = d.name /\ f(t).todo = t /\ f(t).lock = "none"
               /\ f(t).rows = 0 /\ f(t).next = 0 /\ f(t).applied = {}
               /\ f(t).refused = d.refused
    <3>1. d \in Proc /\ MaxRows \in Nat /\ 0 \in 0 .. MaxRows
      BY <1>1, SharingAssumption
    <3> QED  BY <3>1 DEF Proc
  <2>3. c = f(<<>>)
    BY <2>1
  <2> HIDE DEF c, f
  <2> QED  BY <1>2, <2>2, <2>3, Zenon
<1> HIDE DEF c
<1>4. ExpiryOK(c)
  BY <1>1, <1>2, <1>3 DEF ExpiryOK
<1>5. RestOK(c) /\ LoadOK(c, schema) /\ LockOK(c) /\ DeletionOK(c)
  BY <1>3 DEF RestOK, LoadOK, LockOK, DeletionOK
<1>6. ProcOK(c, schema)
  BY <1>4, <1>5 DEF ProcOK
<1> QED  BY <1>3, <1>6 DEF c

-----------------------------------------------------------------------------
(* db_open                                                                 *)

\* Looking whether there is a file keeps the invariant.
LEMMA StatKeeps ==
    ASSUME SharingInv, NEW p \in Process, Stat(p)
    PROVE  SharingInv'
<1> DEFINE d == proc[p]  c == [d EXCEPT !.pc = IF schema = Missing THEN "stat" ELSE "run"]
<1>1. /\ Locked /\ d \in Proc /\ RestOK(d) /\ ExpiryOK(d) /\ DeletionOK(d)
      /\ d.pc = "start" /\ Become(p, c) /\ schema' = schema
      /\ disturbed' = (disturbed \/ Halfway) /\ disturbed \in BOOLEAN
  BY OneProcess DEF SharingInv, Locked, Types, Stat
<1>2. /\ c \in Proc /\ c.pc = IF schema = Missing THEN "stat" ELSE "run"
      /\ c.name = d.name /\ c.todo = d.todo /\ c.lock = "none" /\ c.rows = 0
      /\ c.next = 0 /\ c.applied = {} /\ c.refused = d.refused
  BY <1>1 DEF Proc, RestOK, DeletionOK
<1> HIDE DEF c
<1>3. ProcOK(c, schema) /\ ~IsWriter(c) /\ ~Blocked(c) /\ ~Writer(p)
  BY <1>1, <1>2 DEF ProcOK, RestOK, LoadOK, LockOK, ExpiryOK, DeletionOK, IsWriter, Blocked, Writer
<1>4. Locked'
  BY <1>1, <1>2, <1>3, StepKeeps
<1>5. Creation'
  <2> SUFFICES ASSUME ~disturbed'
               PROVE  /\ schema = Missing => \A q \in Process : Idle(q)'
                      /\ ~Halfway'
    BY <1>1 DEF Creation
  <2>1. ~disturbed /\ ~Halfway /\ ~Halfway'
    BY <1>1 DEF Halfway
  <2>2. ASSUME schema = Missing, NEW q \in Process
        PROVE  Idle(q)'
    <3>1. Idle(q)
      BY <2>1, <2>2 DEF SharingInv, Creation
    <3>2. proc'[q] = IF q = p THEN c ELSE proc[q]
      BY <1>1, <2>2 DEF Become, Locked, Types
    <3> QED  BY <1>2, <2>2, <3>1, <3>2 DEF Idle
  <2> QED  BY <2>1, <2>2
<1> QED  BY <1>4, <1>5 DEF SharingInv

\* Opening a file that was not there keeps it.
LEMMA CreateKeeps ==
    ASSUME SharingInv, NEW p \in Process, Create(p)
    PROVE  SharingInv'
<1> DEFINE d == proc[p]  c == [d EXCEPT !.pc = "load"]
<1>1. /\ Locked /\ d \in Proc /\ RestOK(d) /\ ExpiryOK(d) /\ DeletionOK(d)
      /\ d.pc = "stat" /\ Become(p, c)
      /\ disturbed' = (disturbed \/ Halfway) /\ disturbed \in BOOLEAN
      /\ schema' = (IF schema = Missing THEN 0 ELSE schema) /\ schema \in Missing .. Tables
  BY OneProcess DEF SharingInv, Locked, Types, Create
<1>2. /\ c \in Proc /\ c.pc = "load"
      /\ c.name = d.name /\ c.todo = d.todo /\ c.lock = "none" /\ c.rows = 0
      /\ c.next = 0 /\ c.applied = {} /\ c.refused = d.refused
  BY <1>1 DEF Proc, RestOK, DeletionOK
<1> HIDE DEF c
<1>3. schema' \in Missing .. Tables /\ disturbed' \in BOOLEAN
  BY <1>1, SharingAssumption DEF Missing
<1>4. ProcOK(c, schema') /\ ~IsWriter(c) /\ ~Blocked(c) /\ ~Writer(p)
  BY <1>1, <1>2, SharingAssumption
     DEF ProcOK, RestOK, LoadOK, LockOK, ExpiryOK, DeletionOK, IsWriter, Blocked, Writer
<1>5. \A q \in Others(p) : ProcOK(proc[q], schema')
  <2> SUFFICES ASSUME NEW q \in Others(p)
               PROVE  ProcOK(proc[q], schema')
    OBVIOUS
  <2>1. q \in Process /\ proc[q] \in Proc /\ ProcOK(proc[q], schema)
    BY <1>1 DEF Others, Locked, Types, Each
  <2>2. LoadOK(proc[q], schema')
    BY <1>1, <2>1 DEF ProcOK, LoadOK, Proc, Missing
  <2> QED  BY <2>1, <2>2 DEF ProcOK
<1>6. Locked'
  BY <1>1, <1>2, <1>3, <1>4, <1>5, BecomeKeeps
<1>7. /\ proc'[p] = c
      /\ \A q \in Others(p) : proc'[q] = proc[q]
  BY <1>1 DEF Become, Locked, Types, Others
<1>8. Creation'
  <2> SUFFICES ASSUME ~disturbed'
               PROVE  /\ schema' # Missing
                      /\ Halfway' => /\ proc'[p].pc = "load" /\ proc'[p].next = schema'
                                     /\ \A q \in Others(p) : Idle(q)'
    BY Zenon DEF Creation
  <2>1. ~disturbed /\ ~Halfway
    BY <1>1, Zenon
  <2>2. schema' # Missing
    BY <1>1 DEF Missing
  <2>3. ASSUME Halfway'
        PROVE  schema = Missing /\ schema' = 0
    BY <1>1, <2>1, <2>3 DEF Halfway
  <2>4. ASSUME Halfway', NEW q \in Others(p)
        PROVE  Idle(q)'
    <3>1. Idle(q)
      BY <2>1, <2>3, <2>4 DEF SharingInv, Creation, Others
    <3> QED  BY <1>7, <2>4, <3>1 DEF Idle
  <2> QED  BY <1>2, <1>7, <2>2, <2>3, <2>4
<1> QED  BY <1>6, <1>8 DEF SharingInv

\* A process that has ended load_schema can run its command.
LEMMA EndLoadOK ==
    ASSUME Locked, NEW p \in Process, proc[p].pc = "load", NEW sch
    PROVE  /\ EndLoad(proc[p]) \in Proc /\ ProcOK(EndLoad(proc[p]), sch)
           /\ EndLoad(proc[p]).lock = "none" /\ EndLoad(proc[p]).next = 0
<1> DEFINE d == proc[p]  c == EndLoad(d)
<1>1. d \in Proc /\ LoadOK(d, schema) /\ ExpiryOK(d) /\ DeletionOK(d)
  BY OneProcess
<1>2. /\ c \in Proc /\ c.pc = "run" /\ c.name = d.name /\ c.todo = d.todo
      /\ c.lock = "none" /\ c.rows = 0 /\ c.next = 0 /\ c.applied = {}
      /\ c.refused = d.refused
  BY <1>1 DEF EndLoad, Proc, LoadOK, DeletionOK
<1> HIDE DEF c
<1>3. ProcOK(c, sch)
  BY <1>1, <1>2 DEF ProcOK, RestOK, LoadOK, LockOK, ExpiryOK, DeletionOK
<1> QED  BY <1>2, <1>3 DEF c

\* While nobody has disturbed it, the process that loads the schema is the only
\* one with the file open.
LEMMA Loading ==
    ASSUME SharingInv, ~disturbed, NEW p \in Process, proc[p].pc = "load"
    PROVE  /\ schema \in 0 .. Tables
           /\ Halfway => proc[p].next = schema /\ \A q \in Others(p) : Idle(q)
<1>1. ~Idle(p) /\ schema \in Missing .. Tables
  BY DEF Idle, SharingInv, Locked, Types
<1>2. schema # Missing
  BY <1>1 DEF SharingInv, Creation
<1>3. schema \in 0 .. Tables
  BY <1>1, <1>2, SharingAssumption DEF Missing
<1>4. ASSUME Halfway
      PROVE  proc[p].next = schema /\ \A q \in Others(p) : Idle(q)
  <2>1. PICK r \in Process : /\ proc[r].pc = "load" /\ proc[r].next = schema
                             /\ \A q \in Others(r) : Idle(q)
    BY <1>4, Zenon DEF SharingInv, Creation
  <2>2. r = p
    BY <1>1, <2>1, Zenon DEF Others
  <2> QED  BY <2>1, <2>2
<1> QED  BY <1>3, <1>4

\* Others that are idle have no lock.
LEMMA IdleHasNoLock ==
    ASSUME Locked, NEW q \in Process, Idle(q)
    PROVE  proc[q].lock = "none" /\ ~Writer(q)
BY OneProcess DEF Idle, RestOK, Writer

\* load_schema fails only when the file is whole or has been disturbed.
LEMMA LoadFailsKeeps ==
    ASSUME SharingInv, NEW p \in Process, LoadFails(p)
    PROVE  SharingInv'
<1> DEFINE d == proc[p]
<1>1. /\ Locked /\ d.pc = "load" /\ Yield(p, EndLoad(d)) /\ schema' = schema
      /\ disturbed' = disturbed /\ disturbed \in BOOLEAN
      /\ \/ d.lock = "none" /\ (schema # d.next \/ ~CanWrite(p))
         \/ d.lock = "reserved" /\ ~CanCommit(p)
  BY DEF SharingInv, Locked, Types, LoadFails
<1>2. Locked'
  BY <1>1, EndLoadOK, YieldKeeps
<1>3. Creation'
  <2> SUFFICES ASSUME ~disturbed
               PROVE  schema # Missing /\ ~Halfway
    BY <1>1 DEF Creation, Halfway
  <2>1. schema # Missing
    BY <1>1, Loading, SharingAssumption DEF Missing
  <2>2. ASSUME Halfway
        PROVE  FALSE
    <3>1. d.next = schema /\ \A q \in Others(p) : Idle(q)
      BY <1>1, <2>2, Loading
    <3>2. CanWrite(p) /\ CanCommit(p)
      BY <1>1, <3>1, IdleHasNoLock DEF CanWrite, CanCommit, Others
    <3> QED  BY <1>1, <3>1, <3>2
  <2> QED  BY <2>1, <2>2
<1> QED  BY <1>2, <1>3 DEF SharingInv

\* Reserving the file for the next table keeps the invariant.
LEMMA LoadReserveKeeps ==
    ASSUME SharingInv, NEW p \in Process, LoadReserve(p)
    PROVE  SharingInv'
<1> DEFINE d == proc[p]  c == [d EXCEPT !.lock = "reserved"]
<1>1. /\ Locked /\ d \in Proc /\ LoadOK(d, schema) /\ ExpiryOK(d) /\ DeletionOK(d)
      /\ d.pc = "load" /\ d.lock = "none" /\ schema = d.next /\ CanWrite(p)
      /\ Become(p, c) /\ schema' = schema
      /\ disturbed' = disturbed /\ disturbed \in BOOLEAN
  BY OneProcess DEF SharingInv, Locked, Types, LoadReserve
<1>2. /\ c \in Proc /\ c.pc = "load" /\ c.name = d.name /\ c.todo = d.todo
      /\ c.lock = "reserved" /\ c.rows = d.rows /\ c.next = d.next
      /\ c.applied = d.applied /\ c.refused = d.refused
  <2>1. d \in Proc /\ d.pc = "load"
    BY <1>1
  <2> QED  BY <2>1 DEF Proc
<1> HIDE DEF c
<1>3. ProcOK(c, schema) /\ ~Blocked(c)
  BY <1>1, <1>2 DEF ProcOK, RestOK, LoadOK, LockOK, ExpiryOK, DeletionOK, Blocked
<1>4. ~Writer(p)
  BY <1>1 DEF Writer
<1>5. Locked'
  BY <1>1, <1>2, <1>3, <1>4, StepKeeps
<1>6. Creation'
  <2> SUFFICES ASSUME ~disturbed
               PROVE  /\ schema # Missing
                      /\ Halfway => /\ proc'[p].pc = "load" /\ proc'[p].next = schema
                                    /\ \A q \in Others(p) : Idle(q)'
    BY <1>1, Zenon DEF Creation, Halfway
  <2>1. /\ proc'[p] = c
        /\ \A q \in Others(p) : proc'[q] = proc[q]
    BY <1>1 DEF Become, Locked, Types, Others
  <2>2. schema # Missing
    BY <1>1, Loading, SharingAssumption DEF Missing
  <2> QED  BY <1>1, <1>2, <2>1, <2>2, Loading DEF Idle
<1> QED  BY <1>5, <1>6 DEF SharingInv

\* Creating it does too.
LEMMA LoadCommitKeeps ==
    ASSUME SharingInv, NEW p \in Process, LoadCommit(p)
    PROVE  SharingInv'
<1> DEFINE d == proc[p]
           c == IF schema' = Tables THEN EndLoad(d)
                ELSE [d EXCEPT !.next = @ + 1, !.lock = "none"]
<1>1. /\ Locked /\ d \in Proc /\ LoadOK(d, schema) /\ ExpiryOK(d) /\ DeletionOK(d)
      /\ d.pc = "load" /\ d.lock = "reserved" /\ CanCommit(p)
      /\ Become(p, c) /\ schema' = schema + 1 /\ schema \in Missing .. Tables
      /\ disturbed' = disturbed /\ disturbed \in BOOLEAN
  BY OneProcess DEF SharingInv, Locked, Types, LoadCommit
<1>2. schema = d.next /\ d.next \in Nat /\ schema < Tables /\ d.rows = 0
  BY <1>1 DEF LoadOK, Proc
<1>3. schema' \in Missing .. Tables /\ schema' # Missing
  BY <1>1, <1>2, SharingAssumption DEF Missing
<1>4. /\ c \in Proc /\ ProcOK(c, schema') /\ c.lock = "none"
      /\ schema' # Tables => c.pc = "load" /\ c.next = schema'
  <2>1. CASE schema' = Tables
    BY <1>1, <2>1, EndLoadOK
  <2>2. CASE schema' # Tables
    <3>1. /\ c \in Proc /\ c.pc = "load" /\ c.name = d.name /\ c.todo = d.todo
          /\ c.lock = "none" /\ c.rows = d.rows /\ c.next = d.next + 1
          /\ c.applied = d.applied /\ c.refused = d.refused
      <4> DEFINE e == [d EXCEPT !.next = @ + 1, !.lock = "none"]
      <4>1. d \in Proc /\ d.pc = "load" /\ d.next + 1 \in Nat
        BY <1>1, <1>2
      <4>2. /\ e \in Proc /\ e.pc = "load" /\ e.name = d.name /\ e.todo = d.todo
            /\ e.lock = "none" /\ e.rows = d.rows /\ e.next = d.next + 1
            /\ e.applied = d.applied /\ e.refused = d.refused
        BY <4>1 DEF Proc
      <4>3. c = e
        BY <2>2
      <4> HIDE DEF c, e
      <4> QED  BY <4>2, <4>3
    <3> HIDE DEF c
    <3>2. c.next < Tables /\ c.next = schema'
      BY <1>1, <1>2, <2>2, <3>1, SharingAssumption
    <3>3. ProcOK(c, schema')
      BY <1>1, <1>2, <3>1, <3>2
         DEF ProcOK, RestOK, LoadOK, LockOK, ExpiryOK, DeletionOK
    <3> QED  BY <3>1, <3>2, <3>3
  <2> QED  BY <2>1, <2>2
<1> HIDE DEF c
<1>5. \A q \in Others(p) : ProcOK(proc[q], schema')
  <2> SUFFICES ASSUME NEW q \in Others(p)
               PROVE  ProcOK(proc[q], schema')
    OBVIOUS
  <2>1. q \in Process /\ ProcOK(proc[q], schema) /\ proc[q].lock = "none"
    BY <1>1 DEF Others, CanCommit, Locked, Each
  <2>2. LoadOK(proc[q], schema')
    BY <2>1 DEF ProcOK, LoadOK
  <2> QED  BY <2>1, <2>2 DEF ProcOK
<1>6. ~IsWriter(c) /\ ~Blocked(c)
  BY <1>4 DEF IsWriter, Blocked
<1>7. Locked'
  BY <1>1, <1>3, <1>4, <1>5, <1>6, BecomeKeeps
<1>8. Creation'
  <2> SUFFICES ASSUME ~disturbed, Halfway'
               PROVE  /\ proc'[p].pc = "load" /\ proc'[p].next = schema'
                      /\ \A q \in Others(p) : Idle(q)'
    BY <1>1, <1>3, Zenon DEF Creation
  <2>1. /\ proc'[p] = c
        /\ \A q \in Others(p) : proc'[q] = proc[q]
    BY <1>1 DEF Become, Locked, Types, Others
  <2>2. schema' # Tables
    BY <1>1, SharingAssumption DEF Halfway
  <2>3. Halfway
    BY <1>1, <1>2, SharingAssumption DEF Halfway
  <2> QED  BY <1>1, <1>4, <2>1, <2>2, <2>3, Loading DEF Idle
<1> QED  BY <1>7, <1>8 DEF SharingInv

-----------------------------------------------------------------------------
(* The statements of a command                                             *)

\* A process runs statements only on a file that is whole or was disturbed.
LEMMA RunKeepsCreation ==
    ASSUME SharingInv, NEW p \in Process, proc[p].pc = "run",
           schema' = schema, disturbed' = disturbed
    PROVE  Creation'
<1> SUFFICES ASSUME ~disturbed
             PROVE  schema # Missing /\ ~Halfway
  BY Zenon DEF Creation, Halfway
<1>1. ~Idle(p)
  BY DEF Idle
<1>2. schema # Missing
  BY <1>1 DEF SharingInv, Creation
<1>3. ASSUME Halfway
      PROVE  FALSE
  <2>1. PICK r \in Process : proc[r].pc = "load" /\ \A q \in Others(r) : Idle(q)
    BY <1>3, Zenon DEF SharingInv, Creation
  <2> QED  BY <1>1, <2>1 DEF Others
<1> QED  BY <1>2, <1>3

\* Hence a step of a running process keeps the invariant when it keeps the locks.
LEMMA RunKeeps ==
    ASSUME SharingInv, NEW p \in Process, NEW c \in Proc, proc[p].pc = "run",
           Become(p, c), UNCHANGED <<schema, disturbed>>, ProcOK(c, schema),
           IsWriter(c) => Writer(p) \/ CanWrite(p),
           Writer(p) => IsWriter(c) \/ CanCommit(p),
           Blocked(c) => Blocked(proc[p]) \/ ~CanWrite(p)
    PROVE  SharingInv'
<1>1. Locked /\ disturbed' \in BOOLEAN
  BY DEF SharingInv, Locked, Types
<1>2. Locked'
  BY <1>1, StepKeeps
<1> QED  BY <1>2, RunKeepsCreation DEF SharingInv

\* A process that goes on, or ends, without a lock or with its commit keeps it.
LEMMA LeaveKeeps ==
    ASSUME SharingInv, NEW p \in Process, proc[p].pc = "run",
           UNCHANGED <<schema, disturbed>>, Writer(p) => CanCommit(p),
           \/ proc[p].todo # <<>> /\ Become(p, GoOn(p))
           \/ Become(p, Exit(p))
    PROVE  SharingInv'
<1>1. Locked
  BY DEF SharingInv
<1>2. CASE proc[p].todo # <<>> /\ Become(p, GoOn(p))
  <2>1. /\ GoOn(p) \in Proc /\ ProcOK(GoOn(p), schema)
        /\ ~IsWriter(GoOn(p)) /\ ~Blocked(GoOn(p))
    BY <1>1, <1>2, GoOnOK DEF IsWriter, Blocked
  <2> QED  BY <1>2, <2>1, RunKeeps
<1>3. CASE Become(p, Exit(p))
  <2>1. /\ Exit(p) \in Proc /\ ProcOK(Exit(p), schema)
        /\ ~IsWriter(Exit(p)) /\ ~Blocked(Exit(p))
    BY <1>1, ExitOK DEF IsWriter, Blocked
  <2> QED  BY <1>3, <2>1, RunKeeps
<1> QED  BY <1>2, <1>3

\* Giving up for want of a table keeps the invariant.
LEMMA UnpreparedKeeps ==
    ASSUME SharingInv, NEW p \in Process, Unprepared(p)
    PROVE  SharingInv'
<1>1. /\ proc[p].pc = "run" /\ ~Writer(p) /\ Become(p, Exit(p))
      /\ UNCHANGED <<schema, disturbed>>
  BY DEF Unprepared, Runs, Writer
<1> QED  BY <1>1, LeaveKeeps

\* So does the end of the command.
LEMMA FinishKeeps ==
    ASSUME SharingInv, NEW p \in Process, Finish(p)
    PROVE  SharingInv'
<1>1. /\ proc[p].pc = "run" /\ proc[p].todo = <<>> /\ Become(p, Exit(p))
      /\ UNCHANGED <<schema, disturbed>>
  BY DEF Finish
<1>2. proc[p].lock = "none"
  BY <1>1, OneProcess DEF SharingInv, LockOK, HeadIn
<1>3. ~Writer(p)
  BY <1>2 DEF Writer
<1> QED  BY <1>1, <1>3, LeaveKeeps

\* Opening a select.
LEMMA SelectOpenKeeps ==
    ASSUME SharingInv, NEW p \in Process, SelectOpen(p)
    PROVE  SharingInv'
<1> DEFINE d == proc[p]
<1>1. PICK n \in 1 .. (IF Runs(p, {"expiry"}) THEN MaxRows ELSE 1) :
         Become(p, [d EXCEPT !.lock = "shared", !.rows = n])
  BY DEF SelectOpen
<1> DEFINE c == [d EXCEPT !.lock = "shared", !.rows = n]
<1>2. /\ d \in Proc /\ LockOK(d) /\ ExpiryOK(d) /\ DeletionOK(d)
      /\ d.pc = "run" /\ d.todo # <<>> /\ Head(d.todo) \in {"select", "expiry"}
      /\ d.rows = 0 /\ UNCHANGED <<schema, disturbed>>
  BY OneProcess DEF SharingInv, SelectOpen, Runs
<1>3. n \in 1 .. MaxRows
  BY <1>1, SharingAssumption
<1>4. d.lock = "none" /\ d.next = 0
  BY <1>2 DEF LockOK, HeadIn, Proc
<1>5. /\ c \in Proc /\ c.pc = "run" /\ c.name = d.name /\ c.todo = d.todo
      /\ c.lock = "shared" /\ c.rows = n /\ c.next = 0
      /\ c.applied = d.applied /\ c.refused = d.refused
  <2>1. n \in 0 .. MaxRows
    BY <1>3, SharingAssumption
  <2> HIDE <1>1
  <2> QED  BY <1>2, <1>4, <2>1 DEF Proc
<1> HIDE DEF c
<1>6. RestOK(c) /\ LoadOK(c, schema) /\ ExpiryOK(c) /\ DeletionOK(c)
  BY <1>2, <1>4, <1>5 DEF RestOK, LoadOK, ExpiryOK, DeletionOK
<1>7. LockOK(c)
  BY <1>2, <1>3, <1>5 DEF LockOK, HeadIn
<1>8. ProcOK(c, schema) /\ ~IsWriter(c) /\ ~Blocked(c) /\ ~Writer(p)
  BY <1>4, <1>5, <1>6, <1>7 DEF ProcOK, IsWriter, Blocked, Writer
<1> QED  BY <1>1, <1>2, <1>5, <1>8, RunKeeps DEF c

\* Stepping it.
LEMMA SelectStepKeeps ==
    ASSUME SharingInv, NEW p \in Process, SelectStep(p)
    PROVE  SharingInv'
<1> DEFINE d == proc[p]  c == [d EXCEPT !.rows = @ - 1]
<1>1. /\ d \in Proc /\ LockOK(d) /\ ExpiryOK(d) /\ DeletionOK(d)
      /\ d.pc = "run" /\ d.todo # <<>> /\ Head(d.todo) \in {"select", "expiry"}
      /\ d.rows > 0 /\ d.next = 0 /\ UNCHANGED <<schema, disturbed>>
      /\ Become(p, IF d.rows = 1 THEN GoOn(p) ELSE c)
  BY OneProcess DEF SharingInv, SelectStep, Runs
<1>2. d.lock = "shared" /\ ~Writer(p)
  BY <1>1 DEF LockOK, Writer
<1>3. CASE d.rows = 1
  BY <1>1, <1>2, <1>3, LeaveKeeps
<1>4. CASE d.rows # 1
  <2>1. /\ c \in Proc /\ c.pc = "run" /\ c.name = d.name /\ c.todo = d.todo
        /\ c.lock = "shared" /\ c.rows = d.rows - 1 /\ c.next = 0 /\ c.rows > 0
        /\ c.applied = d.applied /\ c.refused = d.refused
    <3>1. d.rows - 1 \in 0 .. MaxRows /\ d.rows - 1 > 0
      BY <1>1, <1>4, SharingAssumption DEF Proc
    <3>2. d \in Proc /\ d.pc = "run" /\ d.lock = "shared" /\ d.next = 0
      BY <1>1, <1>2
    <3> HIDE DEF d
    <3> QED  BY <3>1, <3>2 DEF Proc
  <2> HIDE DEF c
  <2>2. RestOK(c) /\ LoadOK(c, schema) /\ ExpiryOK(c) /\ DeletionOK(c)
    BY <1>1, <2>1 DEF RestOK, LoadOK, ExpiryOK, DeletionOK
  <2>3. LockOK(c)
    BY <1>1, <2>1 DEF LockOK, HeadIn
  <2>4. ProcOK(c, schema) /\ ~IsWriter(c) /\ ~Blocked(c)
    BY <2>1, <2>2, <2>3 DEF ProcOK, IsWriter, Blocked
  <2> QED  BY <1>1, <1>2, <1>4, <2>1, <2>4, RunKeeps
<1> QED  BY <1>3, <1>4

\* A process that takes another lock for its statement and changes nothing else.
LEMMA LockKeeps ==
    ASSUME SharingInv, NEW p \in Process, NEW l \in {"reserved", "pending"},
           proc[p].pc = "run", Runs(p, {"write"}) \/ proc[p].next > 0,
           Become(p, [proc[p] EXCEPT !.lock = l]), UNCHANGED <<schema, disturbed>>,
           Writer(p) \/ CanWrite(p)
    PROVE  SharingInv'
<1> DEFINE d == proc[p]  c == [d EXCEPT !.lock = l]
<1>1. /\ Locked /\ d \in Proc /\ LockOK(d) /\ ExpiryOK(d) /\ DeletionOK(d)
      /\ Writer(p) <=> IsWriter(d)
  BY OneProcess DEF SharingInv
<1>2. /\ c \in Proc /\ c.pc = "run" /\ c.name = d.name /\ c.todo = d.todo
      /\ c.lock = l /\ c.rows = d.rows /\ c.next = d.next
      /\ c.applied = d.applied /\ c.yielded = d.yielded /\ c.refused = d.refused
  <2>1. d \in Proc
    BY <1>1
  <2> QED  BY <2>1 DEF Proc
<1> HIDE DEF c
<1>3. d.next \in Nat
  BY <1>1 DEF Proc
<1>4. RestOK(c) /\ LoadOK(c, schema) /\ ExpiryOK(c)
  BY <1>1, <1>2 DEF RestOK, LoadOK, ExpiryOK
<1>5. LockOK(c)
  <2>1. d.next > 0 => HeadIn(d, {"delete"}) \/ (HeadIn(d, {"expiry"}) /\ d.rows > 0)
    BY <1>1 DEF LockOK
  <2>2. c.rows > 0 \/ HeadIn(c, {"write", "delete"})
    BY <1>1, <1>2, <2>1 DEF HeadIn, Runs
  <2> QED  BY <1>1, <1>2, <2>1, <2>2 DEF LockOK, HeadIn, Runs
<1>6. DeletionOK(c)
  <2>1. c.next = 0 => c.applied = {}
    BY <1>1, <1>2 DEF DeletionOK
  <2>2. ASSUME c.next > 0
        PROVE  /\ c.next <= Deletes + 1
               /\ \/ c.applied = 1 .. (c.next - 1) /\ (c.next > 1 => IsWriter(c))
                  \/ c.applied = {} /\ c.lock = "shared"
                  \/ c.yielded /\ c.name = "expire"
    <3>1. d.next <= Deletes + 1 /\ IsWriter(c)
      BY <1>1, <1>2, <2>2 DEF DeletionOK, IsWriter
    <3>2. CASE d.applied = 1 .. (d.next - 1)
      BY <1>2, <3>1, <3>2
    <3>3. CASE d.yielded /\ d.name = "expire"
      BY <1>2, <3>1, <3>3
    <3>4. CASE d.applied = {} /\ d.lock = "shared"
      <4>1. CASE d.next = 1
        BY <1>2, <3>1, <3>4, <4>1
      <4>2. CASE d.next > 1
        <5>1. ~Writer(p)
          BY <3>4 DEF Writer
        <5>2. ~Blocked(d)
          BY <1>1, <5>1, Zenon DEF Locked, Waiting, CanWrite
        <5>3. d.yielded
          BY <3>4, <4>2, <5>2 DEF Blocked
        <5>4. d.name = "expire"
          BY <1>1, <1>3, <3>4, <4>2, NestedDeletion DEF LockOK
        <5> QED  BY <1>2, <3>1, <5>3, <5>4
      <4> QED  BY <1>2, <1>3, <2>2, <4>1, <4>2
    <3> QED  BY <1>1, <1>2, <2>2, <3>2, <3>3, <3>4 DEF DeletionOK
  <2> QED  BY <1>2, <2>1, <2>2 DEF DeletionOK
<1>7. ProcOK(c, schema) /\ IsWriter(c) /\ ~Blocked(c)
  BY <1>2, <1>4, <1>5, <1>6 DEF ProcOK, IsWriter, Blocked
<1> QED  BY <1>2, <1>7, RunKeeps DEF c

\* Reserving the file for a change.
LEMMA ReserveKeeps ==
    ASSUME SharingInv, NEW p \in Process, Reserve(p)
    PROVE  SharingInv'
<1>1. /\ proc[p].pc = "run" /\ (Runs(p, {"write"}) \/ proc[p].next > 0)
      /\ CanWrite(p) /\ UNCHANGED <<schema, disturbed>>
      /\ Become(p, [proc[p] EXCEPT !.lock = "reserved"])
  BY SharingAssumption DEF Reserve, Runs, Deleting
<1> QED  BY <1>1, LockKeeps

\* Waiting for the readers before a commit.
LEMMA PendKeeps ==
    ASSUME SharingInv, NEW p \in Process, Pend(p)
    PROVE  SharingInv'
<1>1. proc[p].next \in Nat
  BY OneProcess DEF SharingInv, Proc
<1>2. /\ proc[p].pc = "run" /\ (Runs(p, {"write"}) \/ proc[p].next > 0)
      /\ Writer(p) /\ UNCHANGED <<schema, disturbed>>
      /\ Become(p, [proc[p] EXCEPT !.lock = "pending"])
  BY <1>1, SharingAssumption DEF Pend, Runs, Writer
<1> QED  BY <1>2, LockKeeps

\* The commit of a change.
LEMMA CommitKeeps ==
    ASSUME SharingInv, NEW p \in Process, Commit(p)
    PROVE  SharingInv'
BY LeaveKeeps DEF Commit, Runs

\* Ending a statement without a commit.
LEMMA NothingKeeps ==
    ASSUME SharingInv, NEW p \in Process, WriteNothing(p) \/ DeleteNothing(p)
    PROVE  SharingInv'
<1>1. /\ Locked /\ proc[p].pc = "run" /\ proc[p].todo # <<>> /\ Yield(p, GoOn(p))
      /\ UNCHANGED <<schema, disturbed>> /\ disturbed' \in BOOLEAN
  BY DEF WriteNothing, DeleteNothing, Runs, SharingInv, Locked, Types
<1>2. Locked'
  BY <1>1, GoOnOK, YieldKeeps
<1> QED  BY <1>1, <1>2, RunKeepsCreation DEF SharingInv

(* db_delete_backup_id                                                     *)

\* Beginning a deletion takes no lock.
LEMMA DeleteBeginKeeps ==
    ASSUME SharingInv, NEW p \in Process, DeleteBegin(p)
    PROVE  SharingInv'
<1> DEFINE d == proc[p]  c == [d EXCEPT !.next = 1]
<1>1. /\ d \in Proc /\ LockOK(d) /\ ExpiryOK(d) /\ DeletionOK(d)
      /\ d.pc = "run" /\ d.next = 0 /\ Become(p, c) /\ UNCHANGED <<schema, disturbed>>
      /\ HeadIn(d, {"delete"}) \/ (HeadIn(d, {"expiry"}) /\ d.rows > 0)
      /\ Writer(p) <=> IsWriter(d)
  BY OneProcess DEF SharingInv, DeleteBegin, Runs, HeadIn
<1>2. /\ c \in Proc /\ c.pc = "run" /\ c.name = d.name /\ c.todo = d.todo
      /\ c.lock = d.lock /\ c.rows = d.rows /\ c.next = 1
      /\ c.applied = d.applied /\ c.refused = d.refused
  <2>1. d \in Proc /\ d.pc = "run"
    BY <1>1
  <2> QED  BY <2>1 DEF Proc
<1> HIDE DEF c
<1>3. RestOK(c) /\ LoadOK(c, schema) /\ ExpiryOK(c)
  BY <1>1, <1>2 DEF RestOK, LoadOK, ExpiryOK
<1>4. LockOK(c)
  BY <1>1, <1>2 DEF LockOK, HeadIn
<1>5. DeletionOK(c)
  <2>1. c.applied = 1 .. (c.next - 1) /\ c.next <= Deletes + 1
    BY <1>1, <1>2, SharingAssumption DEF DeletionOK
  <2> QED  BY <1>2, <2>1 DEF DeletionOK
<1>6. ProcOK(c, schema) /\ ~Blocked(c) /\ (IsWriter(c) <=> Writer(p))
  BY <1>1, <1>2, <1>3, <1>4, <1>5 DEF ProcOK, Blocked, IsWriter
<1> QED  BY <1>1, <1>2, <1>6, RunKeeps

\* What the invariant says of a process within its deletion.
LEMMA InDeletion ==
    ASSUME SharingInv, NEW p \in Process, proc[p].pc = "run", proc[p].next > 0
    PROVE  /\ proc[p].next \in 1 .. (Deletes + 1) /\ proc[p].todo # <<>>
           /\ \/ /\ proc[p].applied = 1 .. (proc[p].next - 1)
                 /\ proc[p].next > 1 => Writer(p)
              \/ proc[p].applied = {} /\ proc[p].lock = "shared"
              \/ proc[p].yielded /\ proc[p].name = "expire"
<1>1. /\ proc[p] \in Proc /\ LockOK(proc[p]) /\ DeletionOK(proc[p])
      /\ Writer(p) <=> IsWriter(proc[p])
  BY OneProcess DEF SharingInv
<1>2. proc[p].next \in Nat /\ proc[p].next <= Deletes + 1
  BY <1>1 DEF Proc, DeletionOK
<1> QED  BY <1>1, <1>2, SharingAssumption DEF DeletionOK, LockOK, HeadIn

\* A statement of the deletion takes effect.
LEMMA DeleteStatementKeeps ==
    ASSUME SharingInv, NEW p \in Process, DeleteStatement(p)
    PROVE  SharingInv'
<1> DEFINE d == proc[p]  c == [d EXCEPT !.next = @ + 1, !.applied = @ \cup {d.next}]
<1>1. /\ d \in Proc /\ LockOK(d) /\ ExpiryOK(d)
      /\ d.pc = "run" /\ d.next \in 1 .. Deletes /\ Writer(p) /\ IsWriter(d)
      /\ Become(p, c) /\ UNCHANGED <<schema, disturbed>>
  BY OneProcess DEF SharingInv, DeleteStatement, Deleting
<1>2. d.next \in Nat /\ d.next > 0 /\ d.next <= Deletes
  BY <1>1, SharingAssumption
<1>3. /\ c \in Proc /\ c.pc = "run" /\ c.name = d.name /\ c.todo = d.todo
      /\ c.lock = d.lock /\ c.rows = d.rows /\ c.next = d.next + 1
      /\ c.applied = d.applied \cup {d.next} /\ c.yielded = d.yielded /\ c.refused = d.refused
  <2>1. d \in Proc /\ d.pc = "run" /\ d.next + 1 \in Nat
    BY <1>1, <1>2
  <2>2. d.applied \cup {d.next} \in SUBSET (1 .. Deletes)
    BY <1>1 DEF Proc
  <2> QED  BY <2>1, <2>2 DEF Proc
<1> HIDE DEF c
<1>4. RestOK(c) /\ LoadOK(c, schema) /\ ExpiryOK(c)
  BY <1>1, <1>3 DEF RestOK, LoadOK, ExpiryOK
<1>5. LockOK(c)
  BY <1>1, <1>2, <1>3 DEF LockOK, HeadIn
<1>6. DeletionOK(c)
  <2>1. c.next <= Deletes + 1 /\ c.next > 0 /\ IsWriter(c)
    BY <1>1, <1>2, <1>3, SharingAssumption DEF IsWriter
  <2>2. d.applied = 1 .. (d.next - 1) \/ (d.yielded /\ d.name = "expire")
    BY <1>1, <1>2, InDeletion DEF IsWriter
  <2>3. ASSUME d.applied = 1 .. (d.next - 1)
        PROVE  c.applied = 1 .. (c.next - 1)
    BY <1>2, <1>3, <2>3
  <2> QED  BY <1>3, <2>1, <2>2, <2>3 DEF DeletionOK
<1>7. ProcOK(c, schema) /\ IsWriter(c) /\ ~Blocked(c)
  BY <1>1, <1>3, <1>4, <1>5, <1>6 DEF ProcOK, IsWriter, Blocked
<1> QED  BY <1>1, <1>3, <1>7, RunKeeps DEF c

\* A statement of it is refused.
LEMMA RefusedKeeps ==
    ASSUME SharingInv, NEW p \in Process, Refused(p)
    PROVE  SharingInv'
<1> DEFINE d == proc[p]  c == [d EXCEPT !.next = @ + 1, !.refused = TRUE]
<1>1. /\ d \in Proc /\ LockOK(d) /\ ExpiryOK(d) /\ DeletionOK(d)
      /\ d.pc = "run" /\ d.next \in 1 .. Deletes /\ d.lock = "shared" /\ ~CanWrite(p)
      /\ Become(p, c) /\ UNCHANGED <<schema, disturbed>>
  BY OneProcess DEF SharingInv, Refused, Deleting, WouldDeadlock
<1>2. d.next \in Nat /\ d.next > 0 /\ d.next <= Deletes /\ ~Writer(p)
  BY <1>1, SharingAssumption DEF Writer
<1>3. /\ c \in Proc /\ c.pc = "run" /\ c.name = d.name /\ c.todo = d.todo
      /\ c.lock = d.lock /\ c.rows = d.rows /\ c.next = d.next + 1
      /\ c.applied = d.applied /\ c.yielded = d.yielded
  <2>1. d \in Proc /\ d.pc = "run" /\ d.next + 1 \in Nat
    BY <1>1, <1>2
  <2> QED  BY <2>1 DEF Proc
<1> HIDE DEF c
<1>4. d.name = "expire"
  BY <1>1, <1>2, NestedDeletion DEF LockOK
<1>5. RestOK(c) /\ LoadOK(c, schema) /\ ExpiryOK(c)
  BY <1>1, <1>3, <1>4 DEF RestOK, LoadOK, ExpiryOK
<1>6. LockOK(c)
  BY <1>1, <1>2, <1>3 DEF LockOK, HeadIn
<1>7. DeletionOK(c)
  <2>1. c.next <= Deletes + 1 /\ c.next > 0
    BY <1>2, <1>3, SharingAssumption
  <2>2. d.applied = {} \/ (d.yielded /\ d.name = "expire")
    <3>1. d.next = 1 => 1 .. (d.next - 1) = {}
      OBVIOUS
    <3> QED  BY <1>1, <1>2, <3>1, InDeletion
  <2> QED  BY <1>1, <1>3, <2>1, <2>2 DEF DeletionOK
<1>8. ProcOK(c, schema) /\ ~IsWriter(c)
  BY <1>1, <1>3, <1>5, <1>6, <1>7 DEF ProcOK, IsWriter
<1> QED  BY <1>1, <1>2, <1>3, <1>8, RunKeeps DEF c

\* The end of a deletion.
LEMMA DeleteCommitKeeps ==
    ASSUME SharingInv, NEW p \in Process, DeleteCommit(p)
    PROVE  SharingInv'
<1> DEFINE d == proc[p]
           c == [d EXCEPT !.rows = @ - 1, !.next = 0, !.applied = {},
                          !.yielded = FALSE, !.lock = Resting(p)]
<1>1. /\ d \in Proc /\ LockOK(d) /\ ExpiryOK(d)
      /\ d.pc = "run" /\ d.next > Deletes /\ (Writer(p) => CanCommit(p))
      /\ Become(p, IF d.rows < 2 THEN GoOn(p) ELSE c) /\ UNCHANGED <<schema, disturbed>>
  BY OneProcess DEF SharingInv, DeleteCommit
<1>2. d.next \in Nat /\ d.next > 0 /\ d.todo # <<>>
  <2>1. d.next \in Nat
    BY <1>1 DEF Proc
  <2>2. d.next > 0
    BY <1>1, <2>1, SharingAssumption
  <2> QED  BY <1>1, <2>1, <2>2, InDeletion
<1>3. CASE d.rows < 2
  BY <1>1, <1>2, <1>3, LeaveKeeps
<1>4. CASE ~(d.rows < 2)
  <2>1. d.rows \in 0 .. MaxRows /\ d.rows - 1 \in 0 .. MaxRows /\ d.rows - 1 > 0
        /\ Resting(p) = "shared"
    BY <1>1, <1>4, SharingAssumption DEF Proc, Resting
  <2>2. /\ c \in Proc /\ c.pc = "run" /\ c.name = d.name /\ c.todo = d.todo
        /\ c.lock = "shared" /\ c.rows = d.rows - 1 /\ c.next = 0
        /\ c.applied = {} /\ c.refused = d.refused
    <3>1. d \in Proc /\ d.pc = "run"
      BY <1>1
    <3> HIDE DEF d
    <3> QED  BY <2>1, <3>1 DEF Proc
  <2> HIDE DEF c
  <2>3. RestOK(c) /\ LoadOK(c, schema) /\ ExpiryOK(c) /\ DeletionOK(c)
    BY <1>1, <2>2 DEF RestOK, LoadOK, ExpiryOK, DeletionOK
  <2>4. d.rows > 0 /\ HeadIn(d, {"select", "expiry"})
    BY <1>1, <2>1 DEF LockOK
  <2>5. LockOK(c)
    BY <2>1, <2>2, <2>4 DEF LockOK, HeadIn
  <2>6. ProcOK(c, schema) /\ ~IsWriter(c) /\ ~Blocked(c)
    BY <2>2, <2>3, <2>5 DEF ProcOK, IsWriter, Blocked
  <2> QED  BY <1>1, <1>4, <2>2, <2>6, RunKeeps
<1> QED  BY <1>3, <1>4

-----------------------------------------------------------------------------
(* The whole specification                                                 *)

\* A process may be killed anywhere.
LEMMA KillKeeps ==
    ASSUME SharingInv, NEW p \in Process, Kill(p)
    PROVE  SharingInv'
<1>1. /\ Locked /\ Yield(p, Exit(p)) /\ schema' = schema /\ disturbed \in BOOLEAN
      /\ disturbed' = (disturbed \/ (proc[p].pc = "load" /\ Halfway))
  BY DEF SharingInv, Locked, Types, Kill
<1>2. Locked'
  <2>1. disturbed' \in BOOLEAN
    BY <1>1
  <2> QED  BY <1>1, <2>1, ExitOK, YieldKeeps
<1>3. Creation'
  <2> SUFFICES ASSUME ~disturbed'
               PROVE  Creation'
    BY DEF Creation
  <2>1. ~disturbed /\ ~(proc[p].pc = "load" /\ Halfway) /\ (Halfway' <=> Halfway)
    BY <1>1, Zenon DEF Halfway
  <2>2. \A q \in Process : proc'[q].pc = IF q = p THEN "done" ELSE proc[q].pc
    BY <1>1, ExitOK DEF Yield, Locked, Types, Proc
  <2>3. schema = Missing => \A q \in Process : Idle(q)'
    BY <2>1, <2>2 DEF SharingInv, Creation, Idle
  <2>4. ASSUME Halfway
        PROVE  \E r \in Process : /\ proc'[r].pc = "load" /\ proc'[r].next = schema
                                  /\ \A q \in Others(r) : Idle(q)'
    <3>1. PICK r \in Process : /\ proc[r].pc = "load" /\ proc[r].next = schema
                               /\ \A q \in Others(r) : Idle(q)
      BY <2>1, <2>4, Zenon DEF SharingInv, Creation
    <3>2. r # p
      BY <2>1, <2>4, <3>1
    <3>3. proc'[r].next = proc[r].next
      BY <1>1, <3>1, <3>2 DEF Yield, Locked, Types, Proc
    <3>4. \A q \in Others(r) : Idle(q)'
      BY <2>2, <3>1 DEF Idle, Others
    <3> QED  BY <2>2, <3>1, <3>2, <3>3, <3>4
  <2> QED  BY <1>1, <2>1, <2>3, <2>4, Zenon DEF Creation
<1> QED  BY <1>2, <1>3 DEF SharingInv

\* Every process starts with nothing open.
LEMMA InitOK == Init => SharingInv
<1> SUFFICES ASSUME Init
             PROVE  SharingInv
  OBVIOUS
<1>1. ASSUME NEW p \in Process
      PROVE  /\ proc[p] \in Proc /\ ProcOK(proc[p], schema)
             /\ proc[p].pc = "start" /\ proc[p].lock = "none"
  <2>1. PICK n \in Commands : proc[p] = Start(n)
    BY <1>1 DEF Init
  <2>2. n \in DOMAIN Statements
    BY SharingAssumption
  <2>3. /\ Statements[n] \in Seq(Kind)
        /\ \A k \in 1 .. Len(Statements[n]) : Statements[n][k] = "expiry" => n = "expire"
    BY <2>2, StatementsOK
  <2> DEFINE f(t) == [pc |-> "start", name |-> n, todo |-> t, lock |-> "none", rows |-> 0,
                      next |-> 0, applied |-> {}, yielded |-> FALSE, refused |-> FALSE]
             c == f(Statements[n])
  <2>4. ASSUME NEW t \in Seq(Kind)
        PROVE  /\ f(t) \in Proc /\ f(t).pc = "start" /\ f(t).name = n /\ f(t).todo = t
               /\ f(t).lock = "none" /\ f(t).rows = 0 /\ f(t).next = 0 /\ f(t).applied = {}
               /\ f(t).refused = FALSE
    <3>1. MaxRows \in Nat /\ 0 \in 0 .. MaxRows
      BY SharingAssumption
    <3> QED  BY <2>2, <3>1 DEF Proc
  <2>5. proc[p] = c
    BY <2>1 DEF Start
  <2> HIDE DEF f
  <2>6. /\ c \in Proc /\ c.pc = "start" /\ c.name = n /\ c.todo = Statements[n]
        /\ c.lock = "none" /\ c.rows = 0 /\ c.next = 0 /\ c.applied = {} /\ c.refused = FALSE
    BY <2>3, <2>4, Zenon
  <2> HIDE DEF c
  <2>7. ProcOK(c, schema)
    BY <2>3, <2>6 DEF ProcOK, RestOK, LoadOK, LockOK, ExpiryOK, DeletionOK
  <2> QED  BY <2>5, <2>6, <2>7
<1>2. schema \in Missing .. Tables /\ disturbed = FALSE /\ ~Halfway
  BY SharingAssumption DEF Init, Missing, Halfway
<1>3. Types
  <2>1. proc = [p \in Process |-> proc[p]]
    BY DEF Init
  <2> QED  BY <1>1, <1>2, <2>1 DEF Types
<1>4. Each
  BY <1>1 DEF Each
<1>5. OneWriter /\ Waiting
  BY <1>1 DEF OneWriter, Waiting, Writer, Blocked
<1>6. Creation
  BY <1>1, <1>2 DEF Creation, Idle
<1> QED  BY <1>3, <1>4, <1>5, <1>6 DEF SharingInv, Locked

\* The invariant is inductive.
LEMMA NextOK == SharingInv /\ [Next]_vars => SharingInv'
<1> SUFFICES ASSUME SharingInv, [Next]_vars
             PROVE  SharingInv'
  OBVIOUS
<1>1. ASSUME NEW p \in Process, Step(p)
      PROVE  SharingInv'
  <2>1. CASE Stat(p) \/ Create(p) \/ LoadReserve(p) \/ LoadCommit(p) \/ LoadFails(p)
    BY <2>1, StatKeeps, CreateKeeps, LoadReserveKeeps, LoadCommitKeeps, LoadFailsKeeps
  <2>2. CASE Unprepared(p) \/ Finish(p) \/ SelectOpen(p) \/ SelectStep(p)
    BY <2>2, UnpreparedKeeps, FinishKeeps, SelectOpenKeeps, SelectStepKeeps
  <2>3. CASE Reserve(p) \/ WriteNothing(p) \/ Pend(p) \/ Commit(p)
    BY <2>3, ReserveKeeps, NothingKeeps, PendKeeps, CommitKeeps
  <2>4. CASE DeleteBegin(p) \/ DeleteStatement(p) \/ Refused(p) \/ DeleteNothing(p)
    BY <2>4, DeleteBeginKeeps, DeleteStatementKeeps, RefusedKeeps, NothingKeeps
  <2>5. CASE DeleteCommit(p)
    BY <2>5, DeleteCommitKeeps
  <2> QED  BY <1>1, <2>1, <2>2, <2>3, <2>4, <2>5 DEF Step
<1>2. ASSUME NEW p \in Process, Kill(p)
      PROVE  SharingInv'
  BY <1>2, KillKeeps
<1>3. CASE UNCHANGED vars
  BY <1>3 DEF vars, SharingInv, Locked, Types, Each, OneWriter, Waiting, Creation,
              Writer, Idle, Halfway
<1> QED  BY <1>1, <1>2, <1>3 DEF Next, AllDone

\* ... and so holds in every state that can be reached.
LEMMA Invariance == Spec => []SharingInv
BY InitOK, NextOK, PTL DEF Spec

\* Processes keep within their commands, and never do two of them hold the file
\* for writing, whether it exists, is being created or is being read meanwhile.
THEOREM SingleWriter == Spec => []SharingTypeOK
<1>1. SharingInv => SharingTypeOK
  <2> SUFFICES ASSUME SharingInv
               PROVE  SharingTypeOK
    OBVIOUS
  <2>1. \A p \in Process :
           /\ proc[p].pc \in {"start", "stat", "load", "run", "done"}
           /\ proc[p].lock \in {"none", "shared", "reserved", "pending"}
           /\ proc[p].rows \in 0 .. MaxRows /\ proc[p].next \in Nat
           /\ proc[p].applied \subseteq 1 .. Deletes
    BY DEF SharingInv, Locked, Types, Proc
  <2> QED  BY <2>1 DEF SharingInv, Locked, Types, OneWriter, SharingTypeOK
<1> QED  BY <1>1, Invariance, PTL

\* SQLite refuses a statement, rather than letting it wait, only in the loop of
\* /runexpiration: no other handler still reads when it writes.
THEOREM RefusalsAreExpiry == Spec => []OnlyExpiryIsRefused
<1>1. SharingInv => OnlyExpiryIsRefused
  BY OneProcess DEF SharingInv, OnlyExpiryIsRefused, ExpiryOK
<1> QED  BY <1>1, Invariance, PTL

\* A deletion takes effect as a whole or not at all, unless it is one of
\* /runexpiration and a writer gave way to it without a commit.
THEOREM DeletionsAreWhole == Spec => []DeletesAreWholeUnlessYielded
<1>1. SharingInv => DeletesAreWholeUnlessYielded
  <2> SUFFICES ASSUME SharingInv, NEW p \in Process, proc[p].next > Deletes, proc[p].pc = "run"
               PROVE  \/ proc[p].applied \in {{}, 1 .. Deletes}
                      \/ proc[p].yielded /\ proc[p].name = "expire"
    BY Zenon DEF DeletesAreWholeUnlessYielded
  <2>1. proc[p].next \in Nat
    BY OneProcess DEF SharingInv, Proc
  <2>2. proc[p].next > 0
    BY <2>1, SharingAssumption
  <2>3. proc[p].next \in 1 .. (Deletes + 1)
    BY <2>2, InDeletion
  <2>4. proc[p].next - 1 = Deletes
    BY <2>3, SharingAssumption
  <2> QED  BY <2>2, <2>4, InDeletion
<1> QED  BY <1>1, Invariance, PTL

\* A file is left without all its tables only if another process opened it
\* meanwhile or the process that created it was killed.
THEOREM CreationIsWhole == Spec => []SchemaIsWholeUnlessDisturbed
<1>1. SharingInv => SchemaIsWholeUnlessDisturbed
  BY Zenon DEF SharingInv, Creation, SchemaIsWholeUnlessDisturbed
<1> QED  BY <1>1, Invariance, PTL

=============================================================================
