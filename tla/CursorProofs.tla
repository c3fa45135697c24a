---------------------------- MODULE CursorProofs -----------------------------
(***************************************************************************)
(* Cursors, for every size of the stack and every place where statements   *)
(* may fail: what is on the stack is accounted for, and no loop loses its  *)
(* cursor.                                                                 *)
(***************************************************************************)
EXTENDS Cursors, SequenceTheorems, TLAPS

AnyItem == Queries \cup Execs \cup Lookups

\* Of the lookups only "locate" is run in a loop.
LoopItem == Queries \cup Execs \cup {"locate"}

Frame == [query : Queries \cup {"none"}, todo : Seq(AnyItem)]

\* What the frames of a state are: sequences of statements, none of them a lookup
\* of the handlers' own inside a loop.
FramesTyped(fs) ==
    /\ fs \in Seq(Frame) /\ Len(fs) >= 1
    /\ \A k \in 2 .. Len(fs) : fs[k].todo \in Seq(LoopItem)

CursorTypes ==
    /\ sqlstack \in Seq(AnyItem)
    /\ FramesTyped(frames)
    /\ stuck \in Int

(* The inductive invariant.                                                *)
Accounts ==
    /\ CursorTypes
    /\ Running => stuck >= 0 /\ Len(sqlstack) = Len(frames) - 1 + stuck

-----------------------------------------------------------------------------
(* Lemmas about the operators                                              *)

\* Short tuples are sequences.
LEMMA Tuples ==
    ASSUME NEW S
    PROVE  /\ <<>> \in Seq(S)
           /\ \A a \in S : <<a>> \in Seq(S)
           /\ \A a, b \in S : <<a, b>> \in Seq(S)
           /\ \A a, b, c \in S : <<a, b, c>> \in Seq(S)
<1>1. \A a \in S : <<a>> \in Seq(S)
  OBVIOUS
<1>2. \A a, b \in S : <<a, b>> \in Seq(S)
  OBVIOUS
<1>3. \A a, b, c \in S : <<a, b, c>> \in Seq(S)
  OBVIOUS
<1> QED  BY <1>1, <1>2, <1>3, EmptySeq

\* What a loop may run, a handler may.
LEMMA LoopItemsAreItems == Seq(LoopItem) \subseteq Seq(AnyItem)
<1>1. LoopItem \subseteq AnyItem
  BY DEF LoopItem, AnyItem, Lookups
<1> QED  BY <1>1, SeqMonotonic, Zenon

\* What a loop runs for a row are statements a loop may run.
LEMMA BodiesOfLoops == \A q : \A b \in Bodies(q) : b \in Seq(LoopItem)
<1>1. {"exec", "delete", "volumes", "fetch", "segments", "locate",
       "segments_of", "errors"} \subseteq LoopItem
  BY DEF LoopItem, Queries, Execs
<1>2. /\ <<>> \in Seq(LoopItem) /\ <<"exec">> \in Seq(LoopItem)
      /\ <<"exec", "exec">> \in Seq(LoopItem)
      /\ <<"exec", "delete">> \in Seq(LoopItem)
      /\ <<"exec", "errors">> \in Seq(LoopItem)
      /\ <<"fetch", "segments">> \in Seq(LoopItem)
      /\ <<"exec", "volumes", "delete">> \in Seq(LoopItem)
      /\ <<"volumes">> \in Seq(LoopItem) /\ <<"locate">> \in Seq(LoopItem)
      /\ <<"segments_of">> \in Seq(LoopItem)
  <2> HIDE DEF LoopItem
  <2> QED  BY <1>1, Tuples
<1>3. \A b \in LabelsBodies \cup ExpiryBodies : b \in Seq(LoopItem)
  BY <1>2, Zenon DEF LabelsBodies, ExpiryBodies
<1>4. \A b \in VolumesBodies \cup BackupsBodies \cup ObjectsBodies \cup SegmentsBodies :
         b \in Seq(LoopItem)
  BY <1>2, Zenon DEF VolumesBodies, BackupsBodies, ObjectsBodies, SegmentsBodies
<1>5. \A q : \A b \in ReportBodies(q) : b \in Seq(LoopItem)
  BY <1>2, Zenon DEF ReportBodies
<1> QED  BY <1>3, <1>4, <1>5, Zenon DEF Bodies

\* The handlers run statements of the model.
LEMMA HandlersRunItems == \A h \in Handlers : h \in Seq(AnyItem)
<1>1. {"lookup", "exec", "labels", "free", "by_expire", "backups", "equal", "volumes",
       "objects", "known", "objects_of", "tapes"} \cup VerifyQueries \subseteq AnyItem
  BY DEF AnyItem, Queries, Execs, Lookups
<1>2. <<"errors1", "errors2", "objects1", "objects2",
        "vol_obj1", "vol_obj2", "volumes1", "volumes2">> \in Seq(VerifyQueries)
  BY DEF VerifyQueries
<1>3. <<"errors1", "errors2", "objects1", "objects2",
        "vol_obj1", "vol_obj2", "volumes1", "volumes2">> \in Seq(AnyItem)
  BY <1>1, <1>2, SeqMonotonic, Zenon
<1>4. /\ <<"lookup">> \in Seq(AnyItem) /\ <<"lookup", "exec">> \in Seq(AnyItem)
      /\ <<"labels">> \in Seq(AnyItem) /\ <<"free">> \in Seq(AnyItem)
      /\ <<"by_expire">> \in Seq(AnyItem) /\ <<"backups">> \in Seq(AnyItem)
      /\ <<"lookup", "backups">> \in Seq(AnyItem)
      /\ <<"equal", "volumes">> \in Seq(AnyItem)
      /\ <<"objects">> \in Seq(AnyItem)
      /\ <<"known", "objects_of", "tapes">> \in Seq(AnyItem)
  BY <1>1, Tuples
<1> QED  BY <1>3, <1>4, Zenon DEF Handlers

\* Popping shortens a stack by one, and keeps the rest.
LEMMA PopShortens ==
    ASSUME NEW S, NEW s \in Seq(S), Len(s) > 0
    PROVE  /\ Pop(s) \in Seq(S) /\ Len(Pop(s)) = Len(s) - 1
           /\ \A k \in 1 .. Len(s) - 1 : Pop(s)[k] = s[k]
<1>1. Len(s) \in Nat /\ Len(s) - 1 \in Int /\ \A k \in 1 .. Len(s) - 1 : s[k] \in S
  BY LenProperties, ElementOfSeq
<1> DEFINE n == Len(s) - 1
<1>2. n \in Int /\ n >= 0 /\ 1 \in Int /\ \A k \in 1 .. n : s[k] \in S
  BY <1>1
<1> HIDE DEF n
<1>3. /\ SubSeq(s, 1, n) \in Seq(S)
      /\ Len(SubSeq(s, 1, n)) = IF 1 <= n THEN n - 1 + 1 ELSE 0
      /\ \A k \in 1 .. n - 1 + 1 : SubSeq(s, 1, n)[k] = s[1 + k - 1]
  BY <1>2, SubSeqProperties
<1>4. Len(SubSeq(s, 1, n)) = n /\ \A k \in 1 .. n : SubSeq(s, 1, n)[k] = s[k]
  BY <1>2, <1>3
<1> QED  BY <1>3, <1>4 DEF Pop, n

\* A push and a pop cancel.
LEMMA PushPop ==
    ASSUME NEW S, NEW s \in Seq(S), NEW e \in S
    PROVE  /\ Append(s, e) \in Seq(S) /\ Len(Append(s, e)) = Len(s) + 1
           /\ Pop(Append(s, e)) \in Seq(S) /\ Len(Pop(Append(s, e))) = Len(s)
<1>1. /\ Append(s, e) \in Seq(S) /\ Len(Append(s, e)) = Len(s) + 1
      /\ Len(s) \in Nat
  BY AppendProperties, LenProperties
<1>2. Len(Append(s, e)) > 0
  BY <1>1
<1>3. /\ Pop(Append(s, e)) \in Seq(S)
      /\ Len(Pop(Append(s, e))) = Len(Append(s, e)) - 1
  BY <1>1, <1>2, PopShortens
<1> QED  BY <1>1, <1>3

\* The innermost loop is a frame, and what it has still to run are statements.
LEMMA CurrentTypes ==
    ASSUME CursorTypes
    PROVE  /\ Len(frames) \in Nat \ {0} /\ Len(sqlstack) \in Nat
           /\ Current \in Frame /\ Current.todo \in Seq(AnyItem)
           /\ Len(frames) > 1 => Current.todo \in Seq(LoopItem)
<1>1. Len(frames) \in Nat \ {0} /\ Len(sqlstack) \in Nat
  BY LenProperties DEF CursorTypes, FramesTyped
<1>2. Current \in Frame
  BY <1>1, ElementOfSeq DEF CursorTypes, FramesTyped, Current
<1>3. Current.todo \in Seq(AnyItem)
  BY <1>2 DEF Frame
<1>4. Len(frames) > 1 => Current.todo \in Seq(LoopItem)
  BY <1>1 DEF CursorTypes, FramesTyped, Current
<1> QED  BY <1>1, <1>2, <1>3, <1>4

\* The innermost frame changes, the others do not.
LEMMA SetTodoFrames ==
    ASSUME CursorTypes, NEW todo \in Seq(AnyItem)
    PROVE  /\ SetTodo(todo) \in Seq(Frame) /\ Len(SetTodo(todo)) = Len(frames)
           /\ \A k \in 1 .. Len(frames) :
                 /\ SetTodo(todo)[k].query = frames[k].query
                 /\ SetTodo(todo)[k].todo = IF k = Len(frames) THEN todo ELSE frames[k].todo
<1> DEFINE f == [query |-> Current.query, todo |-> todo]
<1>1. f \in Frame
  BY CurrentTypes DEF Frame
<1>2. /\ frames \in Seq(Frame) /\ Len(frames) \in 1 .. Len(frames)
      /\ Len(frames) \in Nat /\ Len(frames) >= 1
  BY CurrentTypes DEF CursorTypes, FramesTyped
<1>3. SetTodo(todo) = [frames EXCEPT ![Len(frames)] = f]
  BY DEF SetTodo
<1> HIDE DEF f
<1>4. /\ SetTodo(todo) \in Seq(Frame) /\ Len(SetTodo(todo)) = Len(frames)
      /\ \A k \in 1 .. Len(frames) :
            SetTodo(todo)[k] = IF k = Len(frames) THEN f ELSE frames[k]
  BY <1>1, <1>2, <1>3, ExceptSeq
<1>5. f.todo = todo /\ f.query = frames[Len(frames)].query
  BY DEF f, Current
<1> QED  BY <1>4, <1>5

\* The number of frames stays, and a loop runs what a loop may run.
LEMMA SetTodoKeeps ==
    ASSUME CursorTypes, NEW todo \in Seq(AnyItem),
           Len(frames) > 1 => todo \in Seq(LoopItem)
    PROVE  FramesTyped(SetTodo(todo)) /\ Len(SetTodo(todo)) = Len(frames)
<1>1. ASSUME NEW k \in 2 .. Len(frames) PROVE SetTodo(todo)[k].todo \in Seq(LoopItem)
  <2>1. /\ k \in 1 .. Len(frames) /\ frames[k].todo \in Seq(LoopItem)
        /\ k = Len(frames) => todo \in Seq(LoopItem)
    BY CurrentTypes DEF CursorTypes, FramesTyped
  <2>2. SetTodo(todo)[k].todo = IF k = Len(frames) THEN todo ELSE frames[k].todo
    BY <2>1, SetTodoFrames
  <2> QED  BY <2>1, <2>2
<1> QED  BY <1>1, CurrentTypes, SetTodoFrames DEF CursorTypes, FramesTyped

\* Going on to the next statement.
LEMMA GoOnKeeps ==
    ASSUME CursorTypes, ~AtEnd
    PROVE  FramesTyped(GoOn) /\ Len(GoOn) = Len(frames)
<1>1. Tail(Current.todo) \in Seq(AnyItem)
  BY CurrentTypes, HeadTailProperties DEF AtEnd
<1>2. Len(frames) > 1 => Tail(Current.todo) \in Seq(LoopItem)
  BY CurrentTypes, HeadTailProperties DEF AtEnd
<1> QED  BY <1>1, <1>2, SetTodoKeeps DEF GoOn

\* Entering a loop.
LEMMA FramesPush ==
    ASSUME NEW fs, FramesTyped(fs), NEW q \in Queries, NEW b \in Bodies(q)
    PROVE  LET gs == Append(fs, [query |-> q, todo |-> b])
           IN  FramesTyped(gs) /\ Len(gs) = Len(fs) + 1
<1> DEFINE f == [query |-> q, todo |-> b]
           gs == Append(fs, f)
<1>1. b \in Seq(LoopItem) /\ b \in Seq(AnyItem)
  BY BodiesOfLoops, LoopItemsAreItems
<1>2. f \in Frame /\ f.todo \in Seq(LoopItem)
  BY <1>1 DEF Frame
<1> HIDE DEF f
<1>3. fs \in Seq(Frame) /\ Len(fs) \in Nat
  BY LenProperties DEF FramesTyped
<1>4. /\ gs \in Seq(Frame) /\ Len(gs) = Len(fs) + 1
      /\ \A k \in 1 .. Len(fs) : gs[k] = fs[k]
      /\ gs[Len(fs) + 1] = f
  BY <1>2, <1>3, AppendProperties
<1>5. \A k \in 2 .. Len(gs) : gs[k].todo \in Seq(LoopItem)
  <2> SUFFICES ASSUME NEW k \in 2 .. Len(gs) PROVE gs[k].todo \in Seq(LoopItem)
    OBVIOUS
  <2> HIDE DEF gs
  <2>1. CASE k = Len(fs) + 1
    BY <2>1, <1>2, <1>4
  <2>2. CASE k # Len(fs) + 1
    BY <2>2, <1>3, <1>4 DEF FramesTyped
  <2> QED  BY <2>1, <2>2
<1>6. Len(gs) >= 1
  BY <1>3, <1>4
<1> QED  BY <1>4, <1>5, <1>6 DEF FramesTyped, f

\* Leaving a loop.
LEMMA FramesPop ==
    ASSUME CursorTypes, Len(frames) > 1
    PROVE  FramesTyped(Pop(frames)) /\ Len(Pop(frames)) = Len(frames) - 1
<1>1. /\ frames \in Seq(Frame) /\ Len(frames) \in Nat
      /\ \A k \in 2 .. Len(frames) : frames[k].todo \in Seq(LoopItem)
  BY CurrentTypes DEF CursorTypes, FramesTyped
<1>2. /\ Pop(frames) \in Seq(Frame) /\ Len(Pop(frames)) = Len(frames) - 1
      /\ \A k \in 1 .. Len(frames) - 1 : Pop(frames)[k] = frames[k]
  BY <1>1, PopShortens
<1>3. \A k \in 2 .. Len(frames) - 1 : Pop(frames)[k].todo \in Seq(LoopItem)
  BY <1>1, <1>2
<1> QED  BY <1>1, <1>2, <1>3 DEF FramesTyped

-----------------------------------------------------------------------------
(* The inductive invariant                                                 *)

\* A process starts with nothing on the stack and no loop open.
LEMMA AccountsInit == Init => Accounts
<1> SUFFICES ASSUME Init PROVE Accounts
  OBVIOUS
<1>1. PICK h \in Handlers : frames = <<[query |-> "none", todo |-> h]>>
  BY DEF Init
<1>2. [query |-> "none", todo |-> h] \in Frame
  BY HandlersRunItems DEF Frame
<1>3. frames \in Seq(Frame) /\ Len(frames) = 1
  BY <1>1, <1>2, Tuples
<1>4. FramesTyped(frames)
  BY <1>3 DEF FramesTyped
<1>5. sqlstack = <<>> /\ sqlstack \in Seq(AnyItem) /\ stuck = 0
  BY EmptySeq DEF Init
<1> QED  BY <1>3, <1>4, <1>5 DEF Accounts, CursorTypes

\* The statement to run is one of the handler's.
LEMMA ItemTyped ==
    ASSUME CursorTypes, NEW items, ToRun(items)
    PROVE  Item \in items /\ Item \in AnyItem /\ ~AtEnd
           /\ (Len(frames) > 1 => Item \in LoopItem)
BY CurrentTypes, HeadTailProperties DEF ToRun, Item, AtEnd

\* db_find's own pop, after a push: one more statement, or none.
LEMMA StepAfterPush ==
    ASSUME CursorTypes, NEW item \in AnyItem, NEW out, NEW equal \in BOOLEAN
    PROVE  LET st == AfterStep(Append(sqlstack, item), out, equal)
           IN  /\ st \in Seq(AnyItem)
               /\ Len(st) = Len(sqlstack) + (IF out = "done" \/ equal THEN 0 ELSE 1)
BY PushPop, CurrentTypes DEF AfterStep, CursorTypes

\* A loop that is entered leaves its statement; one that is not, none unless it failed.
LEMMA FirstKeeps == ASSUME Accounts, First PROVE Accounts'
<1>1. CursorTypes /\ Running /\ stuck >= 0 /\ Len(sqlstack) = Len(frames) - 1 + stuck
  BY DEF First, ToRun, Accounts
<1>2. Item \in Queries /\ Item \in AnyItem /\ ~AtEnd
  BY <1>1, ItemTyped DEF First
<1>3. FramesTyped(GoOn) /\ Len(GoOn) = Len(frames)
  BY <1>1, <1>2, GoOnKeeps
<1>4. PICK out \in Outcomes("step" \in Failures) :
         /\ sqlstack' = AfterStep(Append(sqlstack, Item), out, FALSE)
         /\ CountStuck(out)
         /\ IF out = "row"
            THEN \E b \in Bodies(Item) :
                    frames' = Append(GoOn, [query |-> Item, todo |-> b])
            ELSE frames' = GoOn
  BY DEF First
<1>5. /\ sqlstack' \in Seq(AnyItem)
      /\ Len(sqlstack') = Len(sqlstack) + (IF out = "done" THEN 0 ELSE 1)
  BY <1>1, <1>2, <1>4, StepAfterPush
<1>6. out \in {"row", "done", "err"}
  BY DEF Outcomes
<1>7. FramesTyped(frames') /\ Len(frames') = Len(frames) + (IF out = "row" THEN 1 ELSE 0)
  <2>1. CASE out = "row"
    BY <2>1, <1>2, <1>3, <1>4, FramesPush
  <2>2. CASE out # "row"
    BY <2>2, <1>3, <1>4, <1>1, CurrentTypes
  <2> QED  BY <2>1, <2>2
<1>8. stuck' = stuck + (IF out = "err" THEN 1 ELSE 0)
  BY <1>1, <1>4 DEF CountStuck, CursorTypes
<1>9. /\ Len(frames) \in Nat /\ Len(sqlstack) \in Nat /\ stuck \in Int
  BY <1>1, CurrentTypes DEF CursorTypes
<1>10. stuck' \in Int /\ stuck' >= 0 /\ Len(sqlstack') = Len(frames') - 1 + stuck'
  <2>1. CASE out = "row"
    BY <2>1, <1>1, <1>5, <1>7, <1>8, <1>9
  <2>2. CASE out = "done"
    BY <2>2, <1>1, <1>5, <1>7, <1>8, <1>9
  <2>3. CASE out = "err"
    BY <2>3, <1>1, <1>5, <1>7, <1>8, <1>9
  <2> QED  BY <2>1, <2>2, <2>3, <1>6
<1> QED  BY <1>5, <1>7, <1>10 DEF Accounts, CursorTypes, FramesTyped

\* A statement that cannot be prepared is taken off again.
LEMMA FirstUnpreparedKeeps == ASSUME Accounts, FirstUnprepared PROVE Accounts'
<1>1. CursorTypes /\ Running /\ stuck >= 0 /\ Len(sqlstack) = Len(frames) - 1 + stuck
  BY DEF FirstUnprepared, ToRun, Accounts
<1>2. Item \in AnyItem /\ ~AtEnd
  BY <1>1, ItemTyped DEF FirstUnprepared
<1>3. FramesTyped(frames') /\ Len(frames') = Len(frames)
  BY <1>1, <1>2, GoOnKeeps DEF FirstUnprepared
<1>4. sqlstack' \in Seq(AnyItem) /\ Len(sqlstack') = Len(sqlstack)
  BY <1>1, <1>2, PushPop DEF FirstUnprepared, CursorTypes
<1>5. stuck' = stuck
  BY DEF FirstUnprepared
<1> QED  BY <1>1, <1>3, <1>4, <1>5 DEF Accounts, CursorTypes

\* A loop that goes on, or ends with its statement or with a failed step.
LEMMA AdvanceKeeps == ASSUME Accounts, Advance PROVE Accounts'
<1>1. CursorTypes /\ Running /\ stuck >= 0 /\ Len(sqlstack) = Len(frames) - 1 + stuck
  BY DEF Advance, Accounts
<1>2. Len(frames) \in Nat /\ Len(sqlstack) \in Nat /\ Len(frames) > 1 /\ stuck \in Int
  BY <1>1, CurrentTypes DEF Advance, CursorTypes
<1>3. PICK out \in Outcomes("step" \in Failures) :
         /\ sqlstack' = AfterStep(sqlstack, out, FALSE)
         /\ CountStuck(out)
         /\ IF out = "row" THEN \E b \in Bodies(Current.query) : frames' = SetTodo(b)
                           ELSE frames' = Pop(frames)
  BY DEF Advance
<1>4. stuck' = stuck + (IF out = "err" THEN 1 ELSE 0)
  BY <1>2, <1>3 DEF CountStuck
<1>5. /\ sqlstack' \in Seq(AnyItem)
      /\ Len(sqlstack') = Len(sqlstack) - (IF out = "done" THEN 1 ELSE 0)
  BY <1>1, <1>2, <1>3, PopShortens DEF AfterStep, CursorTypes
<1>6. CASE out = "row"
  <2>1. PICK b \in Bodies(Current.query) : frames' = SetTodo(b)
    BY <1>3, <1>6
  <2>2. b \in Seq(LoopItem) /\ b \in Seq(AnyItem)
    BY BodiesOfLoops, LoopItemsAreItems
  <2>3. FramesTyped(frames') /\ Len(frames') = Len(frames)
    BY <1>1, <2>1, <2>2, SetTodoKeeps
  <2> QED  BY <1>1, <1>2, <1>4, <1>5, <1>6, <2>3 DEF Accounts, CursorTypes
<1>7. CASE out # "row"
  <2>1. FramesTyped(frames') /\ Len(frames') = Len(frames) - 1
    BY <1>1, <1>2, <1>3, <1>7, FramesPop
  <2>2. CASE out = "done"
    BY <1>1, <1>2, <1>4, <1>5, <2>1, <2>2 DEF Accounts, CursorTypes
  <2>3. CASE out = "err"
    BY <1>1, <1>2, <1>4, <1>5, <2>1, <2>3 DEF Accounts, CursorTypes
  <2> QED  BY <1>7, <2>2, <2>3 DEF Outcomes
<1> QED  BY <1>6, <1>7

\* A loop that ends takes one statement with it.
LEMMA LeaveKeeps ==
    ASSUME Accounts, Running, Len(frames) > 1,
           sqlstack' = Pop(sqlstack), frames' = Pop(frames), UNCHANGED stuck
    PROVE  Accounts'
<1>1. CursorTypes /\ stuck >= 0 /\ Len(sqlstack) = Len(frames) - 1 + stuck
  BY DEF Accounts
<1>2. Len(frames) \in Nat /\ Len(sqlstack) \in Nat /\ stuck \in Int
  BY <1>1, CurrentTypes DEF CursorTypes
<1>3. sqlstack' \in Seq(AnyItem) /\ Len(sqlstack') = Len(sqlstack) - 1
  BY <1>1, <1>2, PopShortens DEF CursorTypes
<1>4. FramesTyped(frames') /\ Len(frames') = Len(frames) - 1
  BY <1>1, FramesPop
<1> QED  BY <1>1, <1>2, <1>3, <1>4 DEF Accounts, CursorTypes

\* A statement without a loop leaves the handler with as many loops.
LEMMA ProceedKeeps ==
    ASSUME CursorTypes, ~AtEnd, NEW out, Proceed(out)
    PROVE  FramesTyped(frames') /\ Len(frames') = Len(frames)
<1>1. FramesTyped(GoOn) /\ Len(GoOn) = Len(frames)
  BY GoOnKeeps
<1>2. FramesTyped(SetTodo(<<>>)) /\ Len(SetTodo(<<>>)) = Len(frames)
  BY EmptySeq, SetTodoKeeps
<1> QED  BY <1>1, <1>2 DEF Proceed

\* A statement run in one call leaves nothing.
LEMMA ExecKeeps == ASSUME Accounts, Exec PROVE Accounts'
<1>1. CursorTypes /\ Running /\ stuck >= 0 /\ Len(sqlstack) = Len(frames) - 1 + stuck
  BY DEF Exec, ToRun, Accounts
<1>2. Item \in AnyItem /\ ~AtEnd
  BY <1>1, ItemTyped DEF Exec
<1>3. FramesTyped(frames') /\ Len(frames') = Len(frames)
  BY <1>1, <1>2, ProceedKeeps DEF Exec
<1>4. sqlstack' \in Seq(AnyItem) /\ Len(sqlstack') = Len(sqlstack)
  BY <1>1, <1>2, PushPop DEF Exec, CursorTypes
<1>5. stuck' = stuck
  BY DEF Exec
<1> QED  BY <1>1, <1>3, <1>4, <1>5 DEF Accounts, CursorTypes

\* Nor does a lookup, whose statement is popped even when its step fails.
LEMMA LookupKeeps == ASSUME Accounts, Lookup PROVE Accounts'
<1>1. CursorTypes /\ Running /\ stuck >= 0 /\ Len(sqlstack) = Len(frames) - 1 + stuck
  BY DEF Lookup, ToRun, Accounts
<1>2. Item \in AnyItem /\ ~AtEnd
  BY <1>1, ItemTyped DEF Lookup
<1>3. PICK out \in Outcomes("step" \in Failures) :
         /\ Proceed(out)
         /\ sqlstack' = AfterStep(Append(sqlstack, Item), out, TRUE)
  BY DEF Lookup
<1>4. FramesTyped(frames') /\ Len(frames') = Len(frames)
  BY <1>1, <1>2, <1>3, ProceedKeeps
<1>5. sqlstack' \in Seq(AnyItem) /\ Len(sqlstack') = Len(sqlstack)
  <2>1. sqlstack' = Pop(Append(sqlstack, Item))
    BY <1>3 DEF AfterStep
  <2> QED  BY <1>1, <1>2, <2>1, PushPop DEF CursorTypes
<1>6. stuck' = stuck
  BY DEF Lookup
<1> QED  BY <1>1, <1>4, <1>5, <1>6 DEF Accounts, CursorTypes

\* The second pop takes a statement that a failed step has left, or ends the process:
\* the only lookup inside a loop is "locate", whose handler exits when it fails.
LEMMA LookupUnpreparedKeeps == ASSUME Accounts, LookupUnprepared PROVE Accounts'
<1>1. CursorTypes /\ Running /\ stuck >= 0 /\ Len(sqlstack) = Len(frames) - 1 + stuck
  BY DEF LookupUnprepared, ToRun, Accounts
<1>2. /\ Item \in Lookups /\ ~AtEnd
      /\ Len(frames) > 1 => Item \in LoopItem
  BY <1>1, ItemTyped DEF LookupUnprepared
<1>3. Len(frames) \in Nat \ {0} /\ Len(sqlstack) \in Nat /\ stuck \in Int
  BY <1>1, CurrentTypes DEF CursorTypes
<1>4. CASE sqlstack = <<>>
  <2>1. exited' = "underflow" /\ UNCHANGED <<sqlstack, frames, stuck>>
    <3>1. Pop(<<>>) = <<>>
      <4>1. Len(<<>>) - 1 = -1
        OBVIOUS
      <4> QED  BY <4>1, SubSeqEmpty DEF Pop
    <3> QED  BY <1>4, <3>1 DEF LookupUnprepared
  <2> QED  BY <1>1, <2>1 DEF Accounts, CursorTypes, Running
<1>5. CASE sqlstack # <<>>
  <2>1. sqlstack' = Pop(sqlstack) /\ Proceed("err") /\ stuck' = stuck - 1
    BY <1>5 DEF LookupUnprepared
  <2>2. Len(sqlstack) > 0
    BY <1>1, <1>5, EmptySeq DEF CursorTypes
  <2>3. sqlstack' \in Seq(AnyItem) /\ Len(sqlstack') = Len(sqlstack) - 1
    BY <1>1, <2>1, <2>2, PopShortens DEF CursorTypes
  <2>4. FramesTyped(frames') /\ Len(frames') = Len(frames)
    BY <1>1, <1>2, <2>1, ProceedKeeps
  <2>5. CASE Len(frames) > 1
    <3>1. Item = "locate"
      BY <1>2, <2>5 DEF LoopItem, Lookups, Queries, VerifyQueries, Execs
    <3>2. IfNotFound(Item) = "exit"
      BY <3>1 DEF IfNotFound
    <3>3. exited' = "EBADF"
      BY <2>1, <3>2 DEF Proceed
    <3> QED  BY <1>3, <2>1, <2>3, <2>4, <3>3 DEF Accounts, CursorTypes, Running
  <2>6. CASE Len(frames) <= 1
    BY <1>1, <1>3, <2>1, <2>2, <2>3, <2>4, <2>6 DEF Accounts, CursorTypes
  <2> QED  BY <1>3, <2>5, <2>6
<1> QED  BY <1>4, <1>5

\* The process ends, or nothing happens.
LEMMA EndKeeps ==
    ASSUME Accounts, UNCHANGED <<sqlstack, frames, stuck>>, Running' => Running
    PROVE  Accounts'
BY DEF Accounts, CursorTypes, Running

\* Every step keeps the account.
LEMMA AccountsNext == Accounts /\ [Next]_vars => Accounts'
<1> SUFFICES ASSUME Accounts, [Next]_vars PROVE Accounts'
  OBVIOUS
<1>1. CASE First
  BY <1>1, FirstKeeps
<1>2. CASE FirstUnprepared
  BY <1>2, FirstUnpreparedKeeps
<1>3. CASE Advance
  BY <1>3, AdvanceKeeps
<1>4. CASE AdvanceFailed
  BY <1>4, LeaveKeeps DEF AdvanceFailed
<1>5. CASE Finish
  BY <1>5, LeaveKeeps DEF Finish
<1>6. CASE Exec
  BY <1>6, ExecKeeps
<1>7. CASE Lookup
  BY <1>7, LookupKeeps
<1>8. CASE LookupUnprepared
  BY <1>8, LookupUnpreparedKeeps
<1>9. CASE Overflow
  BY <1>9, EndKeeps DEF Overflow, Running, ToRun
<1>10. CASE Close
  BY <1>10, EndKeeps DEF Close, Running
<1>11. CASE Exited \/ UNCHANGED vars
  BY <1>11, EndKeeps DEF Exited, vars, Running
<1> QED
  BY <1>1, <1>2, <1>3, <1>4, <1>5, <1>6, <1>7, <1>8, <1>9, <1>10, <1>11 DEF Next

-----------------------------------------------------------------------------
(* The theorems                                                            *)

\* In every handler, with a stack of any size and statements failing anywhere, what
\* is on the stack of a running process is a statement for each open loop and one
\* for each step that failed in db_find.
THEOREM StackAccounted == Spec => []StuckStatements
<1>1. Accounts => StuckStatements
  BY DEF Accounts, StuckStatements
<1> QED  BY <1>1, AccountsInit, AccountsNext, PTL DEF Spec

\* And so an open loop always has a statement of its own to step or to pop.
THEOREM CursorsKept == Spec => []LoopsKeepCursors
<1>1. Accounts => LoopsKeepCursors
  <2> SUFFICES ASSUME Accounts, Running PROVE Len(sqlstack) >= Len(frames) - 1
    BY DEF LoopsKeepCursors
  <2>1. Len(frames) \in Nat /\ Len(sqlstack) \in Nat /\ stuck \in Int
    BY CurrentTypes DEF Accounts, CursorTypes
  <2> QED  BY <2>1 DEF Accounts
<1> QED  BY <1>1, AccountsInit, AccountsNext, PTL DEF Spec

-----------------------------------------------------------------------------
(* Loops step their own cursors                                            *)

\* The stack of st is the cursors of the loops in fs.
OwnCursors(st, fs) == \A k \in 1 .. Len(st) : st[k] = fs[k + 1].query

Own == Running /\ stuck = 0 => OwnCursors(sqlstack, frames)

\* What is below the top is still there after a pop, and a push adds on top.
LEMMA PushPopSame ==
    ASSUME NEW S, NEW s \in Seq(S), NEW e \in S
    PROVE  Pop(Append(s, e)) = s
<1>1. /\ Append(s, e) \in Seq(S) /\ Len(Append(s, e)) = Len(s) + 1
      /\ Len(s) \in Nat /\ \A k \in 1 .. Len(s) : Append(s, e)[k] = s[k]
  BY AppendProperties, LenProperties
<1>2. /\ Pop(Append(s, e)) \in Seq(S) /\ Len(Pop(Append(s, e))) = Len(s)
      /\ \A k \in 1 .. Len(s) : Pop(Append(s, e))[k] = Append(s, e)[k]
  <2> DEFINE t == Append(s, e)
  <2>1. t \in Seq(S) /\ Len(t) > 0 /\ Len(t) - 1 = Len(s)
    BY <1>1
  <2> HIDE DEF t
  <2>2. /\ Pop(t) \in Seq(S) /\ Len(Pop(t)) = Len(s)
        /\ \A k \in 1 .. Len(s) : Pop(t)[k] = t[k]
    BY <2>1, PopShortens
  <2> QED  BY <2>2 DEF t
<1> QED  BY <1>1, <1>2, SeqEqual

\* A loop that ends takes its own cursor with it.
LEMMA LeaveOwn ==
    ASSUME CursorTypes, Len(frames) > 1, Len(sqlstack) = Len(frames) - 1,
           OwnCursors(sqlstack, frames)
    PROVE  OwnCursors(Pop(sqlstack), Pop(frames))
<1>1. Len(frames) \in Nat /\ Len(sqlstack) \in Nat /\ Len(sqlstack) > 0
  BY CurrentTypes
<1>2. /\ Len(Pop(sqlstack)) = Len(sqlstack) - 1
      /\ \A k \in 1 .. Len(sqlstack) - 1 : Pop(sqlstack)[k] = sqlstack[k]
      /\ \A k \in 1 .. Len(frames) - 1 : Pop(frames)[k] = frames[k]
  BY <1>1, PopShortens DEF CursorTypes, FramesTyped
<1>3. \A k \in 1 .. Len(sqlstack) - 1 : k + 1 \in 1 .. Len(frames) - 1
  BY <1>1
<1> QED  BY <1>1, <1>2, <1>3 DEF OwnCursors

\* What the innermost loop has still to run does not matter.
LEMMA SetTodoOwn ==
    ASSUME CursorTypes, NEW todo \in Seq(AnyItem), Len(sqlstack) = Len(frames) - 1,
           OwnCursors(sqlstack, frames)
    PROVE  OwnCursors(sqlstack, SetTodo(todo))
<1>1. Len(frames) \in Nat /\ \A k \in 1 .. Len(sqlstack) : k + 1 \in 1 .. Len(frames)
  BY CurrentTypes
<1>2. \A k \in 1 .. Len(frames) : SetTodo(todo)[k].query = frames[k].query
  BY SetTodoFrames
<1> QED  BY <1>1, <1>2 DEF OwnCursors

\* Entering a loop puts its cursor on top.
LEMMA EnterOwn ==
    ASSUME CursorTypes, ~AtEnd, NEW item \in AnyItem, NEW f,
           f \in Frame, f.query = item,
           Len(sqlstack) = Len(frames) - 1, OwnCursors(sqlstack, frames)
    PROVE  OwnCursors(Append(sqlstack, item), Append(GoOn, f))
<1>1. /\ Tail(Current.todo) \in Seq(AnyItem)
      /\ Len(frames) \in Nat \ {0} /\ Len(sqlstack) \in Nat
  BY CurrentTypes, HeadTailProperties DEF AtEnd
<1>2. OwnCursors(sqlstack, GoOn) /\ GoOn \in Seq(Frame) /\ Len(GoOn) = Len(frames)
  BY <1>1, SetTodoOwn, SetTodoFrames DEF GoOn
<1>3. /\ Len(Append(sqlstack, item)) = Len(sqlstack) + 1
      /\ \A k \in 1 .. Len(sqlstack) : Append(sqlstack, item)[k] = sqlstack[k]
      /\ Append(sqlstack, item)[Len(sqlstack) + 1] = item
  BY AppendProperties DEF CursorTypes
<1>4. /\ \A k \in 1 .. Len(frames) : Append(GoOn, f)[k] = GoOn[k]
      /\ Append(GoOn, f)[Len(frames) + 1] = f
  BY <1>2, AppendProperties
<1> SUFFICES ASSUME NEW k \in 1 .. Len(sqlstack) + 1
             PROVE  Append(sqlstack, item)[k] = Append(GoOn, f)[k + 1].query
  BY <1>3 DEF OwnCursors
<1>5. CASE k = Len(sqlstack) + 1
  <2>1. k + 1 = Len(frames) + 1
    BY <1>1, <1>5
  <2> QED  BY <2>1, <1>3, <1>4, <1>5
<1>6. CASE k # Len(sqlstack) + 1
  <2>1. k \in 1 .. Len(sqlstack) /\ k + 1 \in 1 .. Len(frames)
    BY <1>1, <1>6
  <2> QED  BY <2>1, <1>2, <1>3, <1>4 DEF OwnCursors
<1> QED  BY <1>5, <1>6

\* A loop is entered, goes on or ends, or another statement runs: each loop keeps
\* its own cursor.
LEMMA OwnNext == Accounts /\ Own /\ [Next]_vars => Own'
<1> SUFFICES ASSUME Accounts, Own, [Next]_vars, Running', stuck' = 0
             PROVE  OwnCursors(sqlstack', frames')
  BY DEF Own
<1>1. Running
  BY DEF Next, First, FirstUnprepared, Advance, AdvanceFailed, Finish, Exec, Lookup,
         LookupUnprepared, Overflow, Close, Exited, ToRun, Running, vars
<1>2. /\ CursorTypes /\ stuck \in Int /\ stuck >= 0
      /\ Len(sqlstack) = Len(frames) - 1 + stuck
      /\ Len(frames) \in Nat \ {0} /\ Len(sqlstack) \in Nat
  BY <1>1, CurrentTypes DEF Accounts, CursorTypes
<1>3. stuck = 0 => Len(sqlstack) = Len(frames) - 1 /\ OwnCursors(sqlstack, frames)
  BY <1>1, <1>2 DEF Own
<1>4. ASSUME stuck = 0, ~AtEnd, sqlstack' = sqlstack, frames' = GoOn
      PROVE  OwnCursors(sqlstack', frames')
  <2>1. Tail(Current.todo) \in Seq(AnyItem)
    BY <1>2, <1>4, CurrentTypes, HeadTailProperties DEF AtEnd
  <2> QED  BY <1>2, <1>3, <1>4, <2>1, SetTodoOwn DEF GoOn
<1>5. ASSUME stuck = 0, ~AtEnd, sqlstack' = sqlstack, NEW out, Proceed(out)
      PROVE  OwnCursors(sqlstack', frames')
  <2>1. frames' = GoOn \/ frames' = SetTodo(<<>>)
    BY <1>5 DEF Proceed
  <2> QED  BY <1>2, <1>3, <1>4, <1>5, <2>1, SetTodoOwn, EmptySeq
<1>6. CASE First
  <2>1. Item \in Queries /\ Item \in AnyItem /\ ~AtEnd
    BY <1>2, <1>6, ItemTyped DEF First
  <2>2. PICK out \in Outcomes("step" \in Failures) :
           /\ sqlstack' = AfterStep(Append(sqlstack, Item), out, FALSE)
           /\ CountStuck(out)
           /\ IF out = "row"
              THEN \E b \in Bodies(Item) :
                      frames' = Append(GoOn, [query |-> Item, todo |-> b])
              ELSE frames' = GoOn
    BY <1>6 DEF First
  <2>3. out # "err" /\ stuck = 0
    BY <1>2, <2>2 DEF CountStuck
  <2>4. CASE out = "row"
    <3>1. PICK b \in Bodies(Item) : frames' = Append(GoOn, [query |-> Item, todo |-> b])
      BY <2>2, <2>4
    <3>2. b \in Seq(AnyItem)
      BY BodiesOfLoops, LoopItemsAreItems
    <3> DEFINE f == [query |-> Item, todo |-> b]
    <3>3. f \in Frame /\ f.query = Item /\ frames' = Append(GoOn, f)
      BY <2>1, <3>1, <3>2 DEF Frame
    <3> HIDE DEF f
    <3>4. sqlstack' = Append(sqlstack, Item)
      BY <2>2, <2>4 DEF AfterStep
    <3> QED  BY <1>2, <1>3, <2>1, <2>3, <3>3, <3>4, EnterOwn
  <2>5. CASE out = "done"
    <3>1. sqlstack' = sqlstack
      BY <1>2, <2>1, <2>2, <2>5, PushPopSame DEF AfterStep, CursorTypes
    <3> QED  BY <1>4, <2>1, <2>2, <2>3, <2>5, <3>1
  <2> QED  BY <2>2, <2>3, <2>4, <2>5 DEF Outcomes
<1>7. CASE FirstUnprepared
  <2>1. Item \in AnyItem /\ ~AtEnd
    BY <1>2, <1>7, ItemTyped DEF FirstUnprepared
  <2>2. sqlstack' = sqlstack
    BY <1>2, <1>7, <2>1, PushPopSame DEF FirstUnprepared, CursorTypes
  <2> QED  BY <1>4, <1>7, <2>1, <2>2 DEF FirstUnprepared
<1>8. CASE Advance
  <2>1. PICK out \in Outcomes("step" \in Failures) :
           /\ sqlstack' = AfterStep(sqlstack, out, FALSE)
           /\ CountStuck(out)
           /\ IF out = "row" THEN \E b \in Bodies(Current.query) : frames' = SetTodo(b)
                             ELSE frames' = Pop(frames)
    BY <1>8 DEF Advance
  <2>2. out # "err" /\ stuck = 0 /\ Len(frames) > 1
    BY <1>2, <1>8, <2>1 DEF CountStuck, Advance
  <2>3. CASE out = "row"
    <3>1. PICK b \in Bodies(Current.query) : frames' = SetTodo(b)
      BY <2>1, <2>3
    <3>2. b \in Seq(AnyItem) /\ sqlstack' = sqlstack
      BY <2>1, <2>3, BodiesOfLoops, LoopItemsAreItems DEF AfterStep
    <3> QED  BY <1>2, <1>3, <2>2, <3>1, <3>2, SetTodoOwn
  <2>4. CASE out = "done"
    BY <1>2, <1>3, <2>1, <2>2, <2>4, LeaveOwn DEF AfterStep
  <2> QED  BY <2>1, <2>2, <2>3, <2>4 DEF Outcomes
<1>9. CASE AdvanceFailed
  BY <1>2, <1>3, <1>9, LeaveOwn DEF AdvanceFailed
<1>10. CASE Finish
  BY <1>2, <1>3, <1>10, LeaveOwn DEF Finish
<1>11. CASE Exec
  <2>1. Item \in AnyItem /\ ~AtEnd /\ stuck = 0
    BY <1>2, <1>11, ItemTyped DEF Exec
  <2>2. sqlstack' = sqlstack
    BY <1>2, <1>11, <2>1, PushPopSame DEF Exec, CursorTypes
  <2> QED  BY <1>5, <1>11, <2>1, <2>2 DEF Exec
<1>12. CASE Lookup
  <2>1. Item \in AnyItem /\ ~AtEnd /\ stuck = 0
    BY <1>2, <1>12, ItemTyped DEF Lookup
  <2>2. sqlstack' = sqlstack
    BY <1>2, <1>12, <2>1, PushPopSame DEF Lookup, CursorTypes, AfterStep
  <2> QED  BY <1>5, <1>12, <2>1, <2>2 DEF Lookup
\* Outside the loops, with nothing left on the stack.
<1>13. CASE LookupUnprepared
  <2>1. Len(sqlstack') = Len(frames') - 1 /\ Proceed("err")
    <3>1. Accounts'
      BY <1>13, LookupUnpreparedKeeps
    <3>2. Proceed("err")
      BY <1>13 DEF LookupUnprepared, Running
    <3> QED  BY <3>1, <3>2, CurrentTypes DEF Accounts, CursorTypes, FramesTyped
  <2>2. Item \in Lookups /\ ~AtEnd /\ (Len(frames) > 1 => Item \in LoopItem)
    BY <1>2, <1>13, ItemTyped DEF LookupUnprepared
  <2>3. ~(Len(frames) > 1)
    <3>1. IfNotFound("locate") = "exit"
      BY DEF IfNotFound
    <3>2. IfNotFound(Item) # "exit"
      BY <2>1 DEF Proceed, Running
    <3>3. Item # "locate"
      BY <3>1, <3>2
    <3> QED  BY <2>2, <3>3 DEF LoopItem, Lookups, Queries, VerifyQueries, Execs
  <2>4. Len(frames') = Len(frames)
    BY <1>2, <2>1, <2>2, ProceedKeeps
  <2>5. Len(sqlstack') = 0
    BY <1>2, <2>1, <2>3, <2>4
  <2> QED  BY <2>5 DEF OwnCursors
<1>14. CASE Overflow
  BY <1>14 DEF Overflow, Running
<1>15. CASE Close
  BY <1>15 DEF Close, Running
<1>16. CASE Exited \/ UNCHANGED vars
  BY <1>3, <1>16 DEF Exited, vars
<1> QED  BY <1>6, <1>7, <1>8, <1>9, <1>10, <1>11, <1>12, <1>13, <1>14, <1>15, <1>16
         DEF Next

\* As long as no step has failed, in every handler and with a stack of any size,
\* FND_NEXT steps the cursor of the loop that called it.
THEOREM CursorsOwn == Spec => []CursorsAreOwn
<1>1. Init => Own
  <2> SUFFICES ASSUME Init PROVE OwnCursors(sqlstack, frames)
    BY DEF Own
  <2>1. Len(sqlstack) = 0
    BY EmptySeq DEF Init
  <2> QED  BY <2>1 DEF OwnCursors
<1>2. Accounts /\ Own => CursorsAreOwn
  <2> SUFFICES ASSUME Accounts, Own, Running, stuck = 0
               PROVE  sqlstack = [k \in 1 .. Len(frames) - 1 |-> frames[k + 1].query]
    BY DEF CursorsAreOwn
  <2>1. /\ sqlstack \in Seq(AnyItem) /\ Len(sqlstack) = Len(frames) - 1
        /\ Len(frames) \in Nat
    BY CurrentTypes DEF Accounts, CursorTypes
  <2>2. sqlstack = [k \in 1 .. Len(sqlstack) |-> sqlstack[k]]
    BY <2>1
  <2>3. \A k \in 1 .. Len(sqlstack) : sqlstack[k] = frames[k + 1].query
    BY DEF Own, OwnCursors
  <2> QED  BY <2>1, <2>2, <2>3
<1> QED  BY <1>1, <1>2, AccountsInit, AccountsNext, OwnNext, PTL DEF Spec

-----------------------------------------------------------------------------
(* How deep a handler goes                                                 *)

\* The slots a statement takes with everything its loop runs.
Need(item) ==
    CASE item \in {"backups", "by_expire", "objects", "objects_of"}             -> 3
      [] item \in {"delete", "volumes", "labels", "segments", "segments_of", "tapes"} -> 2
      [] OTHER                                                                  -> 1

\* The statements that n slots are enough for.
Fits(n) == {item \in AnyItem : Need(item) <= n}

\* Within k - 1 open loops there are three slots less k - 1 left, and the loop
\* itself was opened when there was one more.
FramesFit(fs) ==
    \A k \in 1 .. Len(fs) :
        /\ fs[k].todo \in Seq(Fits(4 - k))
        /\ k > 1 => fs[k].query \in Queries /\ Need(fs[k].query) <= 5 - k

Shallow ==
    /\ Running => FramesFit(frames)
    /\ ExitsNeedFailures

\* A transaction keeps a slot under its updates, anything else takes one.
LEMMA DepthNeeded == \A item : Need(item) \in 1 .. 3 /\ Depth(item) <= Need(item)
BY DEF Need, Depth

\* More slots are enough for more.
LEMMA FitsMore ==
    ASSUME NEW m \in Int, NEW n \in Int, m <= n, NEW s \in Seq(Fits(m))
    PROVE  s \in Seq(Fits(n))
<1>1. \A item : Need(item) \in Int
  BY DepthNeeded
<1>2. Fits(m) \subseteq Fits(n)
  BY <1>1 DEF Fits
<1> QED  BY <1>2, SeqMonotonic, Zenon

\* What a loop runs for a row needs less than the loop.
LEMMA BodiesFit == \A q \in Queries : \A b \in Bodies(q) : b \in Seq(Fits(Need(q) - 1))
<1> SUFFICES ASSUME NEW q \in Queries, NEW b \in Bodies(q)
             PROVE  b \in Seq(Fits(Need(q) - 1))
  OBVIOUS
<1>1. {"exec", "fetch", "locate", "errors"} \subseteq Fits(1)
  BY DEF Fits, Need, AnyItem, Queries, Execs, Lookups
<1>2. {"exec", "fetch", "delete", "volumes", "segments", "segments_of"} \subseteq Fits(2)
  BY DEF Fits, Need, AnyItem, Queries, Execs, Lookups
<1>3. /\ <<>> \in Seq(Fits(0)) /\ <<>> \in Seq(Fits(1)) /\ <<>> \in Seq(Fits(2))
      /\ <<"exec">> \in Seq(Fits(1)) /\ <<"exec", "exec">> \in Seq(Fits(1))
      /\ <<"locate">> \in Seq(Fits(1)) /\ <<"exec", "errors">> \in Seq(Fits(1))
      /\ <<"exec", "delete">> \in Seq(Fits(2))
      /\ <<"exec", "volumes", "delete">> \in Seq(Fits(2))
      /\ <<"volumes">> \in Seq(Fits(2)) /\ <<"segments_of">> \in Seq(Fits(2))
      /\ <<"fetch", "segments">> \in Seq(Fits(2))
  BY <1>1, <1>2, Tuples
<1> HIDE DEF Fits
<1>4. CASE q \in {"backups", "by_expire", "objects", "objects_of"}
  <2>1. Need(q) - 1 = 2
    BY <1>4 DEF Need
  <2>2. b \in Seq(Fits(2))
    BY <1>3, <1>4 DEF Bodies, BackupsBodies, ExpiryBodies, ObjectsBodies, ReportBodies
  <2> QED  BY <2>1, <2>2
<1>5. CASE q \in {"volumes", "labels", "segments", "segments_of", "tapes"}
  <2>1. Need(q) - 1 = 1
    BY <1>5 DEF Need
  <2>2. b \in Seq(Fits(1))
    BY <1>3, <1>5 DEF Bodies, VolumesBodies, LabelsBodies, SegmentsBodies, ReportBodies
  <2> QED  BY <2>1, <2>2
<1>6. CASE q \notin {"backups", "by_expire", "objects", "objects_of",
                     "volumes", "labels", "segments", "segments_of", "tapes"}
  <2>1. q # "delete"
    BY DEF Queries, VerifyQueries
  <2>2. Need(q) - 1 = 0
    BY <1>6, <2>1 DEF Need
  <2>3. b \in Seq(Fits(0))
    BY <1>3, <1>6 DEF Bodies, ReportBodies
  <2> QED  BY <2>2, <2>3
<1> QED  BY <1>4, <1>5, <1>6

\* Three slots are enough for every handler.
LEMMA HandlersFit == \A h \in Handlers : h \in Seq(Fits(3))
<1>1. \A item \in AnyItem : item \in Fits(3)
  BY DepthNeeded DEF Fits
<1>2. AnyItem \subseteq Fits(3)
  BY <1>1
<1> QED  BY <1>2, HandlersRunItems, SeqMonotonic, Zenon

\* The innermost loop runs something else that fits.
LEMMA SetTodoFits ==
    ASSUME CursorTypes, FramesFit(frames), NEW todo \in Seq(AnyItem),
           todo \in Seq(Fits(4 - Len(frames)))
    PROVE  FramesFit(SetTodo(todo))
<1> SUFFICES ASSUME NEW k \in 1 .. Len(frames)
             PROVE  /\ SetTodo(todo)[k].todo \in Seq(Fits(4 - k))
                    /\ k > 1 => /\ SetTodo(todo)[k].query \in Queries
                                /\ Need(SetTodo(todo)[k].query) <= 5 - k
  BY SetTodoFrames DEF FramesFit
<1>1. /\ SetTodo(todo)[k].query = frames[k].query
      /\ SetTodo(todo)[k].todo = IF k = Len(frames) THEN todo ELSE frames[k].todo
  BY SetTodoFrames
<1>2. /\ frames[k].todo \in Seq(Fits(4 - k))
      /\ k > 1 => frames[k].query \in Queries /\ Need(frames[k].query) <= 5 - k
  BY DEF FramesFit
<1> QED  BY <1>1, <1>2

\* The rest of what it runs fits as well.
LEMMA GoOnFits ==
    ASSUME CursorTypes, FramesFit(frames), ~AtEnd
    PROVE  FramesFit(GoOn) /\ Item \in Fits(4 - Len(frames))
<1>1. Current.todo \in Seq(Fits(4 - Len(frames))) /\ Current.todo \in Seq(AnyItem)
  BY CurrentTypes DEF FramesFit, Current
<1>2. /\ Tail(Current.todo) \in Seq(Fits(4 - Len(frames)))
      /\ Tail(Current.todo) \in Seq(AnyItem)
      /\ Head(Current.todo) \in Fits(4 - Len(frames))
  BY <1>1, HeadTailProperties DEF AtEnd
<1> QED  BY <1>2, SetTodoFits DEF GoOn, Item

\* And so does a loop that is opened for it.
LEMMA EnterFits ==
    ASSUME CursorTypes, FramesFit(frames), ~AtEnd, Item \in Queries,
           NEW b \in Bodies(Item)
    PROVE  FramesFit(Append(GoOn, [query |-> Item, todo |-> b]))
<1> DEFINE f == [query |-> Item, todo |-> b]
           n == Len(frames)
<1>1. n \in Nat \ {0} /\ Need(Item) <= 4 - n /\ Need(Item) \in Int
  BY CurrentTypes, GoOnFits, DepthNeeded DEF Fits
<1>2. b \in Seq(Fits(4 - (n + 1)))
  <2>1. b \in Seq(Fits(Need(Item) - 1))
    BY BodiesFit
  <2>2. Need(Item) - 1 \in Int /\ 4 - (n + 1) \in Int /\ Need(Item) - 1 <= 4 - (n + 1)
    BY <1>1
  <2> QED  BY <2>1, <2>2, FitsMore
<1>3. f \in Frame /\ f.query = Item /\ f.todo = b
  BY BodiesOfLoops, LoopItemsAreItems DEF Frame
<1>4. GoOn \in Seq(Frame) /\ Len(GoOn) = n /\ FramesFit(GoOn)
  BY GoOnFits, GoOnKeeps DEF FramesTyped
<1> HIDE DEF f, n
<1>5. /\ Len(Append(GoOn, f)) = n + 1
      /\ \A k \in 1 .. n : Append(GoOn, f)[k] = GoOn[k]
      /\ Append(GoOn, f)[n + 1] = f
  BY <1>3, <1>4, AppendProperties
<1> SUFFICES ASSUME NEW k \in 1 .. n + 1
             PROVE  /\ Append(GoOn, f)[k].todo \in Seq(Fits(4 - k))
                    /\ k > 1 => /\ Append(GoOn, f)[k].query \in Queries
                                /\ Need(Append(GoOn, f)[k].query) <= 5 - k
  BY <1>5 DEF FramesFit, f
<1>6. CASE k = n + 1
  <2>1. 5 - (n + 1) = 4 - n
    BY <1>1
  <2> QED  BY <1>1, <1>2, <1>3, <1>5, <1>6, <2>1
<1>7. CASE k # n + 1
  <2>1. k \in 1 .. n
    BY <1>1, <1>7
  <2> QED  BY <1>4, <1>5, <2>1 DEF FramesFit
<1> QED  BY <1>6, <1>7

\* Leaving a loop.
LEMMA LeaveFits ==
    ASSUME CursorTypes, FramesFit(frames), Len(frames) > 1
    PROVE  FramesFit(Pop(frames))
<1>1. /\ Len(Pop(frames)) = Len(frames) - 1 /\ Len(frames) \in Nat
      /\ \A k \in 1 .. Len(frames) - 1 : Pop(frames)[k] = frames[k]
  BY CurrentTypes, PopShortens DEF CursorTypes, FramesTyped
<1> QED  BY <1>1 DEF FramesFit

\* No step goes deeper than three, and one that ends the process for want of slots,
\* or with statements left, has failed steps to blame.
LEMMA ShallowNext == Accounts /\ Shallow /\ [Next]_vars => Shallow'
<1> SUFFICES ASSUME Accounts, Shallow, [Next]_vars PROVE Shallow'
  OBVIOUS
<1>1. /\ CursorTypes /\ Len(frames) \in Nat \ {0} /\ Len(sqlstack) \in Nat /\ stuck \in Int
      /\ Running => /\ stuck >= 0 /\ Len(sqlstack) = Len(frames) - 1 + stuck
                    /\ FramesFit(frames)
  BY CurrentTypes DEF Accounts, CursorTypes, Shallow
<1>2. ASSUME FramesFit(frames'), exited' \notin {"overflow", "busy"}
      PROVE  Shallow'
  BY <1>2 DEF Shallow, ExitsNeedFailures
<1>3. Running => exited = "no"
  BY DEF Running
<1>4. ASSUME Running, ~AtEnd, NEW out, Proceed(out)
      PROVE  FramesFit(frames') /\ exited' \notin {"overflow", "busy"}
  <2>1. FramesFit(GoOn)
    BY <1>1, <1>4, GoOnFits
  <2>2. FramesFit(SetTodo(<<>>))
    BY <1>1, <1>4, SetTodoFits, EmptySeq
  <2> QED  BY <1>4, <2>1, <2>2 DEF Proceed
<1>5. CASE First
  <2>1. Running /\ Item \in Queries /\ ~AtEnd
    BY <1>1, <1>5, ItemTyped DEF First, ToRun
  <2>2. \/ \E b \in Bodies(Item) : frames' = Append(GoOn, [query |-> Item, todo |-> b])
        \/ frames' = GoOn
    BY <1>5 DEF First
  <2>3. FramesFit(frames')
    BY <1>1, <2>1, <2>2, GoOnFits, EnterFits
  <2> QED  BY <1>2, <1>3, <1>5, <2>1, <2>3 DEF First
<1>6. CASE FirstUnprepared
  <2>1. Running /\ ~AtEnd
    BY <1>6 DEF FirstUnprepared, ToRun
  <2> QED  BY <1>1, <1>2, <1>3, <1>6, <2>1, GoOnFits DEF FirstUnprepared
<1>7. CASE Advance
  <2>1. Running /\ Len(frames) > 1
    BY <1>7 DEF Advance
  <2>2. CASE \E b \in Bodies(Current.query) : frames' = SetTodo(b)
    <3>1. PICK b \in Bodies(Current.query) : frames' = SetTodo(b)
      BY <2>2
    <3>2. /\ Current.query \in Queries /\ Need(Current.query) <= 5 - Len(frames)
          /\ Need(Current.query) \in Int
      BY <1>1, <2>1, DepthNeeded DEF FramesFit, Current
    <3>3. b \in Seq(Fits(Need(Current.query) - 1)) /\ b \in Seq(AnyItem)
      BY <3>2, BodiesFit, BodiesOfLoops, LoopItemsAreItems
    <3>4. /\ Need(Current.query) - 1 \in Int /\ 4 - Len(frames) \in Int
          /\ Need(Current.query) - 1 <= 4 - Len(frames)
      BY <1>1, <3>2
    <3>5. b \in Seq(Fits(4 - Len(frames)))
      BY <3>3, <3>4, FitsMore
    <3>6. FramesFit(frames')
      BY <1>1, <2>1, <3>1, <3>3, <3>5, SetTodoFits
    <3> QED  BY <1>2, <1>3, <1>7, <2>1, <3>6 DEF Advance
  <2>3. CASE frames' = Pop(frames)
    BY <1>1, <1>2, <1>3, <1>7, <2>1, <2>3, LeaveFits DEF Advance
  <2> QED  BY <1>7, <2>2, <2>3 DEF Advance
<1>8. CASE AdvanceFailed
  BY <1>1, <1>2, <1>3, <1>8, LeaveFits DEF AdvanceFailed
<1>9. CASE Finish
  BY <1>1, <1>2, <1>3, <1>9, LeaveFits DEF Finish
<1>10. CASE Exec
  BY <1>2, <1>4, <1>10 DEF Exec, ToRun
<1>11. CASE Lookup
  BY <1>2, <1>4, <1>11 DEF Lookup, ToRun
<1>12. CASE LookupUnprepared
  <2>1. CASE sqlstack = <<>>
    BY <1>1, <1>2, <1>12, <2>1 DEF LookupUnprepared, ToRun
  <2>2. CASE sqlstack # <<>>
    BY <1>2, <1>4, <1>12, <2>2 DEF LookupUnprepared, ToRun
  <2> QED  BY <2>1, <2>2
\* The handler has one slot for each open loop, and none is left for Item.
<1>13. CASE Overflow
  <2>1. Running /\ ~AtEnd /\ Len(sqlstack) + Depth(Item) > SQL_MAX
    BY <1>1, <1>13, DepthNeeded, CursorAssumption DEF Overflow, ToRun, Room, Depth
  <2>2. Item \in Fits(4 - Len(frames))
    BY <1>1, <2>1, GoOnFits
  <2>3. Need(Item) <= 4 - Len(frames) /\ Depth(Item) <= Need(Item)
    BY <2>2, DepthNeeded DEF Fits
  <2>4. Depth(Item) \in Int /\ Need(Item) \in Int
    BY DepthNeeded DEF Depth
  <2>5. stuck + 3 > SQL_MAX
    <3> DEFINE d == Depth(Item)
               m == Need(Item)
               f == Len(frames)
               t == Len(sqlstack)
    <3>1. /\ d \in Int /\ m \in Int /\ f \in Int /\ t \in Int /\ stuck \in Int /\ SQL_MAX \in Int
          /\ t + d > SQL_MAX /\ m <= 4 - f /\ d <= m /\ t = f - 1 + stuck
      BY <1>1, <2>1, <2>3, <2>4, CursorAssumption
    <3> HIDE DEF d, m, f, t
    <3> QED  BY <3>1
  <2> QED  BY <1>13, <2>5 DEF Overflow, Shallow, Running, ExitsNeedFailures
<1>14. CASE Close
  <2>1. Running /\ Len(frames) = 1 /\ stuck' = stuck
    BY <1>14 DEF Close
  <2>2. exited' = "busy" => stuck > 0
    <3> SUFFICES ASSUME sqlstack # <<>> PROVE stuck > 0
      BY <1>14 DEF Close
    <3>1. Len(sqlstack) # 0
      BY <1>1, EmptySeq DEF CursorTypes
    <3> QED  BY <1>1, <2>1, <3>1
  <2> QED  BY <1>14, <2>1, <2>2 DEF Close, Shallow, Running, ExitsNeedFailures
<1>15. CASE Exited \/ UNCHANGED vars
  BY <1>15 DEF Exited, vars, Shallow, Running, FramesFit, ExitsNeedFailures
<1> QED  BY <1>5, <1>6, <1>7, <1>8, <1>9, <1>10, <1>11, <1>12, <1>13, <1>14, <1>15
         DEF Next

\* Whatever size the stack has, a process runs out of slots only when fewer than
\* three are left beside those of failed steps, and SQLite refuses to close the
\* catalogue only when a step has failed.
THEOREM ExitsBlameFailures == Spec => []ExitsNeedFailures
<1>1. Init => Shallow
  <2> SUFFICES ASSUME Init PROVE FramesFit(frames) /\ ExitsNeedFailures
    BY DEF Shallow
  <2>1. PICK h \in Handlers : frames = <<[query |-> "none", todo |-> h]>>
    BY DEF Init
  <2>2. h \in Seq(Fits(3))
    BY HandlersFit
  <2>3. Len(frames) = 1 /\ frames[1].todo = h
    BY <2>1
  <2>4. FramesFit(frames)
    BY <2>2, <2>3 DEF FramesFit
  <2> QED  BY <2>4 DEF Init, ExitsNeedFailures
<1>2. Shallow => ExitsNeedFailures
  BY DEF Shallow
<1> QED  BY <1>1, <1>2, AccountsInit, AccountsNext, ShallowNext, PTL DEF Spec
=============================================================================
