--------------------------- MODULE PipelineProofs ---------------------------
(***************************************************************************)
(* That drafts have no hole, for any number of sessions, ingests, workers, *)
(* `now` processes without the lock, ending sessions, commands, deaths and *)
(* forgets, and any policy.  Assumed is only that ingests of one session   *)
(* do not overlap.  PInv is the invariant; the lemmas up to Gentle say     *)
(* what each kind of step may do to it, those after it take the steps one  *)
(* by one.                                                                 *)
(***************************************************************************)
EXTENDS Pipeline, IngestProofs

----------------------------------------------------------------------------
\* Workers, and the rows they carry

IsWorker(x) ==
  /\ DOMAIN x = {"pc", "tick", "todo", "id", "row", "evs"}
  /\ x = [field \in DOMAIN x |-> x[field]]
  /\ x.id \in BatchIds /\ IsRow(x.row)
  /\ \A t \in x.todo : t[1] \in BatchIds /\ IsRow(t[2])

WorkersKeepShape ==
  /\ worker = [p \in Summarizers |-> worker[p]]
  /\ \A p \in Summarizers : IsWorker(worker[p])

DraftShape == \A d \in drafts : DOMAIN d = {"id", "batch", "built", "status"}

PShape == Shape /\ WorkersKeepShape /\ DraftShape

\* The row of a batch is of session s, or was until it was deleted.
Owns(id, s) ==
  /\ batches[id].status # "absent"
  /\ batches[id].status # "deleted" => batches[id].session = s

\* A step that keeps rows and their sessions, but for deleting them.
Lasting ==
  \A id \in BatchIds : batches[id].status # "absent" =>
    /\ batches'[id].status # "absent"
    /\ batches'[id].status # "deleted" =>
         batches[id].status # "deleted" /\ batches'[id].session = batches[id].session

\* A worker that has taken a batch off its list.
HasRow == {"claim", "call", "save", "finish"}

\* What an ingest, a list, a worker carries.
HookOwned(x) ==
  x.pc \in HasBatch =>
    /\ Owns(x.id, x.ev.session)
    /\ x.row.session = x.ev.session
    /\ x.row.status \in {"open", "pending_summary"}
TodoOwned(todo) == \A t \in todo : Owns(t[1], t[2].session)
WorkerOwned(x) ==
  TodoOwned(x.todo) /\ (x.pc \in HasRow => Owns(x.id, x.row.session))

EventsOwned == \A r \in events : r.batch \in BatchIds /\ Owns(r.batch, r.ev.session)
HooksOwned == \A h \in Hooks : HookOwned(hook[h])
ClosersOwned == \A c \in Closers : TodoOwned(closer[c].todo)
WorkersOwned == \A p \in Summarizers : WorkerOwned(worker[p])
OwnInv == EventsOwned /\ HooksOwned /\ ClosersOwned /\ WorkersOwned

\* What was owned is owned after a lasting step.
LEMMA StillOwned ==
  ASSUME Lasting, NEW id \in BatchIds, NEW s, Owns(id, s)
  PROVE  /\ batches'[id].status # "absent"
         /\ batches'[id].status # "deleted" => batches'[id].session = s
BY DEF Lasting, Owns

\* Rows nobody writes.
LEMMA RowsSame ==
  ASSUME PShape, batches' = batches
  PROVE  RowsKeepShape /\ Lasting
BY SameRows DEF PShape, Lasting

\* A row written back by someone who has it.
LEMMA Rewritten ==
  ASSUME PShape, NEW id \in BatchIds, NEW b, IsRow(b), Owns(id, b.session),
         b.status \in LiveStatus, batches' = UpdateBatch(id, b)
  PROVE  RowsKeepShape /\ Lasting
<1>1. /\ RowsKeepShape /\ \A i \in BatchIds : i # id => batches'[i] = batches[i]
      /\ batches'[id] \in {batches[id], b}
      /\ batches[id].status \notin NoRow => batches'[id] = b
  BY WriteRow DEF PShape, RowsKeepShape
<1>2. batches[id].status \in NoRow => batches'[id] = batches[id]
  BY DEF UpdateBatch
<1>3. b.status \notin NoRow
  BY DEF LiveStatus, NoRow
<1> QED BY <1>1, <1>2, <1>3 DEF Lasting, Owns, NoRow

\* A row written back closed.
LEMMA ClosedBack ==
  ASSUME PShape, NEW id \in BatchIds, NEW b, IsRow(b), Owns(id, b.session),
         batches' = UpdateBatch(id, Closed(b))
  PROVE  RowsKeepShape /\ Lasting
<1>1. /\ IsRow(Closed(b)) /\ Closed(b).session = b.session
      /\ Closed(b).status \in {"pending_summary", "skipped"}
  BY ClosedRow
<1> DEFINE c == Closed(b)
<1> HIDE DEF c
<1>2. IsRow(c) /\ c.session = b.session /\ c.status \in {"pending_summary", "skipped"}
      /\ batches' = UpdateBatch(id, c)
  BY <1>1 DEF c
<1> QED BY <1>2, Rewritten DEF LiveStatus

\* A new row.
LEMMA NewRow ==
  ASSUME PShape, NEW h \in Hooks, Create(h)
  PROVE  /\ RowsKeepShape /\ Lasting
         /\ NewId \in BatchIds /\ batches'[NewId].status = "open"
         /\ batches'[NewId].session = hook[h].ev.session
<1>1. NewId \in BatchIds /\ batches[NewId].status = "absent"
      /\ batches' = CreateBatch(NewId, Opened(hook[h].ev))
  BY CreateEffect DEF PShape, Create, FreshIds
<1>2. IsRow(Opened(hook[h].ev)) /\ Opened(hook[h].ev).session = hook[h].ev.session
      /\ Opened(hook[h].ev).status = "open"
  BY OpenedRow
<1>3. /\ \A i \in BatchIds : i # NewId => batches'[i] = batches[i]
      /\ batches'[NewId] = Opened(hook[h].ev)
  BY <1>1 DEF PShape, Shape, CreateBatch
<1>4. RowsKeepShape
  BY <1>1, <1>2, WriteRow DEF PShape, RowsKeepShape
<1> QED BY <1>1, <1>2, <1>3, <1>4 DEF Lasting

\* Forgetting keeps a row or deletes it.
LEMMA ForgetLasts ==
  ASSUME PShape, Forget
  PROVE  RowsKeepShape /\ Lasting
<1>1. CASE batches' = batches
  BY <1>1, RowsSame
<1>2. ASSUME NEW left, batches' = [id \in BatchIds |-> Recounted(id, left)]
      PROVE  RowsKeepShape /\ Lasting
  <2>1. RowsKeepShape
    BY <1>2, RecountedRow DEF PShape, Shape, RowsKeepShape
  <2>2. ASSUME NEW id \in BatchIds
        PROVE  /\ \/ batches'[id].status = "deleted"
                  \/ /\ batches'[id].status = batches[id].status
                     /\ batches'[id].session = batches[id].session
               /\ batches[id].status = "deleted" => batches'[id].status = "deleted"
    <3>1. IsRow(batches[id]) /\ batches'[id] = Recounted(id, left)
      BY <1>2 DEF PShape, Shape
    <3> QED BY <3>1, RecountedKeeps
  <2> QED BY <2>1, <2>2 DEF Lasting
<1>3. batches' = batches \/ \E left : batches' = [id \in BatchIds |-> Recounted(id, left)]
  BY DEF Forget, ForgetSession, ForgetSince, DeleteEvents, DeleteLastEvents
<1> QED BY <1>1, <1>2, <1>3

----------------------------------------------------------------------------
\* Whose the rows are

\* What is carried over a lasting step stays owned.
LEMMA Carried ==
  ASSUME PShape, Lasting
  PROVE  /\ \A x : IsHook(x) /\ HookOwned(x) => HookOwned(x)'
         /\ \A todo : (\A t \in todo : t[1] \in BatchIds) /\ TodoOwned(todo) => TodoOwned(todo)'
         /\ \A x : IsWorker(x) /\ WorkerOwned(x) => WorkerOwned(x)'
<1>1. \A id \in BatchIds : \A s : Owns(id, s) => Owns(id, s)'
  BY StillOwned DEF Owns
<1>2. \A todo : (\A t \in todo : t[1] \in BatchIds) /\ TodoOwned(todo) => TodoOwned(todo)'
  BY <1>1 DEF TodoOwned
<1>3. \A x : IsHook(x) /\ HookOwned(x) => HookOwned(x)'
  BY <1>1 DEF HookOwned, IsHook
<1>4. \A x : IsWorker(x) /\ WorkerOwned(x) => WorkerOwned(x)'
  BY <1>1, <1>2 DEF WorkerOwned, IsWorker
<1> QED BY <1>2, <1>3, <1>4

\* Events that stay, and the one an ingest stores.
LEMMA StoredOwned ==
  ASSUME PShape, OwnInv, Lasting,
         \A r \in events' : r \in events \/
           \E h \in Hooks : hook[h].pc \in HasBatch /\ r.batch = hook[h].id /\ r.ev = hook[h].ev
  PROVE  EventsOwned'
<1>1. \A id \in BatchIds : \A s : Owns(id, s) => Owns(id, s)'
  BY StillOwned DEF Owns
<1>2. \A h \in Hooks : hook[h].pc \in HasBatch =>
        hook[h].id \in BatchIds /\ Owns(hook[h].id, hook[h].ev.session)
  BY DEF PShape, Shape, IsHook, OwnInv, HooksOwned, HookOwned
<1>3. \A r \in events' : r.batch \in BatchIds /\ Owns(r.batch, r.ev.session)
  BY <1>2 DEF OwnInv, EventsOwned
<1> QED BY <1>1, <1>3 DEF EventsOwned

\* A step of ingest h, which leaves the closing processes and workers alone.
LEMMA OwnHook ==
  ASSUME PShape, OwnInv, Lasting, NEW h \in Hooks, Others(h), HookOwned(hook[h])',
         \A r \in events' : r \in events \/
           (hook[h].pc \in HasBatch /\ r.batch = hook[h].id /\ r.ev = hook[h].ev),
         closer' = closer, worker' = worker
  PROVE  OwnInv'
<1>1. EventsOwned'
  BY StoredOwned
<1>2. HooksOwned'
  <2>1. \A g \in Hooks : HookOwned(hook[g])'
    <3> SUFFICES ASSUME NEW g \in Hooks, g # h PROVE HookOwned(hook[g])'
      OBVIOUS
    <3>1. PICK x : x = hook[g]
      OBVIOUS
    <3>2. IsHook(x) /\ HookOwned(x)
      BY <3>1 DEF PShape, Shape, OwnInv, HooksOwned
    <3>3. HookOwned(x)'
      BY <3>2, Carried
    <3>4. hook'[g] = x
      BY <3>1 DEF Others
    <3> QED BY <3>3, <3>4 DEF HookOwned, Owns
  <2> QED BY <2>1 DEF HooksOwned
<1>3. ClosersOwned'
  BY Carried DEF PShape, Shape, IsCloser, OwnInv, ClosersOwned
<1>4. WorkersOwned'
  <2>1. \A p \in Summarizers : IsWorker(worker[p]) /\ WorkerOwned(worker[p])
    BY DEF PShape, WorkersKeepShape, OwnInv, WorkersOwned
  <2> QED BY <2>1, Carried DEF WorkersOwned, WorkerOwned, TodoOwned, Owns
<1> QED BY <1>1, <1>2, <1>3, <1>4 DEF OwnInv

\* The rows an ingest reads, makes and writes are of its session.
LEMMA OwnIngest ==
  ASSUME PShape, OwnInv, NEW h \in Hooks, worker' = worker,
         (\E s \in Sessions : StartIngest(h, s)) \/ HookStep(h) \/ KillIngest(h)
  PROVE  OwnInv' /\ Lasting
<1>0. PICK id \in BatchIds : id = hook[h].id
  BY DEF PShape, Shape, IsHook
<1>1. IsRow(hook[h].row) /\ HookOwned(hook[h]) /\ Shape
  BY DEF PShape, Shape, IsHook, OwnInv, HooksOwned
<1>2. ASSUME NEW s \in Sessions, StartIngest(h, s) PROVE OwnInv' /\ Lasting
  <2>1. /\ Others(h) /\ hook'[h].pc = "open" /\ UNCHANGED <<batches, events, closer>>
    BY <1>1, <1>2, StartEffect DEF StartIngest, journalVars
  <2>2. HookOwned(hook[h])'
    BY <2>1 DEF HookOwned, HasBatch
  <2> QED BY <2>1, <2>2, RowsSame, OwnHook
<1>3. CASE ReadOpen(h)
  <2>1. Others(h) /\ UNCHANGED <<batches, events, closer>>
    BY <1>1, <1>3, ReadOpenEffect DEF ReadOpen, journalVars
  <2>2. CASE hook'[h].pc = "create"
    <3>1. HookOwned(hook[h])'
      BY <2>2 DEF HookOwned, HasBatch
    <3> QED BY <2>1, <3>1, RowsSame, OwnHook
  <2>3. CASE \E i \in OpenOf(hook[h].ev.session) :
               hook'[h].id = i /\ hook'[h].row = batches[i] /\ hook'[h].ev = hook[h].ev
    <3>1. PICK i \in OpenOf(hook[h].ev.session) :
            hook'[h].id = i /\ hook'[h].row = batches[i] /\ hook'[h].ev = hook[h].ev
      BY <2>3
    <3>2. batches'[i].status = "open" /\ batches'[i].session = hook[h].ev.session
          /\ batches[i] = batches'[i]
      BY <2>1 DEF OpenOf, Listed
    <3>3. HookOwned(hook[h])'
      BY <3>1, <3>2 DEF HookOwned, Owns
    <3> QED BY <2>1, <3>3, RowsSame, OwnHook
  <2> QED BY <1>1, <1>3, <2>2, <2>3, ReadOpenEffect
<1>4. CASE Rotate(h)
  <2>1. /\ Others(h) /\ hook'[h].pc = "create" /\ UNCHANGED <<events, closer>>
        /\ batches' = UpdateBatch(id, Closed(hook[h].row)) /\ hook[h].pc \in HasBatch
    BY <1>0, <1>1, <1>4, RotateEffect DEF Rotate, HasBatch
  <2>2. Owns(id, hook[h].row.session)
    BY <1>0, <1>1, <2>1 DEF HookOwned
  <2>3. HookOwned(hook[h])'
    BY <2>1 DEF HookOwned, HasBatch
  <2> QED BY <1>1, <2>1, <2>2, <2>3, ClosedBack, OwnHook
<1>5. CASE Create(h)
  <2>1. /\ Others(h) /\ hook'[h].ev = hook[h].ev /\ UNCHANGED <<events, closer>>
        /\ hook'[h].id = NewId /\ hook'[h].row = Opened(hook[h].ev)
    BY <1>1, <1>5, CreateEffect DEF Create
  <2>2. /\ Lasting /\ batches'[NewId].status = "open"
        /\ batches'[NewId].session = hook[h].ev.session
    BY <1>5, NewRow
  <2>3. Opened(hook[h].ev).session = hook[h].ev.session /\ Opened(hook[h].ev).status = "open"
    BY OpenedRow
  <2>4. HookOwned(hook[h])'
    BY <2>1, <2>2, <2>3 DEF HookOwned, Owns
  <2> QED BY <2>1, <2>2, <2>4, OwnHook
<1>6. CASE Decide(h) \/ Mark(h)
  <2>1. /\ Others(h) /\ UNCHANGED <<batches, events, closer>>
        /\ hook'[h].ev = hook[h].ev /\ hook'[h].id = hook[h].id
        /\ hook'[h].row.session = hook[h].row.session
        /\ hook'[h].row.status \in {hook[h].row.status, "pending_summary"}
        /\ hook[h].pc \in HasBatch
    BY <1>1, <1>6, DecideEffect, GoOnEffect DEF Decide, Mark, HasBatch, journalVars
  <2>2. HookOwned(hook[h])'
    BY <1>1, <2>1 DEF HookOwned, Owns
  <2> QED BY <2>1, <2>2, RowsSame, OwnHook
<1>7. CASE Write(h)
  <2>1. /\ Others(h) /\ UNCHANGED <<events, closer>>
        /\ hook'[h].ev = hook[h].ev /\ hook'[h].id = id /\ hook'[h].row = hook[h].row
        /\ hook[h].pc \in HasBatch /\ batches' = UpdateBatch(id, hook[h].row)
    BY <1>0, <1>1, <1>7, GoOnEffect DEF Write, HasBatch
  <2>2. /\ Owns(id, hook[h].row.session) /\ hook[h].row.session = hook[h].ev.session
        /\ hook[h].row.status \in {"open", "pending_summary"}
    BY <1>0, <1>1, <2>1 DEF HookOwned
  <2>3. Lasting
    BY <1>1, <2>1, <2>2, Rewritten DEF LiveStatus
  <2>4. HookOwned(hook[h])'
    <3>1. Owns(id, hook[h].ev.session)'
      BY <2>1, <2>2, <2>3, StillOwned DEF Owns
    <3> QED BY <2>1, <2>2, <3>1 DEF HookOwned
  <2> QED BY <2>1, <2>3, <2>4, OwnHook
<1>8. CASE Insert(h)
  <2>1. /\ Others(h) /\ hook'[h].pc = "idle" /\ UNCHANGED <<batches, closer>>
        /\ events' = events \cup {[ev |-> hook[h].ev, batch |-> hook[h].id]}
        /\ hook[h].pc \in HasBatch
    BY <1>1, <1>8, EndEffect DEF Insert, HasBatch
  <2>2. HookOwned(hook[h])'
    BY <2>1 DEF HookOwned, HasBatch
  <2> QED BY <2>1, <2>2, RowsSame, OwnHook
<1>9. CASE KillIngest(h)
  <2>1. Others(h) /\ hook'[h].pc = "idle" /\ UNCHANGED <<batches, events, closer>>
    BY <1>1, <1>9, EndEffect DEF KillIngest, journalVars
  <2>2. HookOwned(hook[h])'
    BY <2>1 DEF HookOwned, HasBatch
  <2> QED BY <2>1, <2>2, RowsSame, OwnHook
<1> QED BY <1>2, <1>3, <1>4, <1>5, <1>6, <1>7, <1>8, <1>9 DEF HookStep

\* Closing processes: what they list are rows as they are.
LEMMA OwnClosing ==
  ASSUME PShape, OwnInv, NEW c \in Closers,
         \/ \E kind, s, more : \E ids \in SUBSET Listed({"open"}) : Start(c, kind, s, ids, more)
         \/ CloserStep(c)
  PROVE  Lasting /\ ClosersOwned'
<1>0. /\ closer = [d \in Closers |-> closer[d]]
      /\ \A d \in Closers : (\A t \in closer[d].todo : t[1] \in BatchIds) /\ TodoOwned(closer[d].todo)
  BY DEF PShape, Shape, IsCloser, OwnInv, ClosersOwned
<1>1. ASSUME Lasting, NEW todo, TodoOwned(todo)', closer'[c].todo = todo,
             \A d \in Closers : d # c => closer'[d] = closer[d]
      PROVE  ClosersOwned'
  <2>1. \A d \in Closers : TodoOwned(closer[d].todo)'
    <3> SUFFICES ASSUME NEW d \in Closers, d # c PROVE TodoOwned(closer[d].todo)'
      BY <1>1 DEF TodoOwned, Owns
    <3>1. PICK old : old = closer[d].todo
      OBVIOUS
    <3>2. TodoOwned(old)'
      BY <1>0, <1>1, <3>1, Carried
    <3>3. closer'[d].todo = old
      BY <1>1, <3>1
    <3> QED BY <3>2, <3>3 DEF TodoOwned, Owns
  <2> QED BY <2>1 DEF ClosersOwned
<1>2. ASSUME batches' = batches, NEW ids \in SUBSET Listed({"open"})
      PROVE  TodoOwned(Rows(ids))'
  BY <1>2 DEF TodoOwned, Owns, Rows, Listed
<1>3. ASSUME NEW kind, NEW s, NEW more, NEW ids \in SUBSET Listed({"open"}),
             Start(c, kind, s, ids, more)
      PROVE  Lasting /\ ClosersOwned'
  <2>1. Lasting /\ batches' = batches
    BY <1>3, RowsSame DEF Start, journalVars
  <2> DEFINE x == [pc |-> "closing", kind |-> kind, at |-> now, more |-> more,
                   todo |-> Rows(ids), session |-> s]
  <2>2. closer' = [closer EXCEPT ![c] = x] /\ x.todo = Rows(ids)
    BY <1>3 DEF Start
  <2> HIDE DEF x
  <2>3. closer'[c].todo = Rows(ids) /\ \A d \in Closers : d # c => closer'[d] = closer[d]
    BY <1>0, <2>2
  <2>4. TodoOwned(Rows(ids))' /\ Rows(ids)' = Rows(ids)
    BY <1>2, <2>1 DEF Rows
  <2> QED BY <1>1, <2>1, <2>3, <2>4 DEF TodoOwned, Owns
<1>4. CASE CloseNext(c)
  <2>1. PICK t \in closer[c].todo :
          /\ \/ batches' = UpdateBatch(t[1], Closed(t[2]))
             \/ batches' = batches
          /\ closer'[c].todo = closer[c].todo \ {t}
    <3>1. PICK t \in closer[c].todo :
            /\ \/ batches' = UpdateBatch(t[1], Closed(t[2]))
               \/ batches' = batches
            /\ closer' = [closer EXCEPT
               ![c].todo = closer[c].todo \ {t},
               ![c].more = closer[c].more /\ Closed(t[2]).status # "pending_summary",
               ![c].session = t[2].session,
               ![c].pc = IF closer[c].kind = "tick" /\ StaleTimer(t, closer[c].at)
                         THEN "marking" ELSE closer[c].pc]
      BY <1>4 DEF CloseNext
    <3> DEFINE more == closer[c].more /\ Closed(t[2]).status # "pending_summary"
               pc == IF closer[c].kind = "tick" /\ StaleTimer(t, closer[c].at)
                     THEN "marking" ELSE closer[c].pc
               session == t[2].session
               todo == closer[c].todo \ {t}
    <3>2. closer' = [closer EXCEPT ![c].todo = todo, ![c].more = more,
                                   ![c].session = session, ![c].pc = pc]
      BY <3>1
    <3> HIDE DEF more, pc, session, todo
    <3>3. closer'[c].todo = todo
      BY <3>2 DEF PShape, Shape, IsCloser
    <3> QED BY <3>1, <3>3 DEF todo
  <2>2. t[1] \in BatchIds /\ IsRow(t[2]) /\ Owns(t[1], t[2].session)
    BY DEF PShape, Shape, IsCloser, OwnInv, ClosersOwned, TodoOwned
  <2>3. Lasting
    BY <2>1, <2>2, ClosedBack, RowsSame
  <2>4. \A d \in Closers : d # c => closer'[d] = closer[d]
    BY <1>0, <1>4 DEF CloseNext
  <2> DEFINE todo == closer[c].todo \ {t}
  <2>5. (\A u \in todo : u[1] \in BatchIds) /\ TodoOwned(todo)
    BY <1>0 DEF TodoOwned
  <2> HIDE DEF todo
  <2>6. PICK rest : rest = todo
    OBVIOUS
  <2>7. TodoOwned(rest)'
    BY <2>3, <2>5, <2>6, Carried
  <2>8. closer'[c].todo = rest
    BY <2>1, <2>6 DEF todo
  <2> QED BY <1>1, <2>3, <2>4, <2>7, <2>8
<1>5. CASE CloserMark(c) \/ FinishClosing(c)
  <2>1. Lasting /\ batches' = batches
    BY <1>5, RowsSame DEF CloserMark, FinishClosing, journalVars
  <2>2. closer'[c].todo \subseteq closer[c].todo /\ \A d \in Closers : d # c => closer'[d] = closer[d]
    BY <1>0, <1>5 DEF CloserMark, FinishClosing, IdleCloser, PShape, Shape, IsCloser
  <2>3. TodoOwned(closer[c].todo)
    BY <1>0
  <2>4. PICK rest : rest = closer'[c].todo
    OBVIOUS
  <2>5. TodoOwned(rest)'
    BY <2>1, <2>2, <2>3, <2>4 DEF TodoOwned, Owns
  <2> QED BY <1>1, <2>1, <2>2, <2>4, <2>5
<1>6. CASE FallBack(c)
  <2>1. Lasting /\ batches' = batches
    BY <1>6, RowsSame DEF FallBack, journalVars
  <2>2. closer'[c].todo = Rows(Listed({"open"})) /\ \A d \in Closers : d # c => closer'[d] = closer[d]
    BY <1>0, <1>6 DEF FallBack, PShape, Shape, IsCloser
  <2>3. TodoOwned(Rows(Listed({"open"})))' /\ Rows(Listed({"open"}))' = Rows(Listed({"open"}))
    BY <1>2, <2>1 DEF Rows, Listed
  <2> QED BY <1>1, <2>1, <2>2, <2>3 DEF TodoOwned, Owns
<1> QED BY <1>3, <1>4, <1>5, <1>6 DEF CloserStep

\* Steps that leave the ingests alone.
LEMMA OwnElse ==
  ASSUME PShape, OwnInv, Lasting, hook' = hook, events' \subseteq events,
         closer' = closer \/ ClosersOwned',
         \A p \in Summarizers : worker'[p] = worker[p] \/ WorkerOwned(worker[p])'
  PROVE  OwnInv'
<1>1. EventsOwned'
  BY StoredOwned
<1>2. HooksOwned'
  <2>1. \A h \in Hooks : IsHook(hook[h]) /\ HookOwned(hook[h])
    BY DEF PShape, Shape, OwnInv, HooksOwned
  <2> QED BY <2>1, Carried DEF HooksOwned, HookOwned, Owns
<1>3. ClosersOwned'
  BY Carried DEF PShape, Shape, IsCloser, OwnInv, ClosersOwned
<1>4. WorkersOwned'
  <2> SUFFICES ASSUME NEW p \in Summarizers, worker'[p] = worker[p]
               PROVE  WorkerOwned(worker[p])'
    BY DEF WorkersOwned
  <2>1. PICK x : x = worker[p]
    OBVIOUS
  <2>2. IsWorker(x) /\ WorkerOwned(x)
    BY <2>1 DEF PShape, WorkersKeepShape, OwnInv, WorkersOwned
  <2>3. WorkerOwned(x)'
    BY <2>2, Carried
  <2> QED BY <2>1, <2>3 DEF WorkerOwned, TodoOwned, Owns
<1> QED BY <1>1, <1>2, <1>3, <1>4 DEF OwnInv

----------------------------------------------------------------------------
\* The order of commands: what an ingest has in hand came after everything
\* its session has stored.

NumberInv ==
  /\ ran \in Nat
  /\ CmdInv /\ Alone
  /\ \A r \in events : r.ev.cmd \in Nat /\ r.ev.cmd <= ran
  /\ \A q, r \in events : q.ev.cmd = r.ev.cmd => q.batch = r.batch
  /\ \A h \in Hooks : hook[h].pc # "idle" =>
       \A r \in events : r.ev.session = hook[h].ev.session => r.ev.cmd < hook[h].ev.cmd

\* What the steps of a running ingest have in common.
LEMMA TurnEffect ==
  ASSUME Shape, NEW h \in Hooks, HookStep(h) \/ KillIngest(h)
  PROVE  /\ Others(h) /\ ran' = ran /\ hook[h].pc # "idle"
         /\ hook'[h].pc # "idle" => hook'[h].ev = hook[h].ev
         /\ hook'[h].pc = "insert" => Write(h) /\ hook'[h].id = hook[h].id
         /\ \/ events' = events
            \/ /\ hook[h].pc = "insert" /\ hook'[h].pc = "idle" /\ batches' = batches
               /\ events' = events \cup {[ev |-> hook[h].ev, batch |-> hook[h].id]}
<1>1. CASE ReadOpen(h)
  BY <1>1, ReadOpenEffect DEF ReadOpen, journalVars
<1>2. CASE Rotate(h)
  BY <1>2, RotateEffect DEF Rotate
<1>3. CASE Create(h)
  BY <1>3, CreateEffect DEF Create
<1>4. CASE Decide(h)
  BY <1>4, DecideEffect DEF Decide, journalVars
<1>5. CASE Mark(h)
  <2>1. hook[h].pc = "mark" /\ UNCHANGED <<ran, events>>
    BY <1>5 DEF Mark
  <2> QED BY <1>5, <2>1, GoOnEffect
<1>6. CASE Write(h)
  BY <1>6, GoOnEffect DEF Write
<1>7. CASE Insert(h)
  BY <1>7, EndEffect DEF Insert
<1>8. CASE KillIngest(h)
  BY <1>8, EndEffect DEF KillIngest, journalVars
<1> QED BY <1>1, <1>2, <1>3, <1>4, <1>5, <1>6, <1>7, <1>8 DEF HookStep

\* The ingests go on, in turn in each session.
LEMMA NumberIngest ==
  ASSUME ~Overlap, Shape, NumberInv, NEW h \in Hooks,
         (\E s \in Sessions : StartIngest(h, s)) \/ HookStep(h) \/ KillIngest(h)
  PROVE  NumberInv'
<1>1. ASSUME NEW s \in Sessions, StartIngest(h, s) PROVE NumberInv'
  <2>1. /\ Others(h) /\ hook[h].pc = "idle" /\ hook'[h].pc = "open"
        /\ hook'[h].ev.session = s /\ hook'[h].ev.cmd = ran + 1
        /\ ran' = ran + 1 /\ events' = events /\ ~Busy(s)
    BY <1>1, StartEffect DEF StartIngest, journalVars
  <2>2. CmdInv'
    BY <2>1 DEF NumberInv, CmdInv, Others
  <2>3. Alone'
    BY <2>1 DEF NumberInv, Alone, Others, Busy
  <2>4. \A g \in Hooks : hook'[g].pc # "idle" =>
          \A r \in events' : r.ev.session = hook'[g].ev.session => r.ev.cmd < hook'[g].ev.cmd
    BY <2>1 DEF NumberInv, Others
  <2>5. \A r \in events' : r.ev.cmd \in Nat /\ r.ev.cmd <= ran'
    BY <2>1 DEF NumberInv
  <2> QED BY <2>1, <2>2, <2>3, <2>4, <2>5 DEF NumberInv
<1>2. CASE HookStep(h) \/ KillIngest(h)
  <2>1. /\ Others(h) /\ ran' = ran /\ hook[h].pc # "idle"
        /\ hook'[h].pc # "idle" => hook'[h].ev = hook[h].ev
    BY <1>2, TurnEffect
  <2>2. Alone'
    BY <2>1 DEF NumberInv, Alone, Others
  <2>3. CASE events' = events
    <3>1. CmdInv'
      BY <2>1, <2>3 DEF NumberInv, CmdInv, Others
    <3> QED BY <2>1, <2>2, <2>3, <3>1 DEF NumberInv, Others
  <2>4. CASE /\ hook'[h].pc = "idle"
             /\ events' = events \cup {[ev |-> hook[h].ev, batch |-> hook[h].id]}
    <3> DEFINE new == [ev |-> hook[h].ev, batch |-> hook[h].id]
    <3>1. new.ev = hook[h].ev /\ events' = events \cup {new}
      BY <2>4
    <3> HIDE DEF new
    <3>2. /\ new.ev.cmd \in Nat /\ new.ev.cmd <= ran
          /\ \A r \in events : r.ev.cmd # new.ev.cmd
      BY <2>1, <3>1 DEF NumberInv, CmdInv
    <3>3. \A g \in Hooks : hook'[g].pc # "idle" =>
            /\ g # h /\ hook'[g] = hook[g] /\ hook[g].ev.cmd # new.ev.cmd
            /\ hook[g].ev.session # new.ev.session
      BY <2>1, <2>4, <3>1 DEF NumberInv, CmdInv, Alone, Others
    <3>4. CmdInv'
      <4>1. \A g \in Hooks : hook'[g].pc # "idle" =>
              /\ hook'[g].ev.cmd \in Nat /\ hook'[g].ev.cmd <= ran
              /\ \A r \in events' : r.ev.cmd # hook'[g].ev.cmd
        BY <3>1, <3>3 DEF NumberInv, CmdInv
      <4>2. \A f, g \in Hooks :
              hook'[f].pc # "idle" /\ hook'[g].pc # "idle" /\ hook'[f].ev.cmd = hook'[g].ev.cmd => f = g
        BY <3>3 DEF NumberInv, CmdInv
      <4> QED BY <2>1, <4>1, <4>2 DEF CmdInv
    <3>5. \A g \in Hooks : hook'[g].pc # "idle" =>
            \A r \in events' : r.ev.session = hook'[g].ev.session => r.ev.cmd < hook'[g].ev.cmd
      BY <3>1, <3>3 DEF NumberInv
    <3>6. \A q, r \in events' : q.ev.cmd = r.ev.cmd => q.batch = r.batch
      BY <3>1, <3>2 DEF NumberInv
    <3>7. \A r \in events' : r.ev.cmd \in Nat /\ r.ev.cmd <= ran
      BY <3>1, <3>2 DEF NumberInv
    <3> QED BY <2>1, <2>2, <3>4, <3>5, <3>6, <3>7 DEF NumberInv
  <2> QED BY <1>2, <2>3, <2>4, TurnEffect
<1> QED BY <1>1, <1>2

\* Nothing else brings commands.
LEMMA NumberElse ==
  ASSUME NumberInv, hook' = hook, ran' = ran, events' \subseteq events
  PROVE  NumberInv'
<1>1. CmdInv' /\ Alone'
  BY DEF NumberInv, CmdInv, Alone
<1> QED BY <1>1 DEF NumberInv

----------------------------------------------------------------------------
\* Whose batches the ingests have: those with one batch are of one session.

Agree ==
  \A h \in Hooks : hook[h].pc \in HasBatch =>
    /\ \A r \in events : r.batch = hook[h].id => r.ev.session = hook[h].ev.session
    /\ \A g \in Hooks : hook[g].pc \in HasBatch /\ hook[g].id = hook[h].id =>
         hook[g].ev.session = hook[h].ev.session

\* A step in which commands only go from an ingest into its batch, and an
\* ingest only takes a batch that is new or open in its session.
Gentle ==
  /\ Lasting
  /\ ran \in Nat /\ ran' \in Nat /\ ran <= ran'
  /\ \A r \in events' : r \in events \/
       \E h \in Hooks : hook[h].pc \in HasBatch /\ r.ev = hook[h].ev /\ r.batch = hook[h].id
  /\ \A h \in Hooks : hook'[h].pc # "idle" =>
       \/ hook[h].pc # "idle" /\ hook'[h].ev = hook[h].ev
       \/ hook'[h].ev.cmd = ran + 1
  /\ \A h \in Hooks : hook'[h].pc \in HasBatch =>
       /\ hook[h].pc # "idle" /\ hook'[h].ev = hook[h].ev
       /\ \/ hook[h].pc \in HasBatch /\ hook'[h].id = hook[h].id
          \/ /\ hook'[h].id \in BatchIds
             /\ \/ /\ batches[hook'[h].id].status = "open"
                   /\ batches[hook'[h].id].session = hook[h].ev.session
                \/ batches[hook'[h].id].status = "absent"
             /\ \A g \in Hooks : g # h => hook'[g] = hook[g]

\* The steps of the ingests are gentle.
LEMMA GentleIngest ==
  ASSUME PShape, Lasting, NumberInv, NEW h \in Hooks,
         (\E s \in Sessions : StartIngest(h, s)) \/ HookStep(h) \/ KillIngest(h)
  PROVE  Gentle
<1>0. Shape /\ ran \in Nat
  BY DEF PShape, NumberInv
<1>1. ASSUME NEW s \in Sessions, StartIngest(h, s) PROVE Gentle
  <2>1. /\ Others(h) /\ hook'[h].pc = "open" /\ hook'[h].ev.cmd = ran + 1
        /\ ran' = ran + 1 /\ events' = events
    BY <1>0, <1>1, StartEffect DEF StartIngest, journalVars
  <2> QED BY <1>0, <2>1 DEF Gentle, Others, HasBatch
<1>2. CASE HookStep(h) \/ KillIngest(h)
  <2>1. /\ Others(h) /\ ran' = ran /\ hook[h].pc # "idle"
        /\ hook'[h].pc # "idle" => hook'[h].ev = hook[h].ev
        /\ \/ events' = events
           \/ /\ hook[h].pc = "insert"
              /\ events' = events \cup {[ev |-> hook[h].ev, batch |-> hook[h].id]}
    BY <1>0, <1>2, TurnEffect
  <2>2. \A r \in events' : r \in events \/
          \E g \in Hooks : hook[g].pc \in HasBatch /\ r.ev = hook[g].ev /\ r.batch = hook[g].id
    BY <2>1 DEF HasBatch
  <2>3. hook'[h].pc \in HasBatch =>
          \/ hook[h].pc \in HasBatch /\ hook'[h].id = hook[h].id
          \/ /\ hook'[h].id \in BatchIds
             /\ \/ /\ batches[hook'[h].id].status = "open"
                   /\ batches[hook'[h].id].session = hook[h].ev.session
                \/ batches[hook'[h].id].status = "absent"
    <3>1. CASE ReadOpen(h)
      BY <1>0, <3>1, ReadOpenEffect DEF HasBatch, OpenOf, Listed
    <3>2. CASE Create(h)
      BY <1>0, <3>2, CreateEffect DEF FreshIds
    <3>3. CASE Rotate(h) \/ Insert(h) \/ KillIngest(h)
      BY <1>0, <3>3, RotateEffect, EndEffect DEF HasBatch
    <3>4. CASE Decide(h) \/ Mark(h) \/ Write(h)
      BY <1>0, <3>4, DecideEffect, GoOnEffect DEF Decide, Mark, Write, HasBatch
    <3> QED BY <1>2, <3>1, <3>2, <3>3, <3>4 DEF HookStep
  <2>4. \A g \in Hooks : hook'[g].pc # "idle" => hook[g].pc # "idle" /\ hook'[g].ev = hook[g].ev
    BY <2>1 DEF Others
  <2>5. \A g \in Hooks : hook'[g].pc \in HasBatch =>
          \/ hook[g].pc \in HasBatch /\ hook'[g].id = hook[g].id
          \/ /\ hook'[g].id \in BatchIds
             /\ \/ /\ batches[hook'[g].id].status = "open"
                   /\ batches[hook'[g].id].session = hook[g].ev.session
                \/ batches[hook'[g].id].status = "absent"
             /\ \A f \in Hooks : f # g => hook'[f] = hook[f]
    BY <2>1, <2>3 DEF Others
  <2>6. "idle" \notin HasBatch
    BY DEF HasBatch
  <2> QED BY <1>0, <2>1, <2>2, <2>4, <2>5, <2>6 DEF Gentle
<1> QED BY <1>1, <1>2

\* So are steps that leave the ingests alone.
LEMMA GentleElse ==
  ASSUME NumberInv, Lasting, hook' = hook, ran' = ran, events' \subseteq events
  PROVE  Gentle
BY DEF Gentle, NumberInv, HasBatch

\* A gentle step keeps the sessions apart.
LEMMA AgreeStays ==
  ASSUME PShape, OwnInv, Agree, Gentle
  PROVE  Agree'
<1>1. \A h \in Hooks : hook[h].pc \in HasBatch =>
        hook[h].id \in BatchIds /\ Owns(hook[h].id, hook[h].ev.session)
  BY DEF PShape, Shape, IsHook, OwnInv, HooksOwned, HookOwned
<1>2. \A r \in events : r.batch \in BatchIds /\ Owns(r.batch, r.ev.session)
  BY DEF OwnInv, EventsOwned
<1>3. ASSUME NEW h \in Hooks, hook'[h].pc \in HasBatch
      PROVE  /\ hook[h].ev = hook'[h].ev
             /\ \A t : Owns(hook'[h].id, t) =>
                  \/ hook[h].pc \in HasBatch /\ hook[h].id = hook'[h].id
                  \/ t = hook'[h].ev.session
  BY <1>3 DEF Gentle, Owns
<1>4. ASSUME NEW h \in Hooks, hook'[h].pc \in HasBatch, NEW r \in events', r.batch = hook'[h].id
      PROVE  r.ev.session = hook'[h].ev.session
  <2>1. CASE r \in events
    <3>1. Owns(hook'[h].id, r.ev.session)
      BY <1>2, <1>4, <2>1
    <3>2. CASE hook[h].pc \in HasBatch /\ hook[h].id = hook'[h].id
      <4>1. r.ev.session = hook[h].ev.session
        BY <1>4, <2>1, <3>2 DEF Agree
      <4> QED BY <1>3, <1>4, <4>1
    <3> QED BY <1>3, <1>4, <3>1, <3>2
  <2>2. CASE \E g \in Hooks : hook[g].pc \in HasBatch /\ r.ev = hook[g].ev /\ r.batch = hook[g].id
    <3>1. PICK g \in Hooks : hook[g].pc \in HasBatch /\ r.ev = hook[g].ev /\ r.batch = hook[g].id
      BY <2>2
    <3>2. Owns(hook'[h].id, hook[g].ev.session)
      BY <1>1, <1>4, <3>1
    <3>3. CASE hook[h].pc \in HasBatch /\ hook[h].id = hook'[h].id
      <4>1. hook[g].ev.session = hook[h].ev.session
        BY <1>4, <3>1, <3>3 DEF Agree
      <4> QED BY <1>3, <1>4, <3>1, <4>1
    <3> QED BY <1>3, <1>4, <3>1, <3>2, <3>3
  <2> QED BY <1>4, <2>1, <2>2 DEF Gentle
<1>5. ASSUME NEW h \in Hooks, hook'[h].pc \in HasBatch,
             NEW g \in Hooks, hook'[g].pc \in HasBatch, hook'[g].id = hook'[h].id
      PROVE  hook'[g].ev.session = hook'[h].ev.session
  <2>1. CASE g = h
    BY <2>1
  <2>2. CASE /\ hook[h].pc \in HasBatch /\ hook[h].id = hook'[h].id
             /\ hook[g].pc \in HasBatch /\ hook[g].id = hook'[g].id
    <3>1. hook[g].ev.session = hook[h].ev.session
      BY <1>5, <2>2 DEF Agree
    <3> QED BY <1>3, <1>5, <3>1
  <2>3. ASSUME NEW f \in Hooks, NEW i \in Hooks, f # i, hook'[f].pc \in HasBatch,
               hook'[i].pc \in HasBatch, hook'[f].id = hook'[i].id,
               ~(hook[f].pc \in HasBatch /\ hook[f].id = hook'[f].id)
        PROVE  hook'[f].ev.session = hook'[i].ev.session
    <3>1. hook'[i] = hook[i]
      BY <2>3 DEF Gentle
    <3>2. Owns(hook'[f].id, hook[i].ev.session)
      BY <1>1, <2>3, <3>1
    <3> QED BY <1>3, <2>3, <3>1, <3>2
  <2> QED BY <1>5, <2>1, <2>2, <2>3
<1> QED BY <1>4, <1>5 DEF Agree

----------------------------------------------------------------------------
\* What a draft is written from.  K are the commands of a draft, or those a
\* worker has in memory, for batch id.

\* None of them is of another batch, or ever will be.
Pure(K, id) ==
  /\ \A k \in K : k \in Nat /\ k <= ran
  /\ \A r \in events : r.ev.cmd \in K => r.batch = id
  /\ \A h \in Hooks : hook[h].pc # "idle" => hook[h].ev.cmd \notin K

\* What the batch has besides them, or may still get, came later.
Earlier(K, c) == \A k \in K : k < c
Gapless(K, id) ==
  /\ \A r \in events : r.batch = id /\ r.ev.cmd \notin K => Earlier(K, r.ev.cmd)
  /\ \A h \in Hooks : hook[h].pc \in HasBatch /\ hook[h].id = id => Earlier(K, hook[h].ev.cmd)
  /\ batches[id].status # "deleted" =>
       \A h \in Hooks : hook[h].pc # "idle" /\ hook[h].ev.session = batches[id].session =>
         Earlier(K, hook[h].ev.cmd)

Built(K, id) == Pure(K, id) /\ Gapless(K, id)

InMemory(x) == {e.cmd : e \in x.evs}

\* A worker that has read the events of a batch, and one that found some.
AtWork(x) ==
  /\ x.pc \in {"claim", "call", "save"} => Built(InMemory(x), x.id)
  /\ x.pc \in {"call", "save"} => x.evs # {}

WorkInv == \A p \in Summarizers : AtWork(worker[p])

DraftFine(d) ==
  /\ d.batch \in BatchIds /\ batches[d.batch].status # "absent"
  /\ d.built # {} /\ Built(d.built, d.batch)

DraftInv == \A d \in drafts : DraftFine(d)

PInv == PShape /\ OwnInv /\ NumberInv /\ Agree /\ WorkInv /\ DraftInv

\* A gentle step leaves what a draft is written from as good as it was.
LEMMA BuiltStays ==
  ASSUME Gentle, NEW K, NEW id \in BatchIds, batches[id].status # "absent", Built(K, id)
  PROVE  Built(K, id)' /\ batches'[id].status # "absent"
<1>1. ran \in Nat /\ ran' \in Nat /\ ran <= ran'
  BY DEF Gentle
<1>2. \A k \in K : k \in Nat /\ k <= ran /\ k < ran + 1
  BY <1>1 DEF Built, Pure
<1>3. Pure(K, id)'
  <2>1. \A k \in K : k \in Nat /\ k <= ran' /\ k # ran + 1
    BY <1>1, <1>2
  <2>2. \A r \in events' : r.ev.cmd \in K => r.batch = id
    <3>1. \A h \in Hooks : hook[h].pc \in HasBatch => hook[h].pc # "idle"
      BY DEF HasBatch
    <3> QED BY <3>1 DEF Gentle, Built, Pure
  <2>3. \A h \in Hooks : hook'[h].pc # "idle" => hook'[h].ev.cmd \notin K
    BY <2>1 DEF Gentle, Built, Pure
  <2> QED BY <2>1, <2>2, <2>3 DEF Pure
<1>4. /\ batches'[id].status # "absent"
      /\ batches'[id].status # "deleted" =>
           batches[id].status # "deleted" /\ batches'[id].session = batches[id].session
  BY DEF Gentle, Lasting
<1>5. Gapless(K, id)'
  <2>1. \A r \in events' : r.batch = id /\ r.ev.cmd \notin K => Earlier(K, r.ev.cmd)
    BY DEF Gentle, Built, Gapless
  <2>2. ASSUME NEW h \in Hooks, hook'[h].pc \in HasBatch, hook'[h].id = id
        PROVE  Earlier(K, hook'[h].ev.cmd)
    <3>1. hook[h].pc # "idle" /\ hook'[h].ev = hook[h].ev
      BY <2>2 DEF Gentle
    <3>2. CASE hook[h].pc \in HasBatch /\ hook'[h].id = hook[h].id
      BY <2>2, <3>1, <3>2 DEF Built, Gapless
    <3>3. CASE batches[id].status = "open" /\ batches[id].session = hook[h].ev.session
      BY <3>1, <3>3 DEF Built, Gapless
    <3> QED BY <2>2, <3>2, <3>3 DEF Gentle
  <2>3. ASSUME batches'[id].status # "deleted", NEW h \in Hooks, hook'[h].pc # "idle",
               hook'[h].ev.session = batches'[id].session
        PROVE  Earlier(K, hook'[h].ev.cmd)
    <3>1. CASE hook[h].pc # "idle" /\ hook'[h].ev = hook[h].ev
      BY <1>4, <2>3, <3>1 DEF Built, Gapless
    <3>2. CASE hook'[h].ev.cmd = ran + 1
      BY <1>2, <3>2 DEF Earlier
    <3> QED BY <2>3, <3>1, <3>2 DEF Gentle
  <2> QED BY <2>1, <2>2, <2>3 DEF Gapless, Earlier
<1> QED BY <1>3, <1>4, <1>5 DEF Built

LEMMA WorkStays ==
  ASSUME Gentle, NEW x, IsWorker(x), WorkerOwned(x), AtWork(x)
  PROVE  AtWork(x)'
<1>1. PICK K : K = InMemory(x)
  OBVIOUS
<1>2. PICK id \in BatchIds : id = x.id
  BY DEF IsWorker
<1>3. x.pc \in {"claim", "call", "save"} => batches[id].status # "absent"
  BY <1>2 DEF WorkerOwned, HasRow, Owns
<1>4. x.pc \in {"claim", "call", "save"} => Built(K, id)'
  BY <1>1, <1>2, <1>3, BuiltStays DEF AtWork
<1> QED BY <1>1, <1>2, <1>4 DEF AtWork, InMemory

LEMMA DraftStays ==
  ASSUME Gentle, NEW d, DraftFine(d)
  PROVE  DraftFine(d)'
<1>1. PICK K : K = d.built
  OBVIOUS
<1>2. PICK id \in BatchIds : id = d.batch
  BY DEF DraftFine
<1>3. Built(K, id)' /\ batches'[id].status # "absent"
  BY <1>1, <1>2, BuiltStays DEF DraftFine
<1> QED BY <1>1, <1>2, <1>3 DEF DraftFine

\* Drafts that nobody touches.
LEMMA DraftsSame ==
  ASSUME PInv, Gentle, drafts' = drafts
  PROVE  DraftInv' /\ DraftShape'
BY DraftStays DEF PInv, PShape, DraftShape, DraftInv, DraftFine

\* Drafts that forget marks stale.
LEMMA DraftsStaled ==
  ASSUME PInv, Gentle, NEW ids, drafts' = Staled(ids)
  PROVE  DraftInv' /\ DraftShape'
<1>1. \A d \in drafts : LET e == [d EXCEPT !.status = "stale"]
        IN /\ DOMAIN e = {"id", "batch", "built", "status"}
           /\ e.batch = d.batch /\ e.built = d.built
  BY DEF PInv, PShape, DraftShape
<1>2. DraftShape'
  BY <1>1 DEF PInv, PShape, DraftShape, Staled
<1>3. DraftInv'
  <2> SUFFICES ASSUME NEW e \in drafts' PROVE DraftFine(e)'
    BY DEF DraftInv
  <2>1. PICK d \in drafts : e.batch = d.batch /\ e.built = d.built
    BY <1>1 DEF Staled
  <2>2. PICK K, id : K = d.built /\ id = d.batch
    OBVIOUS
  <2>3. DraftFine(d)'
    BY DraftStays DEF PInv, DraftInv
  <2> QED BY <2>1, <2>2, <2>3 DEF DraftFine
<1> QED BY <1>2, <1>3

----------------------------------------------------------------------------
\* Every step of the ingest side, while the workers stand still

\* Workers that stand still lose nothing by a gentle step.
LEMMA StandStill ==
  ASSUME PInv, Gentle, worker' = worker
  PROVE  WorkInv' /\ WorkersKeepShape'
<1>1. WorkersKeepShape'
  BY DEF PInv, PShape, WorkersKeepShape
<1>2. WorkInv'
  <2> SUFFICES ASSUME NEW p \in Summarizers PROVE AtWork(worker[p])'
    BY DEF WorkInv
  <2>1. PICK x : x = worker[p]
    OBVIOUS
  <2>2. IsWorker(x) /\ WorkerOwned(x) /\ AtWork(x)
    BY <2>1 DEF PInv, PShape, WorkersKeepShape, OwnInv, WorkersOwned, WorkInv
  <2>3. AtWork(x)'
    BY <2>2, WorkStays
  <2>4. worker'[p] = x
    BY <2>1
  <2> QED BY <2>3, <2>4 DEF AtWork
<1> QED BY <1>1, <1>2

\* An ingest.
LEMMA IngestStep ==
  ASSUME ~Overlap, PInv, UNCHANGED workerVars, NEW h \in Hooks,
         (\E s \in Sessions : StartIngest(h, s)) \/ HookStep(h) \/ KillIngest(h)
  PROVE  PInv'
<1>1. PShape /\ OwnInv /\ NumberInv /\ Shape /\ worker' = worker
  BY DEF PInv, PShape, workerVars
<1>2. OwnInv' /\ Lasting
  BY <1>1, OwnIngest
<1>3. NumberInv' /\ Gentle
  BY <1>1, <1>2, NumberIngest, GentleIngest
<1>4. Shape'
  BY <1>1, ShapeNext DEF Next, HookNext
<1>5. drafts' = drafts
  BY DEF StartIngest, HookStep, ReadOpen, Rotate, Create, Decide, Mark, Write, Insert, KillIngest,
         journalVars
<1> QED BY <1>1, <1>2, <1>3, <1>4, <1>5, AgreeStays, DraftsSame, StandStill DEF PInv, PShape

\* Steps that leave the ingests and the workers alone.
LEMMA OtherStep ==
  ASSUME PInv, worker' = worker, Lasting, Shape', UNCHANGED <<hook, ran>>,
         events' \subseteq events, closer' = closer \/ ClosersOwned',
         drafts' = drafts \/ \E ids : drafts' = Staled(ids)
  PROVE  PInv'
<1>1. OwnInv' /\ NumberInv' /\ Gentle
  BY OwnElse, NumberElse, GentleElse DEF PInv
<1> QED BY <1>1, AgreeStays, DraftsSame, DraftsStaled, StandStill DEF PInv, PShape

\* A session that ends.
LEMMA EnderStep ==
  ASSUME PInv, UNCHANGED workerVars, EnderNext
  PROVE  PInv'
<1>1. PICK e \in Closers :
        \/ "end" \in Kinds /\ \E s \in Sessions : EndSession(e, s)
        \/ CloserStep(e)
  BY DEF EnderNext, Enders
<1>2. PShape /\ OwnInv /\ Shape /\ worker' = worker
  BY DEF PInv, PShape, workerVars
<1>3. Lasting /\ ClosersOwned'
  BY <1>1, <1>2, Started, OwnClosing
<1>4. UNCHANGED <<hook, ran, events, drafts>>
  BY <1>1, Started DEF Start, CloserStep, CloseNext, CloserMark, FallBack, FinishClosing, journalVars
<1>5. Shape'
  BY <1>1, <1>2, ShapeNext DEF Next, CloserNext
<1> QED BY <1>2, <1>3, <1>4, <1>5, OtherStep

\* What is forgotten, and the clock.
LEMMA ForgetStep ==
  ASSUME PInv, UNCHANGED workerVars, Forget \/ Clock
  PROVE  PInv'
<1>1. PShape /\ Shape /\ worker' = worker
  BY DEF PInv, PShape, workerVars
<1>2. Lasting
  BY <1>1, ForgetLasts, RowsSame DEF Clock, journalVars
<1>3. UNCHANGED <<hook, ran, closer>> /\ events' \subseteq events
  BY DEF Forget, ForgetSession, ForgetSince, DeleteEvents, DeleteLastEvents, Clock, journalVars
<1>4. drafts' = drafts \/ \E ids : drafts' = Staled(ids)
  BY DEF Forget, ForgetSession, ForgetSince, DeleteEvents, DeleteLastEvents, Clock, journalVars
<1>5. Shape'
  BY <1>1, ShapeNext DEF Next
<1> QED BY <1>1, <1>2, <1>3, <1>4, <1>5, OtherStep

----------------------------------------------------------------------------
\* The steps of a worker, next to others and to `now`

LEMMA WorkerTurn ==
  ASSUME PInv, NEW p \in Summarizers, NEW x, IsWorker(x), worker' = [worker EXCEPT ![p] = x],
         Shape', DraftShape', DraftInv', Lasting, UNCHANGED <<ran, hook>>, events' \subseteq events,
         closer' = closer \/ ClosersOwned', WorkerOwned(x)', AtWork(x)'
  PROVE  PInv'
<1>1. worker'[p] = x /\ \A q \in Summarizers : q # p => worker'[q] = worker[q]
  BY DEF PInv, PShape, WorkersKeepShape
<1>2. PShape'
  BY DEF PInv, PShape, WorkersKeepShape
<1>3. OwnInv'
  <2>1. WorkerOwned(worker[p])'
    BY <1>1 DEF WorkerOwned, TodoOwned, Owns
  <2> QED BY <1>1, <2>1, OwnElse DEF PInv
<1>4. NumberInv' /\ Gentle
  BY NumberElse, GentleElse DEF PInv
<1>5. Agree'
  BY <1>4, AgreeStays DEF PInv
<1>6. WorkInv'
  <2>1. AtWork(worker[p])'
    BY <1>1 DEF AtWork
  <2>2. ASSUME NEW q \in Summarizers, q # p PROVE AtWork(worker[q])'
    <3>1. PICK y : y = worker[q]
      OBVIOUS
    <3>2. AtWork(y)'
      BY <1>4, <3>1, WorkStays DEF PInv, PShape, WorkersKeepShape, OwnInv, WorkersOwned, WorkInv
    <3>3. worker'[q] = y
      BY <1>1, <2>2, <3>1
    <3> QED BY <3>2, <3>3 DEF AtWork
  <2> QED BY <2>1, <2>2 DEF WorkInv
<1> QED BY <1>2, <1>3, <1>4, <1>5, <1>6 DEF PInv

\* A worker that is done.
LEMMA IdleWorkerFine ==
  IsWorker(IdleWorker) /\ WorkerOwned(IdleWorker)' /\ AtWork(IdleWorker)'
    /\ IdleWorker.pc = "idle" /\ IdleWorker.todo = {}
<1>1. SomeBatch \in BatchIds
  BY JournalAssumption DEF SomeBatch
<1>2. IsRow(Blank)
  BY DEF IsRow, Blank
<1>3. IsWorker(IdleWorker)
  BY <1>1, <1>2 DEF IsWorker, IdleWorker
<1> QED BY <1>3 DEF WorkerOwned, TodoOwned, AtWork, IdleWorker, HasRow

\* What a worker lists is owned after a lasting step.
LEMMA ListOwned ==
  ASSUME PInv, Lasting, NEW p \in Summarizers, NEW todo \in SUBSET worker[p].todo
  PROVE  TodoOwned(todo)' /\ \A t \in todo : t[1] \in BatchIds /\ IsRow(t[2])
<1>1. \A t \in worker[p].todo : t[1] \in BatchIds /\ IsRow(t[2]) /\ Owns(t[1], t[2].session)
  BY DEF PInv, PShape, WorkersKeepShape, IsWorker, OwnInv, WorkersOwned, WorkerOwned, TodoOwned
<1>2. TodoOwned(todo)
  BY <1>1 DEF TodoOwned
<1>3. PICK old : old = todo
  OBVIOUS
<1>4. TodoOwned(old)'
  BY <1>1, <1>2, <1>3, Carried DEF PInv
<1> QED BY <1>1, <1>3, <1>4

\* The tables but for the rows of batches, and the ingests, are left alone.
LEMMA RowsTurn ==
  ASSUME PInv, RowsKeepShape, UNCHANGED <<hook, closer>>
  PROVE  Shape'
BY DEF PInv, PShape, Shape, RowsKeepShape

\* A worker that has no batch in hand.
LEMMA BetweenTurn ==
  ASSUME PInv, NEW p \in Summarizers, NEW x, IsWorker(x), x.pc \notin HasRow,
         worker' = [worker EXCEPT ![p] = x], TodoOwned(x.todo)',
         Shape', Lasting, UNCHANGED <<ran, hook, drafts>>, events' \subseteq events,
         closer' = closer \/ ClosersOwned'
  PROVE  PInv'
<1>1. WorkerOwned(x)' /\ AtWork(x)'
  BY DEF WorkerOwned, AtWork, HasRow
<1>2. DraftShape' /\ DraftInv'
  BY GentleElse, DraftsSame DEF PInv
<1> QED BY <1>1, <1>2, WorkerTurn

\* It goes from one part of its run to the next.
LEMMA PartTurn ==
  ASSUME PInv, NEW p \in Summarizers, NEW pc, pc \notin HasRow, NEW tick,
         \/ worker' = [worker EXCEPT ![p].pc = pc]
         \/ worker' = [worker EXCEPT ![p].pc = pc, ![p].tick = tick],
         Shape', Lasting, UNCHANGED <<ran, hook, drafts>>, events' \subseteq events,
         closer' = closer \/ ClosersOwned'
  PROVE  PInv'
<1>1. worker = [q \in Summarizers |-> worker[q]] /\ IsWorker(worker[p])
  BY DEF PInv, PShape, WorkersKeepShape
<1>2. PICK n \in {worker[p].tick, tick} :
        worker' = [worker EXCEPT ![p] = [worker[p] EXCEPT !.pc = pc, !.tick = n]]
  <2>1. CASE worker' = [worker EXCEPT ![p].pc = pc]
    <3>1. [worker[p] EXCEPT !.pc = pc, !.tick = worker[p].tick] = [worker[p] EXCEPT !.pc = pc]
      BY <1>1 DEF IsWorker
    <3> QED BY <2>1, <3>1
  <2>2. CASE worker' = [worker EXCEPT ![p].pc = pc, ![p].tick = tick]
    BY <1>1, <2>2
  <2> QED BY <2>1, <2>2
<1>3. PICK x : x = [worker[p] EXCEPT !.pc = pc, !.tick = n]
  OBVIOUS
<1>4. IsWorker(x) /\ x.pc = pc /\ x.todo = worker[p].todo
  BY <1>1, <1>3 DEF IsWorker
<1>5. TodoOwned(x.todo)'
  BY <1>4, ListOwned
<1> QED BY <1>2, <1>3, <1>4, <1>5, BetweenTurn

\* `codeument work` starts, or finds the lock taken.
LEMMA SpawnedStep ==
  ASSUME PInv, (\E w \in Workers : RunSpawned(w)) \/ Bounce
  PROVE  PInv'
<1>1. UNCHANGED <<ran, hook, closer, batches, events, drafts>>
  BY DEF RunSpawned, StartWork, Bounce, journalVars
<1>2. Lasting /\ Shape'
  BY <1>1, RowsSame, RowsTurn DEF PInv
<1>3. ASSUME NEW w \in Workers, RunSpawned(w) PROVE PInv'
  <2>1. w \in Summarizers /\ worker' = [worker EXCEPT ![w].pc = "list", ![w].tick = Never]
    BY <1>3 DEF RunSpawned, StartWork, Acquire, Summarizers
  <2> QED BY <1>1, <1>2, <2>1, PartTurn DEF HasRow
<1>4. CASE Bounce
  BY <1>1, <1>2, <1>4, OtherStep DEF Bounce, workerVars
<1> QED BY <1>3, <1>4

\* The timer starts a tick, a user a `now`.
LEMMA ClosingStarts ==
  ASSUME PInv, \/ \E w \in Workers : StartTick(w)
               \/ \E m \in Manual, s \in Sessions : StartManualNow(m, s)
  PROVE  PInv'
<1>1. PICK p \in Summarizers :
        /\ \E tick : \/ worker' = [worker EXCEPT ![p].pc = "closing"]
                     \/ worker' = [worker EXCEPT ![p].pc = "closing", ![p].tick = tick]
        /\ \/ TickDue(p)
           \/ "now" \in Kinds /\ \E s \in Sessions : StartNow(p, s)
  BY DEF StartTick, StartManualNow, StartManual, Acquire, TickDue, Summarizers
<1>2. p \in Closers
  BY PipelineAssumption
<1>3. \E kind, s, more : \E ids \in SUBSET Listed({"open"}) : Start(p, kind, s, ids, more)
  BY <1>1, <1>2, Started
<1>4. Lasting /\ ClosersOwned'
  BY <1>2, <1>3, OwnClosing DEF PInv
<1>5. Shape'
  BY <1>1, <1>2, ShapeNext DEF PInv, PShape, Next, CloserNext
<1>6. UNCHANGED <<ran, hook, events, drafts>>
  BY <1>3 DEF Start, journalVars
<1> QED BY <1>1, <1>4, <1>5, <1>6, PartTurn DEF HasRow

\* It closes, or ends closing.
LEMMA ClosesStep ==
  ASSUME PInv, NEW p \in Summarizers, Closing(p)
  PROVE  PInv'
<1>1. p \in Closers /\ CloserStep(p)
  BY PipelineAssumption DEF Closing, CloserStep
<1>2. PShape /\ OwnInv /\ Shape
  BY DEF PInv, PShape
<1>3. Lasting /\ ClosersOwned'
  BY <1>1, <1>2, OwnClosing
<1>4. UNCHANGED <<hook, ran, events, drafts>>
  BY <1>1 DEF CloserStep, CloseNext, CloserMark, FallBack, FinishClosing, journalVars
<1>5. Shape'
  BY <1>1, <1>2, ShapeNext DEF Next, CloserNext
<1>6. CASE worker' = worker
  BY <1>3, <1>4, <1>5, <1>6, OtherStep
<1>7. CASE worker' = [worker EXCEPT ![p].pc = "list"]
  BY <1>3, <1>4, <1>5, <1>7, PartTurn DEF HasRow
<1> QED BY <1>6, <1>7 DEF Closing, workerVars

\* It lists the batches.
LEMMA ListStep ==
  ASSUME PInv, NEW p \in Summarizers, List(p), UNCHANGED ingestVars
  PROVE  PInv'
<1> DEFINE todo == {<<id, batches[id]>> : id \in Listed({"pending_summary", "failed"})}
           pc == IF p \in Manual /\ todo = {} THEN "idle" ELSE "next"
<1>1. /\ worker' = [worker EXCEPT ![p].pc = pc, ![p].todo = todo]
      /\ UNCHANGED <<hook, ran, closer, batches, events, drafts>>
  BY DEF List, ListIn, journalVars, ingestVars
<1>2. Lasting /\ Shape'
  BY <1>1, RowsSame, RowsTurn DEF PInv
<1>3. (\A t \in todo : t[1] \in BatchIds /\ IsRow(t[2])) /\ TodoOwned(todo)
  BY DEF PInv, PShape, Shape, Listed, TodoOwned, Owns
<1>4. worker = [q \in Summarizers |-> worker[q]] /\ IsWorker(worker[p])
  BY DEF PInv, PShape, WorkersKeepShape
<1>5. pc \in {"idle", "next"}
  OBVIOUS
<1> HIDE DEF todo, pc
<1>6. PICK list : list = todo
  OBVIOUS
<1>7. PICK x : x = [worker[p] EXCEPT !.pc = pc, !.todo = list]
  OBVIOUS
<1>8. worker' = [worker EXCEPT ![p] = x]
  BY <1>1, <1>4, <1>6, <1>7
<1>9. IsWorker(x) /\ x.pc = pc /\ x.todo = list
  BY <1>3, <1>4, <1>6, <1>7 DEF IsWorker
<1>10. TodoOwned(x.todo)'
  <2>1. TodoOwned(list)'
    BY <1>2, <1>3, <1>6, Carried DEF PInv
  <2> QED BY <1>9, <2>1 DEF TodoOwned, Owns
<1> QED BY <1>1, <1>2, <1>5, <1>8, <1>9, <1>10, BetweenTurn DEF HasRow

\* A batch that used up its attempts is taken off the list.
LEMMA PassStep ==
  ASSUME PInv, NEW p \in Summarizers, PassOver(p), UNCHANGED ingestVars
  PROVE  PInv'
<1>1. PICK t \in worker[p].todo : worker' = [worker EXCEPT ![p].todo = worker[p].todo \ {t}]
  BY DEF PassOver, Oldest
<1>2. UNCHANGED <<hook, ran, closer, batches, events, drafts>> /\ worker[p].pc = "next"
  BY DEF PassOver, journalVars, ingestVars
<1>3. worker = [q \in Summarizers |-> worker[q]] /\ IsWorker(worker[p])
  BY DEF PInv, PShape, WorkersKeepShape
<1>4. PICK x : x = [worker[p] EXCEPT !.todo = worker[p].todo \ {t}]
  OBVIOUS
<1>5. worker' = [worker EXCEPT ![p] = x]
  BY <1>1, <1>3, <1>4
<1>6. IsWorker(x) /\ x.pc = "next" /\ x.todo = worker[p].todo \ {t}
  BY <1>2, <1>3, <1>4 DEF IsWorker
<1>7. Lasting /\ Shape'
  BY <1>2, RowsSame, RowsTurn DEF PInv
<1>8. TodoOwned(x.todo)'
  BY <1>6, <1>7, ListOwned
<1> QED BY <1>2, <1>5, <1>6, <1>7, <1>8, BetweenTurn DEF HasRow

\* What is stored for a batch: its own commands, and no later ones of another
\* ingest between them.
LEMMA ReadBuilt ==
  ASSUME PInv, NEW id \in BatchIds, NEW K, K = {e.cmd : e \in EventsOf(id)}
  PROVE  Built(K, id)
<1>1. \A k \in K : \E r \in events : r.batch = id /\ r.ev.cmd = k
  BY DEF EventsOf
<1>2. \A r \in events : r.batch = id => r.ev.cmd \in K
  BY DEF EventsOf
<1>3. NumberInv
  BY DEF PInv
<1>4. Pure(K, id)
  <2>1. \A k \in K : k \in Nat /\ k <= ran
    BY <1>1, <1>3 DEF NumberInv
  <2>2. \A r \in events : r.ev.cmd \in K => r.batch = id
    BY <1>1, <1>3 DEF NumberInv
  <2>3. \A h \in Hooks : hook[h].pc # "idle" => hook[h].ev.cmd \notin K
    BY <1>1, <1>3 DEF NumberInv, CmdInv
  <2> QED BY <2>1, <2>2, <2>3 DEF Pure
<1>5. ASSUME NEW h \in Hooks, hook[h].pc # "idle",
             \A r \in events : r.batch = id => r.ev.session = hook[h].ev.session
      PROVE  Earlier(K, hook[h].ev.cmd)
  BY <1>1, <1>3, <1>5 DEF NumberInv, Earlier
<1>6. \A h \in Hooks : hook[h].pc \in HasBatch /\ hook[h].id = id => Earlier(K, hook[h].ev.cmd)
  BY <1>5 DEF PInv, Agree, HasBatch
<1>7. batches[id].status # "deleted" =>
        \A r \in events : r.batch = id => r.ev.session = batches[id].session
  BY DEF PInv, OwnInv, EventsOwned, Owns
<1> QED BY <1>2, <1>4, <1>5, <1>6, <1>7 DEF Built, Gapless

\* It takes a batch off the list and reads its events.
LEMMA ReadStep ==
  ASSUME PInv, NEW p \in Summarizers, Read(p), UNCHANGED ingestVars
  PROVE  PInv'
<1>1. PICK t \in worker[p].todo :
        worker' = [worker EXCEPT
            ![p].pc = "claim", ![p].todo = worker[p].todo \ {t}, ![p].id = t[1],
            ![p].row = t[2], ![p].evs = EventsOf(t[1])]
  BY DEF Read, Oldest
<1>2. UNCHANGED <<hook, ran, closer, batches, events, drafts>>
  BY DEF Read, journalVars, ingestVars
<1>3. PICK id \in BatchIds : id = t[1]
  BY DEF PInv, PShape, WorkersKeepShape, IsWorker
<1>4. PICK b : b = t[2]
  OBVIOUS
<1>5. IsRow(b) /\ Owns(id, b.session)
  BY <1>3, <1>4 DEF PInv, PShape, WorkersKeepShape, IsWorker, OwnInv, WorkersOwned, WorkerOwned,
                    TodoOwned
<1>6. PICK evs : evs = EventsOf(id)
  OBVIOUS
<1>7. PICK todo : todo = worker[p].todo \ {t}
  OBVIOUS
<1>8. worker = [q \in Summarizers |-> worker[q]] /\ IsWorker(worker[p])
  BY DEF PInv, PShape, WorkersKeepShape
<1>9. PICK x : x = [worker[p] EXCEPT !.pc = "claim", !.todo = todo, !.id = id, !.row = b, !.evs = evs]
  OBVIOUS
<1>10. worker' = [worker EXCEPT ![p] = x]
  <2>1. worker' = [worker EXCEPT ![p].pc = "claim", ![p].todo = todo, ![p].id = id,
                                 ![p].row = b, ![p].evs = evs]
    BY <1>1, <1>3, <1>4, <1>6, <1>7
  <2> QED BY <1>8, <1>9, <2>1
<1>11. IsWorker(x) /\ x.pc = "claim" /\ x.todo = todo /\ x.id = id /\ x.row = b /\ x.evs = evs
  BY <1>3, <1>5, <1>7, <1>8, <1>9 DEF IsWorker
<1>12. Lasting /\ Shape' /\ Gentle
  BY <1>2, RowsSame, RowsTurn, GentleElse DEF PInv
<1>13. DraftShape' /\ DraftInv'
  BY <1>2, <1>12, DraftsSame
<1>14. WorkerOwned(x)'
  <2>1. TodoOwned(todo)'
    BY <1>7, <1>12, ListOwned DEF TodoOwned, Owns
  <2>2. Owns(id, b.session)'
    BY <1>5, <1>12, StillOwned DEF Owns
  <2> QED BY <1>11, <2>1, <2>2 DEF WorkerOwned, TodoOwned, Owns
<1>15. AtWork(x)'
  <2>1. PICK K : K = {e.cmd : e \in evs}
    OBVIOUS
  <2>2. Built(K, id)
    BY <1>6, <2>1, ReadBuilt
  <2>3. Built(K, id)'
    BY <1>5, <1>12, <2>2, BuiltStays DEF Owns
  <2> QED BY <1>11, <2>1, <2>3 DEF AtWork, InMemory
<1> QED BY <1>2, <1>10, <1>11, <1>12, <1>13, <1>14, <1>15, WorkerTurn

\* The row of a worker, written back with another status or count.
LEMMA RowBack ==
  ASSUME PInv, NEW p \in Summarizers, worker[p].pc \in HasRow, NEW b,
         IsRow(b), b.session = worker[p].row.session, b.status \in LiveStatus,
         batches' = UpdateBatch(worker[p].id, b)
  PROVE  RowsKeepShape /\ Lasting
<1>1. worker[p].id \in BatchIds /\ Owns(worker[p].id, worker[p].row.session)
  BY DEF PInv, PShape, WorkersKeepShape, IsWorker, OwnInv, WorkersOwned, WorkerOwned
<1> QED BY <1>1, Rewritten DEF PInv

\* It is done with a batch, whose row it wrote.
LEMMA DoneTurn ==
  ASSUME PInv, NEW p \in Summarizers,
         \/ \E todo \in SUBSET worker[p].todo : Proceed(p, todo)
         \/ worker' = [worker EXCEPT ![p] = IdleWorker],
         RowsKeepShape, Lasting, UNCHANGED <<hook, ran, closer, events, drafts>>
  PROVE  PInv'
<1>1. Shape'
  BY RowsTurn
<1>2. ASSUME NEW todo \in SUBSET worker[p].todo, Proceed(p, todo) PROVE PInv'
  <2>1. TodoOwned(todo)' /\ \A t \in todo : t[1] \in BatchIds /\ IsRow(t[2])
    BY ListOwned
  <2>2. PICK tick : tick = worker[p].tick
    OBVIOUS
  <2>3. PICK x : x = [IdleWorker EXCEPT !.pc = "next", !.tick = tick, !.todo = todo]
    OBVIOUS
  <2>4. IsWorker(x) /\ x.pc = "next" /\ x.todo = todo
    BY <2>1, <2>3, IdleWorkerFine DEF IsWorker
  <2>5. worker' = [worker EXCEPT ![p] = x]
    BY <1>2, <2>2, <2>3 DEF Proceed
  <2>6. TodoOwned(x.todo)'
    BY <2>1, <2>4 DEF TodoOwned, Owns
  <2> QED BY <1>1, <2>4, <2>5, <2>6, BetweenTurn DEF HasRow
<1>3. CASE worker' = [worker EXCEPT ![p] = IdleWorker]
  BY <1>1, <1>3, IdleWorkerFine, BetweenTurn DEF HasRow, TodoOwned
<1> QED BY <1>2, <1>3

\* There are no events, or the engine refuses, fails, or is not there, or the
\* draft is stored: its last word on a batch.
LEMMA LastWord ==
  ASSUME PInv, NEW p \in Summarizers, UNCHANGED ingestVars,
         SkipEmpty(p) \/ (\E e \in Errors : ReplyError(p, e)) \/ Finish(p)
  PROVE  PInv'
<1>1. UNCHANGED <<hook, ran, closer, events, drafts>> /\ worker[p].pc \in HasRow
  BY DEF SkipEmpty, EmptyAs, ReplyError, Finish, ingestVars, HasRow
<1>2. \/ \E todo \in SUBSET worker[p].todo : Proceed(p, todo)
      \/ worker' = [worker EXCEPT ![p] = IdleWorker]
  BY DEF SkipEmpty, EmptyAs, ReplyError, Finish
<1>3. IsRow(worker[p].row)
  BY DEF PInv, PShape, WorkersKeepShape, IsWorker
<1>4. \E status \in {"skipped", "failed", "summarized"} : \E n :
        batches' = UpdateBatch(worker[p].id,
                     [worker[p].row EXCEPT !.status = status, !.attempts = n])
  <2>1. ASSUME NEW status \in {"skipped", "summarized"},
               batches' = UpdateBatch(worker[p].id, [worker[p].row EXCEPT !.status = status])
        PROVE  \E n : batches' = UpdateBatch(worker[p].id,
                        [worker[p].row EXCEPT !.status = status, !.attempts = n])
    <3>1. [worker[p].row EXCEPT !.status = status, !.attempts = worker[p].row.attempts]
            = [worker[p].row EXCEPT !.status = status]
      BY <1>3 DEF IsRow
    <3> QED BY <2>1, <3>1
  <2>2. CASE SkipEmpty(p)
    BY <2>1, <2>2 DEF SkipEmpty, EmptyAs
  <2>3. CASE Finish(p)
    BY <2>1, <2>3 DEF Finish
  <2>4. CASE \E e \in Errors : ReplyError(p, e)
    BY <2>4 DEF ReplyError
  <2> QED BY <2>2, <2>3, <2>4
<1>5. PICK status \in {"skipped", "failed", "summarized"} : \E n :
        batches' = UpdateBatch(worker[p].id,
                     [worker[p].row EXCEPT !.status = status, !.attempts = n])
  BY <1>4
<1>6. PICK n :
        batches' = UpdateBatch(worker[p].id,
                     [worker[p].row EXCEPT !.status = status, !.attempts = n])
  BY <1>5
<1>7. PICK b : b = [worker[p].row EXCEPT !.status = status, !.attempts = n]
  OBVIOUS
<1>8. IsRow(b) /\ b.session = worker[p].row.session /\ b.status = status
  BY <1>3, <1>7 DEF IsRow
<1>9. RowsKeepShape /\ Lasting
  BY <1>1, <1>6, <1>7, <1>8, RowBack DEF LiveStatus
<1> QED BY <1>1, <1>2, <1>9, DoneTurn

\* It claims a batch, the engine answers, the draft is stored.
LEMMA ForthStep ==
  ASSUME PInv, NEW p \in Summarizers, Claim(p) \/ Reply(p) \/ Save(p), UNCHANGED ingestVars
  PROVE  PInv'
<1>1. /\ worker[p].pc \in {"claim", "call", "save"} /\ worker[p].evs # {}
      /\ UNCHANGED <<hook, ran, closer, events>>
  BY DEF Claim, ClaimAs, Reply, Save, journalVars, ingestVars, PInv, WorkInv, AtWork
<1>2. worker = [q \in Summarizers |-> worker[q]] /\ IsWorker(worker[p]) /\ IsRow(worker[p].row)
  BY DEF PInv, PShape, WorkersKeepShape, IsWorker
<1>3. PICK x :
        /\ worker' = [worker EXCEPT ![p] = x]
        /\ IsWorker(x) /\ x.pc \in {"call", "save", "finish"}
        /\ x.todo = worker[p].todo /\ x.id = worker[p].id /\ x.evs = worker[p].evs
        /\ x.row.session = worker[p].row.session
        /\ RowsKeepShape /\ Lasting
  <2>1. CASE Claim(p)
    <3>1. PICK row : row = [worker[p].row EXCEPT !.status = "summarizing",
                                                  !.attempts = worker[p].row.attempts + 1]
      OBVIOUS
    <3>2. IsRow(row) /\ row.session = worker[p].row.session /\ row.status = "summarizing"
      BY <1>2, <3>1 DEF IsRow
    <3>3. /\ batches' = UpdateBatch(worker[p].id, row) /\ worker[p].pc = "claim"
          /\ worker' = [worker EXCEPT ![p].pc = "call", ![p].row = row]
      BY <2>1, <3>1 DEF Claim, ClaimAs
    <3>4. RowsKeepShape /\ Lasting
      BY <3>2, <3>3, RowBack DEF HasRow, LiveStatus
    <3>5. PICK x : x = [worker[p] EXCEPT !.pc = "call", !.row = row]
      OBVIOUS
    <3>6. /\ IsWorker(x) /\ x.pc = "call" /\ x.row = row
          /\ x.todo = worker[p].todo /\ x.id = worker[p].id /\ x.evs = worker[p].evs
      BY <1>2, <3>2, <3>5 DEF IsWorker
    <3>7. worker' = [worker EXCEPT ![p] = x]
      BY <1>2, <3>3, <3>5
    <3> QED BY <3>2, <3>4, <3>6, <3>7
  <2>2. ASSUME NEW pc \in {"save", "finish"}, worker' = [worker EXCEPT ![p].pc = pc],
               batches' = batches
        PROVE  \E x :
          /\ worker' = [worker EXCEPT ![p] = x]
          /\ IsWorker(x) /\ x.pc \in {"call", "save", "finish"}
          /\ x.todo = worker[p].todo /\ x.id = worker[p].id /\ x.evs = worker[p].evs
          /\ x.row.session = worker[p].row.session
          /\ RowsKeepShape /\ Lasting
    <3>1. PICK x : x = [worker[p] EXCEPT !.pc = pc]
      OBVIOUS
    <3>2. /\ IsWorker(x) /\ x.pc = pc /\ x.row = worker[p].row
          /\ x.todo = worker[p].todo /\ x.id = worker[p].id /\ x.evs = worker[p].evs
      BY <1>2, <3>1 DEF IsWorker
    <3>3. worker' = [worker EXCEPT ![p] = x]
      BY <1>2, <2>2, <3>1
    <3>4. RowsKeepShape /\ Lasting
      BY <2>2, RowsSame DEF PInv
    <3> QED BY <3>2, <3>3, <3>4
  <2>3. CASE Reply(p)
    <3>1. worker' = [worker EXCEPT ![p].pc = "save"] /\ batches' = batches
      BY <2>3 DEF Reply, journalVars
    <3> QED BY <2>2, <3>1
  <2>4. CASE Save(p)
    <3>1. worker' = [worker EXCEPT ![p].pc = "finish"] /\ batches' = batches
      BY <2>4 DEF Save
    <3> QED BY <2>2, <3>1
  <2> QED BY <2>1, <2>3, <2>4
<1>4. PICK row : row = x.row
  OBVIOUS
<1>5. row = x.row /\ row.session = worker[p].row.session
  BY <1>3, <1>4
<1>6. Shape' /\ Gentle
  BY <1>1, <1>3, RowsTurn, GentleElse DEF PInv
<1>7. PICK id \in BatchIds : id = x.id
  BY <1>3, <1>5 DEF IsWorker
<1>8. Owns(id, row.session) /\ TodoOwned(x.todo)'
  <2>1. Owns(id, row.session)
    BY <1>1, <1>3, <1>5, <1>7 DEF PInv, OwnInv, WorkersOwned, WorkerOwned, HasRow
  <2> QED BY <1>3, <1>5, <2>1, ListOwned
<1>9. WorkerOwned(x)'
  <2>1. Owns(id, row.session)'
    BY <1>3, <1>8, StillOwned DEF Owns
  <2> QED BY <1>3, <1>5, <1>7, <1>8, <2>1 DEF WorkerOwned, TodoOwned, Owns
<1>10. PICK K : K = InMemory(x)
  OBVIOUS
<1>11. Built(K, id) /\ K = {e.cmd : e \in worker[p].evs} /\ K # {}
  BY <1>1, <1>3, <1>5, <1>7, <1>10 DEF PInv, WorkInv, AtWork, InMemory
<1>12. Built(K, id)' /\ batches'[id].status # "absent"
  BY <1>6, <1>8, <1>11, BuiltStays DEF Owns
<1>13. AtWork(x)'
  BY <1>1, <1>3, <1>5, <1>7, <1>10, <1>12 DEF AtWork, InMemory
<1>14. DraftShape' /\ DraftInv'
  <2>1. CASE ~Save(p)
    <3>1. drafts' = drafts
      BY <2>1 DEF Claim, ClaimAs, Reply, journalVars
    <3> QED BY <1>6, <3>1, DraftsSame
  <2>2. CASE Save(p)
    <3>1. PICK d : /\ d = [id |-> Cardinality(drafts) + 1, batch |-> worker[p].id, built |-> K,
                           status |-> "draft"]
                   /\ drafts' = drafts \cup {d}
      BY <1>11, <2>2 DEF Save
    <3>2. d.batch = id /\ d.built = K /\ DOMAIN d = {"id", "batch", "built", "status"}
      BY <1>3, <1>5, <1>7, <3>1
    <3>3. DraftFine(d)'
      BY <1>11, <1>12, <3>2 DEF DraftFine
    <3>4. \A e \in drafts : DraftFine(e)'
      BY <1>6, DraftStays DEF PInv, DraftInv
    <3> QED BY <3>1, <3>2, <3>3, <3>4 DEF PInv, PShape, DraftShape, DraftInv
  <2> QED BY <2>1, <2>2
<1> QED BY <1>1, <1>3, <1>4, <1>5, <1>6, <1>9, <1>13, <1>14, WorkerTurn

\* It leaves, after pruning if it is a tick.
LEMMA LeaveStep ==
  ASSUME PInv, NEW p \in Summarizers, (Leave(p) /\ UNCHANGED ingestVars) \/ PruneTick(p)
  PROVE  PInv'
<1>1. events' \subseteq events /\ UNCHANGED <<hook, ran, closer, batches, drafts>>
  BY DEF Leave, LeaveNoting, PruneTick, Prune, PruneEvents, journalVars, ingestVars
<1>2. Lasting /\ Shape'
  BY <1>1, RowsSame, RowsTurn DEF PInv
<1>3. CASE worker' = [worker EXCEPT ![p] = IdleWorker]
  BY <1>1, <1>2, <1>3, IdleWorkerFine, BetweenTurn DEF HasRow, TodoOwned
<1>4. CASE worker' = [worker EXCEPT ![p].pc = "prune"]
  BY <1>1, <1>2, <1>4, PartTurn DEF HasRow
<1> QED BY <1>3, <1>4 DEF Leave, LeaveNoting, PruneTick, Prune

\* It dies, in whichever part it is.
LEMMA DeathStep ==
  ASSUME PInv, NEW p \in Summarizers, AbortSummarizer(p)
  PROVE  PInv'
<1>1. /\ UNCHANGED <<hook, ran, batches, events, drafts>>
      /\ worker' = [worker EXCEPT ![p] = IdleWorker]
      /\ closer' = [closer EXCEPT ![p] = IdleCloser] /\ p \in Closers
  BY PipelineAssumption DEF AbortSummarizer, Abort, journalVars
<1>2. Lasting /\ RowsKeepShape /\ Shape
  BY <1>1, RowsSame DEF PInv, PShape
<1>3. IsCloser(IdleCloser) /\ IdleCloser.todo = {}
  BY DEF IsCloser, IdleCloser
<1>4. Shape'
  BY <1>1, <1>2, <1>3, CloserShape DEF RowsKeepShape, Shape
<1>5. ClosersOwned'
  <2> SUFFICES ASSUME NEW c \in Closers PROVE TodoOwned(closer[c].todo)'
    BY DEF ClosersOwned
  <2>1. closer'[c] = IF c = p THEN IdleCloser ELSE closer[c]
    BY <1>1, <1>2 DEF Shape
  <2> QED BY <1>1, <1>3, <2>1 DEF PInv, OwnInv, ClosersOwned, TodoOwned, Owns
<1> QED BY <1>1, <1>2, <1>4, <1>5, IdleWorkerFine, BetweenTurn DEF HasRow, TodoOwned

----------------------------------------------------------------------------
\* All together

LEMMA PipelineStarts == PipelineInit => PInv
<1> SUFFICES ASSUME PipelineInit PROVE PInv
  OBVIOUS
<1>1. Shape
  BY ShapeInit DEF PipelineInit
<1>2. \A h \in Hooks : hook[h].pc = "idle"
  BY IdleHookShape DEF PipelineInit, Init, IngestInit
<1>3. events = {} /\ drafts = {} /\ ran = 0
  BY DEF PipelineInit, Init, IngestInit, JournalInit
<1>4. \A c \in Closers : closer[c].todo = {}
  BY DEF PipelineInit, Init, IngestInit, IdleCloser
<1>5. /\ worker = [p \in Summarizers |-> IdleWorker]
      /\ IsWorker(IdleWorker) /\ IdleWorker.pc = "idle" /\ IdleWorker.todo = {}
  BY IdleWorkerFine DEF PipelineInit, WorkerInit
<1> HIDE DEF IdleWorker
<1>6. PShape
  BY <1>1, <1>3, <1>5 DEF PShape, WorkersKeepShape, DraftShape
<1>7. OwnInv
  BY <1>2, <1>3, <1>4, <1>5 DEF OwnInv, EventsOwned, HooksOwned, HookOwned, HasBatch, ClosersOwned,
                                TodoOwned, WorkersOwned, WorkerOwned, HasRow
<1>8. NumberInv /\ Agree
  BY <1>2, <1>3 DEF NumberInv, CmdInv, Alone, Agree, HasBatch
<1>9. WorkInv /\ DraftInv
  BY <1>3, <1>5 DEF WorkInv, AtWork, DraftInv
<1> QED BY <1>6, <1>7, <1>8, <1>9 DEF PInv

LEMMA PipelineGoesOn ==
  ASSUME ~Overlap, PInv, [PipelineNext]_pipelineVars
  PROVE  PInv'
<1>1. ASSUME HookNext \/ EnderNext \/ Clock \/ Forget, UNCHANGED workerVars
      PROVE  PInv'
  <2>1. CASE HookNext
    BY ~Overlap, <1>1, <2>1, IngestStep DEF HookNext
  <2>2. CASE EnderNext \/ Clock \/ Forget
    BY <1>1, <2>2, EnderStep, ForgetStep
  <2> QED BY <1>1, <2>1, <2>2
<1>2. ASSUME NEW p \in Summarizers, PipelineStep(p) \/ AbortSummarizer(p)
      PROVE  PInv'
  <2>1. CASE Closing(p)
    BY <2>1, ClosesStep
  <2>2. CASE Step(p) /\ UNCHANGED ingestVars
    <3>1. CASE List(p) \/ PassOver(p) \/ Read(p)
      BY <2>2, <3>1, ListStep, PassStep, ReadStep
    <3>2. CASE SkipEmpty(p) \/ (\E e \in Errors : ReplyError(p, e)) \/ Finish(p)
      BY <2>2, <3>2, LastWord
    <3>3. CASE Claim(p) \/ Reply(p) \/ Save(p)
      BY <2>2, <3>3, ForthStep
    <3>4. CASE Leave(p)
      BY <2>2, <3>4, LeaveStep
    <3> QED BY <2>2, <3>1, <3>2, <3>3, <3>4 DEF Step
  <2>3. CASE PruneTick(p)
    BY <2>3, LeaveStep
  <2>4. CASE AbortSummarizer(p)
    BY <2>4, DeathStep
  <2> QED BY <1>2, <2>1, <2>2, <2>3, <2>4 DEF PipelineStep
<1>3. ASSUME \/ \E w \in Workers : RunSpawned(w) \/ StartTick(w)
             \/ \E m \in Manual, s \in Sessions : StartManualNow(m, s)
             \/ Bounce
      PROVE  PInv'
  BY <1>3, SpawnedStep, ClosingStarts
<1>4. CASE UNCHANGED pipelineVars
  <2>1. UNCHANGED <<hook, ran, closer, batches, events, drafts, worker>>
    BY <1>4 DEF pipelineVars, journalVars, ingestVars, workerVars
  <2>2. Lasting /\ Shape'
    BY <2>1, RowsSame, RowsTurn DEF PInv
  <2> QED BY <2>1, <2>2, OtherStep
<1> QED BY <1>1, <1>2, <1>3, <1>4 DEF PipelineNext, SummarizerNext

\* The invariant: whose rows everybody has, in which order the commands came,
\* and what every worker has in memory and every draft was written from.
THEOREM PipelineInvariant ==
  ASSUME ~Overlap
  PROVE  PipelineSpec => []PInv
<1>1. PInv /\ [PipelineNext]_pipelineVars => PInv'
  BY ~Overlap, PipelineGoesOn
<1> QED BY <1>1, PipelineStarts, PTL DEF PipelineSpec

\* A draft has no hole: it holds commands of its own batch only, and every
\* command of the batch that it lacks came after those it holds, whatever
\* ingests, ending sessions, ticks, forgets, deaths and a `now` without the
\* lock come between the statements of SummarizeBatch (worker.go).
THEOREM NoHoleInDrafts ==
  ASSUME ~Overlap
  PROVE  PipelineSpec => []DraftsHaveNoHole
<1>1. PInv => DraftsHaveNoHole
  <2> SUFFICES ASSUME PInv, NEW d \in drafts
               PROVE  /\ d.built # {}
                      /\ \A r \in events : r.ev.cmd \in d.built => r.batch = d.batch
                      /\ \A missed \in Credited(d.batch) \ d.built, held \in d.built : held < missed
    BY DEF DraftsHaveNoHole
  <2>1. d.built # {} /\ Pure(d.built, d.batch) /\ Gapless(d.built, d.batch)
    BY DEF PInv, DraftInv, DraftFine, Built
  <2>2. ASSUME NEW missed, missed \in Credited(d.batch), missed \notin d.built
        PROVE  Earlier(d.built, missed)
    <3>1. \/ \E r \in events : r.batch = d.batch /\ r.ev.cmd = missed
          \/ \E h \in Hooks : hook[h].pc = "insert" /\ hook[h].id = d.batch /\ hook[h].ev.cmd = missed
      BY <2>2 DEF Credited, Attributed, EventsOf, InFlight
    <3> QED BY <2>1, <2>2, <3>1 DEF Gapless, HasBatch
  <2> QED BY <2>1, <2>2 DEF Pure, Earlier
<1> QED BY <1>1, PipelineInvariant, PTL
=============================================================================
