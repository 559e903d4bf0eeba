---------------------------- MODULE IngestProofs ----------------------------
(***************************************************************************)
(* Proofs about Ingest, for any number of sessions, hooks, closing         *)
(* processes, commands, kills and forgets, and any policy.  Only that two  *)
(* ingests of one session do not overlap is assumed, where it is needed.   *)
(***************************************************************************)
EXTENDS Ingest, FiniteSetTheorems, TLAPS

----------------------------------------------------------------------------
\* Rows and processes.  The score of a row is a sum over a set, of which the
\* prover knows nothing; nothing here depends on it, so rows are records with
\* these fields rather than members of Batch.

IsRow(b) ==
  /\ DOMAIN b = {"session", "startedAt", "lastEventAt", "status", "score", "meaningful",
                 "count", "attempts"}
  /\ b = [field \in DOMAIN b |-> b[field]]

IsHook(x) ==
  /\ DOMAIN x = {"pc", "ev", "id", "row", "wake"}
  /\ x = [field \in DOMAIN x |-> x[field]]
  /\ x.ev.session \in Sessions /\ x.id \in BatchIds /\ IsRow(x.row)

IsCloser(x) ==
  /\ DOMAIN x = {"pc", "kind", "at", "more", "todo", "session"}
  /\ x = [field \in DOMAIN x |-> x[field]]
  /\ \A t \in x.todo : t[1] \in BatchIds /\ IsRow(t[2])

Shape ==
  /\ batches = [id \in BatchIds |-> batches[id]] /\ \A id \in BatchIds : IsRow(batches[id])
  /\ hook = [h \in Hooks |-> hook[h]] /\ \A h \in Hooks : IsHook(hook[h])
  /\ closer = [c \in Closers |-> closer[c]] /\ \A c \in Closers : IsCloser(closer[c])

\* Close keeps a row a row, and open it is not.
LEMMA ClosedRow ==
  ASSUME NEW b, IsRow(b)
  PROVE  /\ IsRow(Closed(b)) /\ Closed(b).session = b.session
         /\ Closed(b).meaningful = b.meaningful
         /\ Closed(b).status \in {"pending_summary", "skipped"}
         /\ Closed(b).status = "pending_summary" <=> b.meaningful >= MinMeaningful
BY DEF Closed, IsRow

\* Counting an event.
LEMMA CountedRow ==
  ASSUME NEW b, IsRow(b), NEW ev
  PROVE  /\ IsRow(Counted(b, ev)) /\ Counted(b, ev).session = b.session
         /\ Counted(b, ev).status = b.status /\ Counted(b, ev).count = b.count + 1
         /\ Counted(b, ev).meaningful = IF ev.meaningful THEN b.meaningful + 1 ELSE b.meaningful
BY DEF Counted, IsRow

\* Changing the status changes nothing else.
LEMMA StatusRow ==
  ASSUME NEW b, IsRow(b), NEW status
  PROVE  LET c == [b EXCEPT !.status = status]
         IN /\ IsRow(c) /\ c.session = b.session /\ c.count = b.count
            /\ c.meaningful = b.meaningful /\ c.status = status
BY DEF IsRow

\* A new row is open and counts nothing.
LEMMA OpenedRow ==
  ASSUME NEW ev
  PROVE  /\ IsRow(Opened(ev)) /\ Opened(ev).session = ev.session /\ Opened(ev).status = "open"
         /\ Opened(ev).count = 0 /\ Opened(ev).meaningful = 0
BY DEF Opened, IsRow

\* Counting again keeps a row's session and status, or deletes it.
LEMMA RecountedRow ==
  ASSUME NEW id, IsRow(batches[id]), NEW left
  PROVE  /\ IsRow(Recounted(id, left))
         /\ Recounted(id, left).status = "open" =>
              batches[id].status = "open" /\ Recounted(id, left).session = batches[id].session
<1> DEFINE b == batches[id]
           evs == {r.ev : r \in {x \in left : x.batch = id}}
<1>1. IsRow([Blank EXCEPT !.status = "deleted"]) /\ [Blank EXCEPT !.status = "deleted"].status = "deleted"
  BY DEF IsRow, Blank
<1> DEFINE n == Cardinality(evs)
           m == Cardinality(MeaningfulIn(evs))
           w == MapThenSumSet(LAMBDA e : e.weight, evs)
           none == evs = {} /\ b.status \in {"open", "pending_summary", "skipped"}
<1>2. Recounted(id, left) =
        IF b.status \in NoRow THEN b
        ELSE IF none THEN [Blank EXCEPT !.status = "deleted"]
        ELSE [b EXCEPT !.count = n, !.meaningful = m, !.score = w]
  BY Zenon DEF Recounted
<1> HIDE DEF n, m, w, none
<1>3. LET c == [b EXCEPT !.count = n, !.meaningful = m, !.score = w]
      IN IsRow(c) /\ c.session = b.session /\ c.status = b.status
  BY DEF IsRow
<1> QED BY <1>1, <1>2, <1>3

----------------------------------------------------------------------------
\* What each step does to its process

Others(h) == \A g \in Hooks : g # h => hook'[g] = hook[g]

HooksKeepShape ==
  hook' = [g \in Hooks |-> hook'[g]] /\ \A g \in Hooks : IsHook(hook'[g])

\* A step of one ingest.
LEMMA HookChange ==
  ASSUME Shape, NEW h \in Hooks, NEW x, IsHook(x), hook' = [hook EXCEPT ![h] = x]
  PROVE  HooksKeepShape /\ Others(h) /\ hook'[h] = x
BY DEF Shape, HooksKeepShape, Others

\* An ingest at its start and after its end.
LEMMA IdleHookShape ==
  /\ IsHook(IdleHook) /\ IdleHook.pc = "idle"
  /\ \A ev : ev.session \in Sessions =>
       LET x == [IdleHook EXCEPT !.pc = "open", !.ev = ev]
       IN IsHook(x) /\ x.pc = "open" /\ x.ev = ev
<1>1. AnyBatch \in BatchIds
  BY JournalAssumption DEF AnyBatch
<1>2. IsRow(Blank)
  BY DEF IsRow, Blank
<1>3. NoEvent.session \in Sessions
  BY JournalAssumption DEF NoEvent
<1> QED BY <1>1, <1>2, <1>3 DEF IsHook, IdleHook

\* A started ingest holds a command with the next number.
LEMMA StartEffect ==
  ASSUME Shape, NEW h \in Hooks, NEW s \in Sessions, StartIngest(h, s)
  PROVE  /\ HooksKeepShape /\ Others(h) /\ hook'[h].pc = "open"
         /\ hook'[h].ev.session = s /\ hook'[h].ev.cmd = ran + 1 /\ hook'[h].ev.seen = now
<1>1. PICK c \in Commands, d \in Durations :
        hook' = [hook EXCEPT ![h] =
            [IdleHook EXCEPT !.pc = "open",
               !.ev = [cmd |-> ran + 1, session |-> s, start |-> now - d,
                       seen |-> now, meaningful |-> c.meaningful,
                       weight |-> c.weight, family |-> c.family,
                       milestone |-> c.milestone]]]
  BY DEF StartIngest
<1> DEFINE ev == [cmd |-> ran + 1, session |-> s, start |-> now - d, seen |-> now,
                  meaningful |-> c.meaningful, weight |-> c.weight, family |-> c.family,
                  milestone |-> c.milestone]
           x == [IdleHook EXCEPT !.pc = "open", !.ev = ev]
<1>2. ev.session = s /\ ev.cmd = ran + 1 /\ ev.seen = now
  OBVIOUS
<1> HIDE DEF ev
<1>3. IsHook(x) /\ x.pc = "open" /\ x.ev = ev
  BY <1>2, IdleHookShape
<1>4. hook' = [hook EXCEPT ![h] = x]
  BY <1>1 DEF ev
<1> HIDE DEF x
<1> QED BY <1>2, <1>3, <1>4, HookChange

\* An ingest takes the session's newest open batch, or creates one.
LEMMA ReadOpenEffect ==
  ASSUME Shape, NEW h \in Hooks, ReadOpen(h)
  PROVE  /\ HooksKeepShape /\ Others(h) /\ hook'[h].ev = hook[h].ev
         /\ \/ OpenOf(hook[h].ev.session) = {} /\ hook'[h].pc = "create"
            \/ \E id \in OpenOf(hook[h].ev.session) :
                 /\ hook'[h].id = id /\ hook'[h].row = batches[id]
                 /\ hook'[h].pc = IF Rotates(batches[id], hook[h].ev.seen)
                                  THEN "rotate" ELSE "decide"
<1>0. IsHook(hook[h])
  BY DEF Shape
<1>1. CASE OpenOf(hook[h].ev.session) = {} /\ hook' = [hook EXCEPT ![h].pc = "create"]
  <2> DEFINE x == [hook[h] EXCEPT !.pc = "create"]
  <2>1. IsHook(x) /\ x.ev = hook[h].ev /\ x.pc = "create"
    BY <1>0 DEF IsHook
  <2>2. hook' = [hook EXCEPT ![h] = x]
    BY <1>1
  <2> HIDE DEF x
  <2> QED BY <1>1, <2>1, <2>2, HookChange
<1>2. ASSUME NEW id \in NewestOpen(hook[h].ev.session), NEW pc,
             pc = IF Rotates(batches[id], hook[h].ev.seen) THEN "rotate" ELSE "decide",
             hook' = [hook EXCEPT ![h].id = id, ![h].row = batches[id], ![h].pc = pc]
      PROVE  /\ HooksKeepShape /\ Others(h) /\ hook'[h].ev = hook[h].ev
             /\ hook'[h].id = id /\ hook'[h].row = batches[id] /\ hook'[h].pc = pc
             /\ id \in OpenOf(hook[h].ev.session)
  <2> DEFINE x == [hook[h] EXCEPT !.id = id, !.row = batches[id], !.pc = pc]
  <2>1. id \in OpenOf(hook[h].ev.session) /\ id \in BatchIds /\ IsRow(batches[id])
    BY DEF NewestOpen, OpenOf, Listed, Shape
  <2>2. IsHook(x) /\ x.ev = hook[h].ev /\ x.pc = pc /\ x.id = id /\ x.row = batches[id]
    BY <1>0, <2>1 DEF IsHook
  <2>3. hook' = [hook EXCEPT ![h] = x]
    BY <1>2
  <2> HIDE DEF x
  <2> QED BY <2>1, <2>2, <2>3, HookChange
<1>3. \/ OpenOf(hook[h].ev.session) = {} /\ hook' = [hook EXCEPT ![h].pc = "create"]
      \/ \E id \in NewestOpen(hook[h].ev.session) : \E pc :
           /\ pc = IF Rotates(batches[id], hook[h].ev.seen) THEN "rotate" ELSE "decide"
           /\ hook' = [hook EXCEPT ![h].id = id, ![h].row = batches[id], ![h].pc = pc]
  BY DEF ReadOpen
<1> QED BY <1>1, <1>2, <1>3

\* After closing, an ingest creates a batch.
LEMMA RotateEffect ==
  ASSUME Shape, NEW h \in Hooks, Rotate(h)
  PROVE  /\ HooksKeepShape /\ Others(h)
         /\ hook'[h].ev = hook[h].ev /\ hook'[h].pc = "create"
<1> DEFINE wake == Closed(hook[h].row).status = "pending_summary"
           x == [hook[h] EXCEPT !.pc = "create", !.wake = wake]
<1>1. IsHook(x) /\ x.ev = hook[h].ev /\ x.pc = "create"
  <2> HIDE DEF wake
  <2> QED BY DEF IsHook, Shape
<1>2. hook' = [hook EXCEPT ![h] = x]
  BY DEF Rotate
<1> HIDE DEF x
<1> QED BY <1>1, <1>2, HookChange

\* An ingest goes on with the row it inserted.
LEMMA CreateEffect ==
  ASSUME Shape, NEW h \in Hooks, Create(h)
  PROVE  /\ HooksKeepShape /\ Others(h)
         /\ hook'[h].ev = hook[h].ev /\ hook'[h].pc = "decide"
         /\ hook'[h].id = NewId /\ hook'[h].row = Opened(hook[h].ev)
         /\ NewId \in FreshIds
<1> DEFINE row == Opened(hook[h].ev)
           x == [hook[h] EXCEPT !.id = NewId, !.row = row, !.pc = "decide"]
<1>1. NewId \in FreshIds /\ NewId \in BatchIds
  BY DEF Create, FreshIds, NewId
<1>2. IsHook(x) /\ x.ev = hook[h].ev /\ x.pc = "decide" /\ x.id = NewId /\ x.row = row
  <2>1. IsRow(row)
    BY OpenedRow
  <2> HIDE DEF row
  <2> QED BY <1>1, <2>1 DEF IsHook, Shape
<1>3. hook' = [hook EXCEPT ![h] = x]
  BY DEF Create
<1> HIDE DEF x
<1> QED BY <1>1, <1>2, <1>3, HookChange

\* The row in memory counts the event, and is pending only with enough work.
LEMMA DecideEffect ==
  ASSUME Shape, NEW h \in Hooks, Decide(h)
  PROVE  /\ HooksKeepShape /\ Others(h)
         /\ hook'[h].ev = hook[h].ev /\ hook'[h].id = hook[h].id
         /\ hook'[h].pc \in {"mark", "write"}
         /\ hook'[h].row.session = hook[h].row.session
         /\ hook'[h].row.count = hook[h].row.count + 1
         /\ hook'[h].row.meaningful = IF hook[h].ev.meaningful THEN hook[h].row.meaningful + 1
                                                             ELSE hook[h].row.meaningful
         /\ \/ hook'[h].row.status = hook[h].row.status
            \/ /\ hook'[h].row.status = "pending_summary"
               /\ hook'[h].row.meaningful >= MinMeaningful
         /\ hook'[h].pc = "mark" => CooledDown(lastSummary[hook[h].ev.session], hook[h].ev.seen)
<1> DEFINE ev == hook[h].ev
           row == Counted(hook[h].row, ev)
           fires == /\ Triggers(row, ev, EventsOf(hook[h].id), ev.seen)
                    /\ CooledDown(lastSummary[ev.session], ev.seen)
           status == IF fires THEN "pending_summary" ELSE row.status
           pc == IF fires THEN "mark" ELSE "write"
           wake == hook[h].wake \/ fires
           new == [row EXCEPT !.status = status]
           x == [hook[h] EXCEPT !.row = new, !.wake = wake, !.pc = pc]
<1>1. fires => row.meaningful >= MinMeaningful
  BY DEF Triggers
<1>2. IsRow(row) /\ IsHook(hook[h])
  BY CountedRow DEF IsHook, Shape
<1>3. /\ IsRow(new) /\ new.session = row.session /\ new.count = row.count
      /\ new.meaningful = row.meaningful /\ new.status = status
  <2> HIDE DEF row, status
  <2> QED BY <1>2, StatusRow
<1>4. /\ IsHook(x) /\ x.ev = ev /\ x.id = hook[h].id /\ x.pc = pc /\ x.row = new
  <2> HIDE DEF new, wake, pc
  <2> QED BY <1>2, <1>3 DEF IsHook
<1>5. hook' = [hook EXCEPT ![h] = x]
  BY DEF Decide
<1>6. HooksKeepShape /\ Others(h) /\ hook'[h] = x
  <2> HIDE DEF x
  <2> QED BY <1>4, <1>5, HookChange
<1>7. /\ row.session = hook[h].row.session /\ row.status = hook[h].row.status
      /\ row.count = hook[h].row.count + 1
      /\ row.meaningful = IF ev.meaningful THEN hook[h].row.meaningful + 1
                                           ELSE hook[h].row.meaningful
  BY <1>2, CountedRow DEF IsHook
<1>8. \/ status = row.status
      \/ status = "pending_summary" /\ row.meaningful >= MinMeaningful
  BY <1>1
<1>9. /\ pc \in {"mark", "write"}
      /\ pc = "mark" => CooledDown(lastSummary[ev.session], ev.seen)
  OBVIOUS
<1> HIDE DEF x, new, row, status, pc
<1> QED BY <1>3, <1>4, <1>6, <1>7, <1>8, <1>9

\* Mark and Write only go on; an ingest that ends leaves nothing.
LEMMA GoOnEffect ==
  ASSUME Shape, NEW h \in Hooks, Mark(h) \/ Write(h)
  PROVE  /\ HooksKeepShape /\ Others(h)
         /\ hook'[h].ev = hook[h].ev /\ hook'[h].id = hook[h].id /\ hook'[h].row = hook[h].row
         /\ hook'[h].pc = IF hook[h].pc = "mark" THEN "write" ELSE "insert"
<1> DEFINE pc == IF hook[h].pc = "mark" THEN "write" ELSE "insert"
           x == [hook[h] EXCEPT !.pc = pc]
<1>1. /\ IsHook(x) /\ x.ev = hook[h].ev /\ x.id = hook[h].id /\ x.row = hook[h].row /\ x.pc = pc
  <2> HIDE DEF pc
  <2> QED BY DEF IsHook, Shape
<1>2. hook' = [hook EXCEPT ![h] = x]
  BY DEF Mark, Write
<1> HIDE DEF x
<1> QED BY <1>1, <1>2, HookChange

\* An ingest that stored its event, or died, holds nothing.
LEMMA EndEffect ==
  ASSUME Shape, NEW h \in Hooks, Insert(h) \/ KillIngest(h)
  PROVE  HooksKeepShape /\ Others(h) /\ hook'[h].pc = "idle"
<1>1. hook' = [hook EXCEPT ![h] = IdleHook]
  BY DEF Insert, KillIngest
<1>2. IsHook(IdleHook) /\ IdleHook.pc = "idle"
  BY IdleHookShape
<1> QED BY <1>1, <1>2, HookChange

\* What the closing processes hold are rows, too.
LEMMA CloserShape ==
  ASSUME Shape, NEW c \in Closers, NEW x, IsCloser(x), closer' = [closer EXCEPT ![c] = x]
  PROVE  closer' = [d \in Closers |-> closer'[d]] /\ \A d \in Closers : IsCloser(closer'[d])
BY DEF Shape

\* Every step of a closing process leaves it with rows in its list.
LEMMA ClosingShape ==
  ASSUME Shape, NEW c \in Closers,
         \/ \E kind, s, more : \E ids \in SUBSET Listed({"open"}) : Start(c, kind, s, ids, more)
         \/ CloserStep(c) \/ KillCloser(c)
  PROVE  closer' = [d \in Closers |-> closer'[d]] /\ \A d \in Closers : IsCloser(closer'[d])
<1>0. IsCloser(closer[c])
  BY DEF Shape
<1>1. \A ids \in SUBSET BatchIds : \A t \in Rows(ids) : t[1] \in BatchIds /\ IsRow(t[2])
  BY DEF Shape, Rows
<1>2. ASSUME NEW kind, NEW s, NEW more, NEW ids \in SUBSET Listed({"open"}), Start(c, kind, s, ids, more)
      PROVE  \E x : IsCloser(x) /\ closer' = [closer EXCEPT ![c] = x]
  <2> DEFINE todo == Rows(ids)
             x == [pc |-> "closing", kind |-> kind, at |-> now, more |-> more,
                   todo |-> todo, session |-> s]
  <2>1. IsCloser(x)
    <3>1. \A t \in todo : t[1] \in BatchIds /\ IsRow(t[2])
      BY <1>1 DEF Listed
    <3> HIDE DEF todo
    <3> QED BY <3>1 DEF IsCloser
  <2>2. closer' = [closer EXCEPT ![c] = x]
    BY <1>2 DEF Start
  <2> HIDE DEF x
  <2> QED BY <2>1, <2>2
<1>3. CASE CloseNext(c)
  <2>1. PICK t \in closer[c].todo :
          closer' = [closer EXCEPT
               ![c].todo = closer[c].todo \ {t},
               ![c].more = closer[c].more /\ Closed(t[2]).status # "pending_summary",
               ![c].session = t[2].session,
               ![c].pc = IF closer[c].kind = "tick" /\ StaleTimer(t, closer[c].at)
                         THEN "marking" ELSE closer[c].pc]
    BY <1>3 DEF CloseNext
  <2> DEFINE todo == closer[c].todo \ {t}
             more == closer[c].more /\ Closed(t[2]).status # "pending_summary"
             pc == IF closer[c].kind = "tick" /\ StaleTimer(t, closer[c].at)
                   THEN "marking" ELSE closer[c].pc
             session == t[2].session
             x == [closer[c] EXCEPT !.todo = todo, !.more = more, !.session = session, !.pc = pc]
  <2>2. IsCloser(x)
    <3>1. \A u \in todo : u[1] \in BatchIds /\ IsRow(u[2])
      BY <1>0 DEF IsCloser
    <3> HIDE DEF todo, more, pc, session
    <3> QED BY <1>0, <3>1 DEF IsCloser
  <2>3. closer' = [closer EXCEPT ![c] = x]
    BY <2>1
  <2> HIDE DEF x
  <2> QED BY <2>2, <2>3, CloserShape
<1>4. CASE CloserMark(c)
  <2> DEFINE x == [closer[c] EXCEPT !.pc = "closing"]
  <2>1. IsCloser(x)
    BY <1>0 DEF IsCloser
  <2>2. closer' = [closer EXCEPT ![c] = x]
    BY <1>4 DEF CloserMark
  <2> HIDE DEF x
  <2> QED BY <2>1, <2>2, CloserShape
<1>5. CASE FallBack(c)
  <2> DEFINE todo == Rows(Listed({"open"}))
             x == [closer[c] EXCEPT !.more = FALSE, !.todo = todo]
  <2>1. IsCloser(x)
    <3>1. \A u \in todo : u[1] \in BatchIds /\ IsRow(u[2])
      BY <1>1 DEF Listed
    <3> HIDE DEF todo
    <3> QED BY <1>0, <3>1 DEF IsCloser
  <2>2. closer' = [closer EXCEPT ![c] = x]
    BY <1>5 DEF FallBack
  <2> HIDE DEF x
  <2> QED BY <2>1, <2>2, CloserShape
<1>6. CASE FinishClosing(c) \/ KillCloser(c)
  <2>1. IsCloser(IdleCloser)
    BY DEF IsCloser, IdleCloser
  <2> QED BY <1>6, <2>1, CloserShape DEF FinishClosing, KillCloser
<1>7. CASE \E kind, s, more : \E ids \in SUBSET Listed({"open"}) : Start(c, kind, s, ids, more)
  BY <1>2, <1>7, CloserShape
<1> QED BY <1>3, <1>4, <1>5, <1>6, <1>7 DEF CloserStep

\* The starts of a closing process are of one kind.
LEMMA Started ==
  ASSUME NEW c \in Closers, (\E s \in Sessions : EndSession(c, s) \/ StartNow(c, s)) \/ TickDue(c)
  PROVE  \E kind, s, more : \E ids \in SUBSET Listed({"open"}) : Start(c, kind, s, ids, more)
BY DEF EndSession, StartNow, TickDue, StartStale, NewestOpen, OpenOf, Listed

\* A row is replaced by a row.
LEMMA WriteRow ==
  ASSUME Shape, NEW id \in BatchIds, NEW b, IsRow(b),
         batches' = UpdateBatch(id, b) \/ batches' = CreateBatch(id, b)
  PROVE  /\ batches' = [i \in BatchIds |-> batches'[i]] /\ \A i \in BatchIds : IsRow(batches'[i])
         /\ \A i \in BatchIds : i # id => batches'[i] = batches[i]
         /\ batches'[id] \in {batches[id], b}
         /\ batches[id].status \notin NoRow => batches'[id] = b
BY DEF Shape, UpdateBatch, CreateBatch

----------------------------------------------------------------------------
\* What each step does to the rows

RowsKeepShape ==
  batches' = [i \in BatchIds |-> batches'[i]] /\ \A i \in BatchIds : IsRow(batches'[i])

\* No batch is opened.
Shrinks ==
  \A i \in BatchIds : batches'[i].status = "open" =>
    batches[i].status = "open" /\ batches'[i].session = batches[i].session

\* Closing ends with no open row, whatever became of it meanwhile.
LEMMA CloseRow ==
  ASSUME Shape, NEW id \in BatchIds, NEW b, IsRow(b), batches' = UpdateBatch(id, Closed(b))
  PROVE  RowsKeepShape /\ Shrinks /\ batches'[id].status # "open"
<1>1. IsRow(Closed(b)) /\ Closed(b).status # "open"
  BY ClosedRow
<1>2. batches[id].status \in NoRow => batches[id].status # "open"
  BY DEF NoRow
<1> QED BY <1>1, <1>2, WriteRow DEF RowsKeepShape, Shrinks

\* Rows nobody writes stay as they are.
LEMMA SameRows ==
  ASSUME Shape, batches' = batches
  PROVE  RowsKeepShape /\ Shrinks
BY DEF Shape, RowsKeepShape, Shrinks

\* Closing the next batch of a list opens none.
LEMMA ClosingRows ==
  ASSUME Shape, NEW c \in Closers, CloseNext(c)
  PROVE  RowsKeepShape /\ Shrinks
<1>1. PICK t \in closer[c].todo :
        \/ batches' = UpdateBatch(t[1], Closed(t[2]))
        \/ batches' = batches
  BY DEF CloseNext
<1>2. t[1] \in BatchIds /\ IsRow(t[2])
  BY DEF Shape, IsCloser
<1> QED BY <1>1, <1>2, CloseRow, SameRows

\* Forgetting opens none.
LEMMA ForgetRows ==
  ASSUME Shape, Forget
  PROVE  RowsKeepShape /\ Shrinks
<1>1. CASE batches' = batches
  BY <1>1, SameRows
<1>2. ASSUME NEW left, batches' = [id \in BatchIds |-> Recounted(id, left)]
      PROVE  RowsKeepShape /\ Shrinks
  BY <1>2, RecountedRow DEF Shape, RowsKeepShape, Shrinks
<1>3. batches' = batches \/ \E left : batches' = [id \in BatchIds |-> Recounted(id, left)]
  BY DEF Forget, ForgetSession, ForgetSince, DeleteEvents, DeleteLastEvents
<1> QED BY <1>1, <1>2, <1>3

\* Steps of hooks that write rows.
LEMMA HookRows ==
  ASSUME Shape, NEW h \in Hooks, Rotate(h) \/ Create(h) \/ Write(h)
  PROVE  /\ RowsKeepShape
         /\ \A i \in BatchIds : i # hook'[h].id /\ i # hook[h].id => batches'[i] = batches[i]
<1>1. hook[h].id \in BatchIds /\ IsRow(hook[h].row)
  BY DEF Shape, IsHook
<1>2. CASE Rotate(h)
  BY <1>1, <1>2, ClosedRow, WriteRow DEF Rotate, RowsKeepShape
<1>3. CASE Create(h)
  <2>1. NewId \in BatchIds /\ IsRow(Opened(hook[h].ev)) /\ hook'[h].id = NewId
    BY <1>3, CreateEffect, OpenedRow DEF FreshIds
  <2> QED BY <1>3, <2>1, WriteRow DEF Create, RowsKeepShape
<1>4. CASE Write(h)
  BY <1>1, <1>4, WriteRow DEF Write, RowsKeepShape
<1> QED BY <1>2, <1>3, <1>4

\* Rows stay rows and processes processes, whatever happens.
LEMMA ShapeNext ==
  ASSUME Shape, [Next]_vars
  PROVE  Shape'
<1> DEFINE ClosersKeepShape ==
      closer' = [d \in Closers |-> closer'[d]] /\ \A d \in Closers : IsCloser(closer'[d])
<1>1. ASSUME RowsKeepShape, HooksKeepShape, ClosersKeepShape PROVE Shape'
  BY <1>1 DEF RowsKeepShape, HooksKeepShape, Shape
<1>2. UNCHANGED batches => RowsKeepShape
  BY SameRows
<1>3. UNCHANGED hook => HooksKeepShape
  BY DEF Shape, HooksKeepShape
<1>4. UNCHANGED closer => ClosersKeepShape
  BY DEF Shape
<1> HIDE DEF ClosersKeepShape
<1>5. ASSUME NEW h \in Hooks, NEW s \in Sessions, StartIngest(h, s) PROVE Shape'
  BY <1>1, <1>2, <1>4, <1>5, StartEffect DEF StartIngest, journalVars
<1>6. ASSUME NEW h \in Hooks, ReadOpen(h) \/ Decide(h) \/ Mark(h) \/ Insert(h) \/ KillIngest(h)
      PROVE  Shape'
  <2>1. HooksKeepShape
    BY <1>6, ReadOpenEffect, DecideEffect, GoOnEffect, EndEffect
  <2> QED BY <1>1, <1>2, <1>4, <1>6, <2>1
          DEF ReadOpen, Decide, Mark, Insert, KillIngest, journalVars
<1>7. ASSUME NEW h \in Hooks, Rotate(h) \/ Create(h) \/ Write(h) PROVE Shape'
  <2>1. HooksKeepShape /\ RowsKeepShape
    BY <1>7, RotateEffect, CreateEffect, GoOnEffect, HookRows
  <2> QED BY <1>1, <1>4, <1>7, <2>1 DEF Rotate, Create, Write
<1>8. ASSUME NEW c \in Closers,
             \/ \E s \in Sessions : EndSession(c, s) \/ StartNow(c, s)
             \/ TickDue(c) \/ CloserStep(c) \/ KillCloser(c)
      PROVE  Shape'
  <2>1. ClosersKeepShape
    BY <1>8, Started, ClosingShape DEF ClosersKeepShape
  <2>2. RowsKeepShape /\ HooksKeepShape
    BY <1>2, <1>3, <1>8, Started, ClosingRows
       DEF Start, CloserStep, CloseNext, CloserMark, FallBack, FinishClosing, KillCloser, journalVars
  <2> QED BY <1>1, <2>1, <2>2
<1>9. CASE Forget
  BY <1>1, <1>3, <1>4, <1>9, ForgetRows DEF Forget
<1>10. CASE Clock \/ UNCHANGED vars
  BY <1>1, <1>2, <1>3, <1>4, <1>10 DEF Clock, vars, journalVars, ingestVars
<1> QED BY <1>5, <1>6, <1>7, <1>8, <1>9, <1>10 DEF Next, HookNext, CloserNext, HookStep

\* At the start there are blank rows and idle processes.
LEMMA ShapeInit == Init => Shape
<1>1. IsRow(Blank) /\ IsCloser(IdleCloser)
  BY DEF IsRow, Blank, IsCloser, IdleCloser
<1> QED BY <1>1, IdleHookShape DEF Init, JournalInit, IngestInit, Shape

----------------------------------------------------------------------------
\* One open batch.  An ingest that is about to create a batch knows that its
\* session has none open; one that has a batch knows that no other is.

OnlyOpen(h) ==
  /\ hook[h].pc = "create" => OpenOf(hook[h].ev.session) = {}
  /\ hook[h].pc \in {"rotate", "decide", "mark", "write"} =>
       /\ OpenOf(hook[h].ev.session) \subseteq {hook[h].id}
       /\ hook[h].row.session = hook[h].ev.session

Single(s) == \A a, b \in OpenOf(s) : a = b

Alone ==
  \A g, h \in Hooks :
    hook[g].pc # "idle" /\ hook[h].pc # "idle" /\ hook[g].ev.session = hook[h].ev.session
    => g = h

OInv == Alone /\ (\A s \in Sessions : Single(s)) /\ \A h \in Hooks : OnlyOpen(h)

\* A step that opens no batch and leaves the ingests alone.
LEMMA OnlyShrunk ==
  ASSUME OInv, Shrinks, hook' = hook
  PROVE  OInv'
<1>1. \A s : OpenOf(s)' \subseteq OpenOf(s)
  BY DEF Shrinks, OpenOf, Listed
<1> QED BY <1>1 DEF OInv, Alone, Single, OnlyOpen

\* A step of one ingest, which may open its own batch.
LEMMA OwnTurn ==
  ASSUME OInv, NEW h \in Hooks, NEW s \in Sessions, s = hook[h].ev.session, Others(h),
         \/ hook'[h].pc = "idle"
         \/ hook[h].pc # "idle" /\ hook'[h].ev = hook[h].ev,
         \A i \in BatchIds : batches'[i].status = "open" =>
           \/ batches[i].status = "open" /\ batches'[i].session = batches[i].session
           \/ batches'[i].session = s /\ hook[h].pc # "idle",
         Single(s)', OnlyOpen(h)'
  PROVE  OInv'
<1>1. \A r : r # s \/ hook[h].pc = "idle" => OpenOf(r)' \subseteq OpenOf(r)
  BY DEF OpenOf, Listed
<1>2. \A r \in Sessions : Single(r)'
  BY <1>1 DEF OInv, Single
<1>3. Alone'
  BY DEF OInv, Alone, Others
<1>4. ASSUME NEW g \in Hooks, g # h PROVE OnlyOpen(g)'
  <2>1. hook'[g] = hook[g] /\ OnlyOpen(g)
    BY <1>4 DEF OInv, Others
  <2>2. CASE hook[g].pc = "idle"
    BY <2>1, <2>2 DEF OnlyOpen
  <2>3. CASE hook[g].pc # "idle"
    <3>1. hook[g].ev.session # s \/ hook[h].pc = "idle"
      BY <1>4, <2>3 DEF OInv, Alone
    <3> QED BY <1>1, <2>1, <3>1 DEF OnlyOpen
  <2> QED BY <2>2, <2>3
<1> QED BY <1>2, <1>3, <1>4 DEF OInv

\* A new ingest is the only one of its session: they do not overlap.
LEMMA OpenStart ==
  ASSUME ~Overlap, Shape, OInv, NEW h \in Hooks, NEW s \in Sessions, StartIngest(h, s)
  PROVE  OInv'
<1>1. /\ Others(h) /\ hook'[h].pc = "open" /\ hook'[h].ev.session = s
      /\ batches' = batches /\ ~Busy(s)
  BY StartEffect DEF StartIngest, journalVars
<1>2. Alone'
  BY <1>1 DEF OInv, Alone, Others, Busy
<1>3. \A g \in Hooks : OnlyOpen(g)'
  <2>1. OnlyOpen(h)'
    BY <1>1 DEF OnlyOpen
  <2>2. ASSUME NEW g \in Hooks, g # h PROVE OnlyOpen(g)'
    BY <1>1, <2>2 DEF OInv, OnlyOpen, Others, OpenOf, Listed
  <2> QED BY <2>1, <2>2
<1>4. \A r \in Sessions : Single(r)'
  BY <1>1 DEF OInv, Single, OpenOf, Listed
<1> QED BY <1>2, <1>3, <1>4 DEF OInv

\* The steps of an ingest that only read, mark, store or end.
LEMMA OpenStay ==
  ASSUME Shape, OInv, NEW h \in Hooks,
         ReadOpen(h) \/ Decide(h) \/ Mark(h) \/ Insert(h) \/ KillIngest(h)
  PROVE  OInv'
<1>0. PICK s \in Sessions : s = hook[h].ev.session
  BY DEF Shape, IsHook
<1>1. batches' = batches /\ hook[h].pc # "idle"
  BY DEF ReadOpen, Decide, Mark, Insert, KillIngest, journalVars
<1>2. \A r : OpenOf(r)' = OpenOf(r)
  BY <1>0, <1>1 DEF OpenOf, Listed
<1>3. Single(s)' /\ Single(s)
  BY <1>0, <1>1, <1>2 DEF OInv, Single
<1>4. Others(h) /\ (hook'[h].pc = "idle" \/ hook'[h].ev = hook[h].ev)
  BY ReadOpenEffect, DecideEffect, GoOnEffect, EndEffect
<1>5. OnlyOpen(h)'
  <2>1. CASE ReadOpen(h)
    <3>1. CASE OpenOf(s) = {} /\ hook'[h].pc = "create" /\ hook'[h].ev = hook[h].ev
      BY <1>0, <1>2, <3>1 DEF OnlyOpen
    <3>2. CASE \E id \in OpenOf(s) : /\ hook'[h].id = id /\ hook'[h].row = batches[id]
                                     /\ hook'[h].pc \in {"rotate", "decide"}
                                     /\ hook'[h].ev = hook[h].ev
      <4>1. PICK id \in OpenOf(s) : /\ hook'[h].id = id /\ hook'[h].row = batches[id]
                                    /\ hook'[h].pc \in {"rotate", "decide"}
                                    /\ hook'[h].ev = hook[h].ev
        BY <1>0, <3>2
      <4>2. OpenOf(s)' \subseteq {id} /\ batches[id].session = s
        BY <1>0, <1>2, <1>3 DEF Single, OpenOf
      <4> QED BY <1>0, <4>1, <4>2 DEF OnlyOpen
    <3> QED BY <1>0, <2>1, <3>1, <3>2, ReadOpenEffect
  <2>2. CASE Decide(h) \/ Mark(h)
    <3>1. /\ hook'[h].ev = hook[h].ev /\ hook'[h].id = hook[h].id
          /\ hook'[h].row.session = hook[h].row.session /\ hook'[h].pc \in {"mark", "write"}
          /\ hook[h].pc \in {"decide", "mark"}
      BY <1>0, <2>2, DecideEffect, GoOnEffect DEF Decide, Mark
    <3>2. OnlyOpen(h)
      BY DEF OInv
    <3> QED BY <1>0, <1>2, <3>1, <3>2 DEF OnlyOpen
  <2>3. CASE Insert(h) \/ KillIngest(h)
    BY <1>0, <2>3, EndEffect DEF OnlyOpen
  <2> QED BY <1>0, <2>1, <2>2, <2>3
<1> QED BY <1>0, <1>1, <1>3, <1>4, <1>5, OwnTurn

\* The steps of an ingest that write a row, which may be its own open one.
LEMMA OpenWrite ==
  ASSUME Shape, OInv, NEW h \in Hooks, Rotate(h) \/ Create(h) \/ Write(h)
  PROVE  OInv'
<1>0. PICK s \in Sessions, id \in BatchIds : s = hook[h].ev.session /\ id = hook[h].id
  BY DEF Shape, IsHook
<1>1. IsRow(hook[h].row) /\ OnlyOpen(h)
  BY DEF OInv, Shape, IsHook
<1>2. CASE Rotate(h)
  <2>1. /\ Others(h) /\ hook'[h].ev = hook[h].ev /\ hook'[h].pc = "create"
        /\ hook[h].pc = "rotate" /\ batches' = UpdateBatch(id, Closed(hook[h].row))
    BY <1>0, <1>2, RotateEffect DEF Rotate
  <2>2. Shrinks /\ batches'[id].status # "open"
    BY <1>0, <1>1, <2>1, CloseRow
  <2>3. OpenOf(s) \subseteq {id}
    BY <1>0, <1>1, <2>1 DEF OnlyOpen
  <2>4. OpenOf(s)' = {}
    BY <1>0, <2>2, <2>3 DEF Shrinks, OpenOf, Listed
  <2>5. OnlyOpen(h)' /\ Single(s)'
    BY <1>0, <2>1, <2>4 DEF OnlyOpen, Single
  <2> QED BY <1>0, <2>1, <2>2, <2>5, OwnTurn DEF Shrinks
<1>3. CASE Create(h)
  <2>1. /\ Others(h) /\ hook'[h].ev = hook[h].ev /\ hook'[h].pc = "decide"
        /\ hook'[h].id = NewId /\ hook'[h].row = Opened(hook[h].ev) /\ NewId \in BatchIds
        /\ hook[h].pc = "create" /\ batches' = CreateBatch(NewId, Opened(hook[h].ev))
    BY <1>0, <1>3, CreateEffect DEF Create, FreshIds
  <2>2. Opened(hook[h].ev).session = s
    BY <1>0, OpenedRow
  <2>3. /\ \A i \in BatchIds : i # NewId => batches'[i] = batches[i]
        /\ batches'[NewId] = Opened(hook[h].ev)
    BY <1>0, <2>1 DEF CreateBatch, Shape
  <2>4. OpenOf(s) = {}
    BY <1>0, <1>1, <2>1 DEF OnlyOpen
  <2>5. OpenOf(s)' \subseteq {NewId}
    BY <1>0, <2>3, <2>4 DEF OpenOf, Listed
  <2>6. OnlyOpen(h)' /\ Single(s)'
    BY <1>0, <2>1, <2>2, <2>5 DEF OnlyOpen, Single
  <2>7. \A i \in BatchIds : batches'[i].status = "open" =>
          \/ batches[i].status = "open" /\ batches'[i].session = batches[i].session
          \/ batches'[i].session = s /\ hook[h].pc # "idle"
    BY <1>0, <2>1, <2>2, <2>3
  <2> QED BY <1>0, <2>1, <2>6, <2>7, OwnTurn
<1>4. CASE Write(h)
  <2>1. /\ Others(h) /\ hook'[h].ev = hook[h].ev /\ hook'[h].pc = "insert"
        /\ hook[h].pc = "write" /\ batches' = UpdateBatch(id, hook[h].row)
    BY <1>0, <1>4, GoOnEffect DEF Write
  <2>2. hook[h].row.session = s /\ OpenOf(s) \subseteq {id}
    BY <1>0, <1>1, <2>1 DEF OnlyOpen
  <2>3. /\ \A i \in BatchIds : i # id => batches'[i] = batches[i]
        /\ batches'[id] \in {batches[id], hook[h].row}
    BY <1>0, <1>1, <2>1, WriteRow
  <2>4. OpenOf(s)' \subseteq {id}
    BY <1>0, <2>2, <2>3 DEF OpenOf, Listed
  <2>5. OnlyOpen(h)' /\ Single(s)'
    BY <1>0, <2>1, <2>4 DEF OnlyOpen, Single
  <2>6. \A i \in BatchIds : batches'[i].status = "open" =>
          \/ batches[i].status = "open" /\ batches'[i].session = batches[i].session
          \/ batches'[i].session = s /\ hook[h].pc # "idle"
    <3>1. hook[h].pc # "idle"
      BY <2>1
    <3>2. \A i \in BatchIds : batches'[i] = batches[i] \/ batches'[i] = hook[h].row
      BY <2>3
    <3> QED BY <2>2, <3>1, <3>2
  <2> QED BY <1>0, <2>1, <2>5, <2>6, OwnTurn
<1> QED BY <1>0, <1>2, <1>3, <1>4

\* At the start no batch is open.
LEMMA OpenInit == Init => OInv
<1>1. Init => \A h \in Hooks : hook[h].pc = "idle"
  BY IdleHookShape DEF Init, IngestInit
<1>2. Init => \A s : OpenOf(s) = {}
  <2>1. Init => \A id \in BatchIds : batches[id].status = "absent"
    BY DEF Init, JournalInit, Blank
  <2> QED BY <2>1 DEF OpenOf, Listed
<1> QED BY <1>1, <1>2 DEF OInv, Alone, Single, OnlyOpen

\* Every step leaves a session with one open batch at most.
LEMMA OpenNext ==
  ASSUME ~Overlap, Shape, OInv, [Next]_vars
  PROVE  OInv'
<1>1. ASSUME NEW h \in Hooks,
             (\E s \in Sessions : StartIngest(h, s)) \/ HookStep(h) \/ KillIngest(h)
      PROVE  OInv'
  BY <1>1, OpenStart, OpenStay, OpenWrite DEF HookStep
<1>2. ASSUME NEW c \in Closers,
             \/ \E s \in Sessions : EndSession(c, s) \/ StartNow(c, s)
             \/ TickDue(c) \/ CloserStep(c) \/ KillCloser(c)
      PROVE  OInv'
  <2>1. Shrinks /\ hook' = hook
    BY <1>2, Started, ClosingRows, SameRows
       DEF Start, CloserStep, CloseNext, CloserMark, FallBack, FinishClosing, KillCloser, journalVars
  <2> QED BY <2>1, OnlyShrunk
<1>3. CASE Forget
  BY <1>3, ForgetRows, OnlyShrunk DEF Forget
<1>4. CASE Clock \/ UNCHANGED vars
  BY <1>4, SameRows, OnlyShrunk DEF Clock, vars, journalVars, ingestVars
<1> QED BY <1>1, <1>2, <1>3, <1>4 DEF Next, HookNext, CloserNext

\* While two ingests of a session do not overlap, a session has at most one
\* open batch (Observe, Close): whatever ends a session, runs `now` or ticks
\* next to the ingest, and whatever dies or is forgotten.
THEOREM SingleOpenBatch ==
  ASSUME ~Overlap
  PROVE  Spec => []OneOpenBatch
<1>1. Init => Shape /\ OInv
  BY ShapeInit, OpenInit
<1>2. Shape /\ OInv /\ [Next]_vars => (Shape /\ OInv)'
  BY ShapeNext, OpenNext
<1>3. OInv => OneOpenBatch
  <2> SUFFICES ASSUME OInv, NEW s \in Sessions PROVE Cardinality(OpenOf(s)) <= 1
    BY DEF OneOpenBatch
  <2>1. CASE OpenOf(s) = {}
    BY <2>1, FS_EmptySet
  <2>2. ASSUME NEW id \in OpenOf(s) PROVE Cardinality(OpenOf(s)) <= 1
    <3>1. \A other \in OpenOf(s) : other = id
      BY DEF OInv, Single
    <3>2. OpenOf(s) = {id}
      BY <3>1
    <3> QED BY <3>2, FS_Singleton
  <2> QED BY <2>1, <2>2
<1> QED BY <1>1, <1>2, <1>3, PTL DEF Spec

----------------------------------------------------------------------------
\* Counters, while no process died and nothing was forgotten.  A row that is
\* open, or in the memory of an ingest, has the counters of the events of its
\* batch; the list of a closing process has no more work than there is by now.

Work(evs) == Cardinality(MeaningfulIn(evs))
Fits(b, evs) == b.count = Cardinality(evs) /\ b.meaningful = Work(evs)

HasBatch == {"rotate", "decide", "mark", "write", "insert"}

\* An ingest x, of whose batch evs are the stored events and b the row.
HookOK(x, evs, b) ==
  /\ b.status \notin NoRow /\ b.session = x.ev.session
  /\ x.pc \in {"rotate", "decide"} => x.row.status = "open" /\ Fits(x.row, evs)
  /\ x.pc = "decide" => x.row.count < MaxEvents
  /\ x.pc \in {"mark", "write"} =>
       /\ Fits(x.row, evs \cup {x.ev})
       /\ x.row.status \in {"open", "pending_summary"}
       /\ x.row.status = "pending_summary" => x.row.meaningful >= MinMeaningful
  /\ x.pc \in {"mark", "write", "insert"} => Cardinality(evs \cup {x.ev}) <= MaxEvents

\* A row b, of whose batch evs are stored or about to be.
RowOK(b, evs) ==
  /\ b.status = "open" => Fits(b, evs)
  /\ b.status = "pending_summary" => Work(evs) >= MinMeaningful

\* An entry t of a closing process's list.
TodoOK(t, b, evs) ==
  /\ b.status \notin NoRow /\ t[2].session = b.session
  /\ t[2].meaningful \in Nat /\ t[2].meaningful <= Work(evs)

EventInv ==
  /\ ran \in Nat
  /\ \A r \in events : /\ r.ev.cmd \in Nat /\ r.ev.cmd <= ran
                       /\ r.batch \in BatchIds /\ batches[r.batch].status \notin NoRow
  /\ \A id \in BatchIds : IsFiniteSet(EventsOf(id)) /\ Cardinality(EventsOf(id)) <= MaxEvents

\* No command is stored twice.
CmdInv ==
  /\ \A h \in Hooks : hook[h].pc # "idle" =>
       /\ hook[h].ev.cmd \in Nat /\ hook[h].ev.cmd <= ran
       /\ \A r \in events : r.ev.cmd # hook[h].ev.cmd
  /\ \A g, h \in Hooks :
       hook[g].pc # "idle" /\ hook[h].pc # "idle" /\ hook[g].ev.cmd = hook[h].ev.cmd => g = h

HookInv ==
  \A h \in Hooks : hook[h].pc \in HasBatch =>
    HookOK(hook[h], EventsOf(hook[h].id), batches[hook[h].id])
RowInv == \A id \in BatchIds : RowOK(batches[id], Attributed(id))
TodoInv ==
  \A c \in Closers : \A t \in closer[c].todo : TodoOK(t, batches[t[1]], Attributed(t[1]))

NInv == EventInv /\ CmdInv /\ HookInv /\ RowInv /\ TodoInv

\* An event is counted once.
LEMMA CountOne ==
  ASSUME NEW evs, IsFiniteSet(evs), NEW ev, ev \notin evs
  PROVE  /\ IsFiniteSet(evs \cup {ev}) /\ Cardinality(evs \cup {ev}) = Cardinality(evs) + 1
         /\ Work(evs \cup {ev}) = IF ev.meaningful THEN Work(evs) + 1 ELSE Work(evs)
<1>1. IsFiniteSet(MeaningfulIn(evs))
  BY FS_Subset DEF MeaningfulIn
<1>2. CASE ev.meaningful
  <2>1. MeaningfulIn(evs \cup {ev}) = MeaningfulIn(evs) \cup {ev} /\ ev \notin MeaningfulIn(evs)
    BY <1>2 DEF MeaningfulIn
  <2> QED BY <1>1, <1>2, <2>1, FS_AddElement DEF Work
<1>3. CASE ~ev.meaningful
  <2>1. MeaningfulIn(evs \cup {ev}) = MeaningfulIn(evs)
    BY <1>3 DEF MeaningfulIn
  <2> QED BY <1>3, <2>1, FS_AddElement DEF Work
<1> QED BY <1>2, <1>3

\* More events hold no less work.
LEMMA WorkGrows ==
  ASSUME NEW evs, IsFiniteSet(evs), NEW less \in SUBSET evs
  PROVE  Work(less) \in Nat /\ Work(evs) \in Nat /\ Work(less) <= Work(evs)
<1>1. MeaningfulIn(less) \subseteq MeaningfulIn(evs) /\ MeaningfulIn(evs) \subseteq evs
  BY DEF MeaningfulIn
<1>2. IsFiniteSet(MeaningfulIn(evs))
  BY <1>1, FS_Subset
<1> QED BY <1>1, <1>2, FS_Subset, FS_CardinalityType DEF Work

\* Only one ingest has a batch at a time.
LEMMA OneHolder ==
  ASSUME OInv, HookInv, NEW g \in Hooks, NEW h \in Hooks,
         hook[g].pc \in HasBatch, hook[h].pc \in HasBatch, hook[g].id = hook[h].id
  PROVE  g = h
BY DEF OInv, Alone, HookInv, HookOK, HasBatch

\* What is about to be stored in a batch is the event of the ingest that has it.
LEMMA FlightOf ==
  ASSUME OInv, NInv, NEW id \in BatchIds
  PROVE  /\ IsFiniteSet(EventsOf(id)) /\ IsFiniteSet(Attributed(id))
         /\ \A h \in Hooks : hook[h].id = id /\ hook[h].pc \in HasBatch =>
              InFlight(id) = IF hook[h].pc = "insert" THEN {hook[h].ev} ELSE {}
<1>1. IsFiniteSet(EventsOf(id))
  BY DEF NInv, EventInv
<1>2. ASSUME NEW h \in Hooks, hook[h].id = id, hook[h].pc \in HasBatch
      PROVE  InFlight(id) = IF hook[h].pc = "insert" THEN {hook[h].ev} ELSE {}
  <2>1. \A g \in Hooks : hook[g].pc = "insert" /\ hook[g].id = id => g = h
    BY <1>2, OneHolder DEF NInv, HasBatch
  <2> QED BY <1>2, <2>1 DEF InFlight
<1>3. InFlight(id) = {} \/ \E ev : InFlight(id) = {ev}
  <2>1. CASE \E h \in Hooks : hook[h].id = id /\ hook[h].pc \in HasBatch
    BY <1>2, <2>1
  <2>2. CASE ~\E h \in Hooks : hook[h].id = id /\ hook[h].pc \in HasBatch
    BY <2>2 DEF InFlight, HasBatch
  <2> QED BY <2>1, <2>2
<1>4. IsFiniteSet(Attributed(id))
  <2>1. CASE InFlight(id) = {}
    BY <1>1, <2>1 DEF Attributed
  <2>2. ASSUME NEW ev, InFlight(id) = {ev} PROVE IsFiniteSet(Attributed(id))
    BY <1>1, <2>2, FS_AddElement DEF Attributed
  <2> QED BY <1>3, <2>1, <2>2
<1> QED BY <1>1, <1>2, <1>4
\* Batches stay, and stay those of their session.
Kept ==
  \A i \in BatchIds : batches[i].status \notin NoRow =>
    batches'[i].status \notin NoRow /\ batches'[i].session = batches[i].session

\* A step of an ingest on its way, which stores nothing.
LEMMA QuietTurn ==
  ASSUME Shape, NInv, NEW h \in Hooks, NEW id, id = hook'[h].id, Others(h),
         hook[h].pc \notin {"idle", "insert"}, hook'[h].pc \notin {"idle", "insert"},
         hook'[h].ev = hook[h].ev, UNCHANGED <<ran, events, closer>>, Kept,
         hook'[h].pc \in HasBatch => HookOK(hook'[h], EventsOf(id), batches'[id]),
         \A i \in BatchIds : RowOK(batches'[i], Attributed(i))
  PROVE  NInv'
<1>1. \A i : EventsOf(i)' = EventsOf(i)
  BY DEF EventsOf
<1>2. \A i : InFlight(i)' = InFlight(i)
  BY DEF InFlight, Others
<1>3. \A i : Attributed(i)' = Attributed(i)
  BY <1>1, <1>2 DEF Attributed
<1>4. EventInv'
  BY <1>1 DEF NInv, EventInv, Kept
<1>5. CmdInv'
  BY DEF NInv, CmdInv, Others
<1>6. HookInv'
  <2>1. ASSUME NEW g \in Hooks, g # h, hook'[g].pc \in HasBatch
        PROVE  HookOK(hook[g], EventsOf(hook[g].id), batches[hook[g].id])'
    <3>1. hook'[g] = hook[g]
      BY <2>1 DEF Others
    <3>2. PICK i \in BatchIds : i = hook[g].id
      BY DEF Shape, IsHook
    <3>3. HookOK(hook[g], EventsOf(i), batches[i])
      BY <2>1, <3>1, <3>2 DEF NInv, HookInv
    <3>4. HookOK(hook[g], EventsOf(i), batches'[i])
      BY <3>3 DEF HookOK, Kept
    <3> QED BY <1>1, <3>1, <3>2, <3>4
  <2>2. hook'[h].pc \in HasBatch => HookOK(hook[h], EventsOf(hook[h].id), batches[hook[h].id])'
    BY <1>1
  <2> QED BY <2>1, <2>2 DEF HookInv
<1>7. RowInv'
  BY <1>3 DEF RowInv
<1>8. TodoInv'
  BY <1>3 DEF NInv, TodoInv, TodoOK, Kept, Shape, IsCloser
<1> QED BY <1>4, <1>5, <1>6, <1>7, <1>8 DEF NInv

\* The batch an ingest finds open: no other ingest is about to store in it.
LEMMA CountReadOpen ==
  ASSUME Shape, OInv, NInv, NEW h \in Hooks, ReadOpen(h)
  PROVE  NInv'
<1>0. PICK s \in Sessions : s = hook[h].ev.session
  BY DEF Shape, IsHook
<1>1. /\ hook[h].pc = "open" /\ UNCHANGED <<batches, ran, events, closer>>
      /\ Others(h) /\ hook'[h].ev = hook[h].ev
  BY ReadOpenEffect DEF ReadOpen, journalVars
<1>2. Kept /\ \A i \in BatchIds : RowOK(batches'[i], Attributed(i))
  BY <1>1 DEF Kept, NInv, RowInv
<1>3. CASE hook'[h].pc = "create"
  BY <1>1, <1>2, <1>3, QuietTurn DEF HasBatch
<1>4. ASSUME NEW id \in OpenOf(s), hook'[h].id = id, hook'[h].row = batches[id],
             hook'[h].pc = IF Rotates(batches[id], hook[h].ev.seen) THEN "rotate" ELSE "decide"
      PROVE  NInv'
  <2>1. id \in BatchIds /\ batches[id].status = "open" /\ batches[id].session = s
    BY DEF OpenOf, Listed
  <2>2. InFlight(id) = {}
    <3>1. ASSUME NEW g \in Hooks, hook[g].pc = "insert", hook[g].id = id PROVE FALSE
      <4>1. hook[g].ev.session = s
        BY <2>1, <3>1 DEF NInv, HookInv, HookOK, HasBatch
      <4> QED BY <1>0, <1>1, <3>1, <4>1 DEF OInv, Alone
    <3> QED BY <3>1 DEF InFlight
  <2>3. Fits(batches[id], EventsOf(id))
    BY <2>1, <2>2 DEF NInv, RowInv, RowOK, Attributed
  <2>4. ~Rotates(batches[id], hook[h].ev.seen) => batches[id].count < MaxEvents
    <3>1. Cardinality(EventsOf(id)) \in Nat
      BY <2>1, FlightOf, FS_CardinalityType
    <3> QED BY <2>3, <3>1, PolicyAssumption DEF Rotates, Fits
  <2>5. HookOK(hook'[h], EventsOf(id), batches'[id])
    BY <1>0, <1>1, <1>4, <2>1, <2>3, <2>4 DEF HookOK, NoRow
  <2> QED BY <1>1, <1>2, <1>4, <2>5, QuietTurn
<1> QED BY <1>0, <1>3, <1>4, ReadOpenEffect

\* A batch that is closed holds what its row counts.
LEMMA CountRotate ==
  ASSUME Shape, OInv, NInv, NEW h \in Hooks, Rotate(h)
  PROVE  NInv'
<1>0. PICK id \in BatchIds : id = hook[h].id
  BY DEF Shape, IsHook
<1>1. /\ hook[h].pc = "rotate" /\ UNCHANGED <<ran, events, closer>>
      /\ batches' = UpdateBatch(id, Closed(hook[h].row))
      /\ Others(h) /\ hook'[h].ev = hook[h].ev /\ hook'[h].pc = "create"
  BY <1>0, RotateEffect DEF Rotate
<1>2. /\ batches[id].status \notin NoRow /\ batches[id].session = hook[h].ev.session
      /\ Fits(hook[h].row, EventsOf(id))
  BY <1>0, <1>1 DEF NInv, HookInv, HookOK, HasBatch
<1>3. InFlight(id) = {}
  BY <1>0, <1>1, FlightOf DEF HasBatch
<1>4. IsRow(hook[h].row) /\ OnlyOpen(h)
  BY DEF OInv, Shape, IsHook
<1>5. /\ IsRow(Closed(hook[h].row)) /\ Closed(hook[h].row).session = hook[h].row.session
      /\ Closed(hook[h].row).status \in {"pending_summary", "skipped"}
      /\ Closed(hook[h].row).status = "pending_summary" <=> hook[h].row.meaningful >= MinMeaningful
  BY <1>4, ClosedRow
<1>6. /\ \A i \in BatchIds : i # id => batches'[i] = batches[i]
      /\ batches'[id] = Closed(hook[h].row)
  BY <1>1, <1>2, <1>5, WriteRow
<1>7. Kept
  BY <1>1, <1>2, <1>4, <1>5, <1>6 DEF Kept, OnlyOpen, NoRow
<1>8. \A i \in BatchIds : RowOK(batches'[i], Attributed(i))
  BY <1>2, <1>3, <1>5, <1>6 DEF NInv, RowInv, RowOK, Fits, Attributed
<1> QED BY <1>1, <1>7, <1>8, QuietTurn DEF HasBatch

\* A new batch has no events: its id was never used.
LEMMA CountCreate ==
  ASSUME Shape, OInv, NInv, NEW h \in Hooks, Create(h)
  PROVE  NInv'
<1>1. /\ hook[h].pc = "create" /\ UNCHANGED <<ran, events, closer>>
      /\ Others(h) /\ hook'[h].ev = hook[h].ev /\ hook'[h].pc = "decide"
      /\ hook'[h].id = NewId /\ hook'[h].row = Opened(hook[h].ev) /\ NewId \in FreshIds
      /\ batches' = CreateBatch(NewId, Opened(hook[h].ev))
  BY CreateEffect DEF Create
<1>2. PICK id \in BatchIds : id = NewId /\ batches[id].status = "absent"
  BY <1>1 DEF FreshIds
<1>3. EventsOf(id) = {} /\ InFlight(id) = {}
  <2>1. EventsOf(id) = {}
    BY <1>2 DEF NInv, EventInv, EventsOf, NoRow
  <2>2. InFlight(id) = {}
    BY <1>2 DEF NInv, HookInv, HookOK, InFlight, HasBatch, NoRow
  <2> QED BY <2>1, <2>2
<1>4. /\ \A i \in BatchIds : i # id => batches'[i] = batches[i]
      /\ batches'[id] = Opened(hook[h].ev)
  BY <1>1, <1>2 DEF CreateBatch, Shape
<1>5. /\ Opened(hook[h].ev).session = hook[h].ev.session /\ Opened(hook[h].ev).status = "open"
      /\ Opened(hook[h].ev).count = 0 /\ Opened(hook[h].ev).meaningful = 0
  BY OpenedRow
<1>6. Cardinality({}) = 0 /\ Work({}) = 0
  <2>1. MeaningfulIn({}) = {}
    BY DEF MeaningfulIn
  <2> QED BY <2>1, FS_EmptySet DEF Work
<1>7. Fits(Opened(hook[h].ev), {})
  BY <1>5, <1>6 DEF Fits
<1>8. HookOK(hook'[h], EventsOf(id), batches'[id])
  BY <1>1, <1>3, <1>4, <1>5, <1>7, PolicyAssumption DEF HookOK, NoRow
<1>9. Kept
  BY <1>2, <1>4 DEF Kept, NoRow
<1>10. \A i \in BatchIds : RowOK(batches'[i], Attributed(i))
  BY <1>3, <1>4, <1>5, <1>7 DEF NInv, RowInv, RowOK, Attributed
<1> QED BY <1>1, <1>2, <1>8, <1>9, <1>10, QuietTurn

\* The event an ingest carries is not stored yet.
LEMMA NotStored ==
  ASSUME Shape, OInv, NInv, NEW h \in Hooks, hook[h].pc # "idle", NEW id \in BatchIds
  PROVE  LET evs == EventsOf(id)
             ev == hook[h].ev
         IN /\ ev \notin evs /\ IsFiniteSet(evs) /\ IsFiniteSet(evs \cup {ev})
            /\ Cardinality(evs) \in Nat /\ Work(evs) \in Nat
            /\ Cardinality(evs \cup {ev}) = Cardinality(evs) + 1
            /\ Work(evs \cup {ev}) = IF ev.meaningful THEN Work(evs) + 1 ELSE Work(evs)
<1>1. hook[h].ev \notin EventsOf(id)
  BY DEF NInv, CmdInv, EventsOf
<1>2. IsFiniteSet(EventsOf(id))
  BY DEF NInv, EventInv
<1>3. Cardinality(EventsOf(id)) \in Nat /\ Work(EventsOf(id)) \in Nat
  BY <1>2, WorkGrows, FS_CardinalityType
<1> QED BY <1>1, <1>2, <1>3, CountOne

\* The event is counted in memory, and later marked as the session's summary.
LEMMA CountDecide ==
  ASSUME Shape, OInv, NInv, NEW h \in Hooks, Decide(h) \/ Mark(h)
  PROVE  NInv'
<1>0. PICK id \in BatchIds : id = hook[h].id
  BY DEF Shape, IsHook
<1>1. /\ hook[h].pc \in {"decide", "mark"} /\ UNCHANGED <<batches, ran, events, closer>>
      /\ Others(h) /\ hook'[h].ev = hook[h].ev /\ hook'[h].id = id
      /\ hook'[h].pc \in {"mark", "write"}
  BY <1>0, DecideEffect, GoOnEffect DEF Decide, Mark, journalVars
<1>2. HookOK(hook[h], EventsOf(id), batches[id])
  BY <1>0, <1>1 DEF NInv, HookInv, HasBatch
<1>3. HookOK(hook'[h], EventsOf(id), batches'[id])
  <2>1. CASE Decide(h)
    <3> DEFINE evs == EventsOf(id)
               ev == hook[h].ev
    <3>1. /\ Cardinality(evs) \in Nat /\ Work(evs) \in Nat
          /\ Cardinality(evs \cup {ev}) = Cardinality(evs) + 1
          /\ Work(evs \cup {ev}) = IF ev.meaningful THEN Work(evs) + 1 ELSE Work(evs)
      BY <1>1, NotStored
    <3>2. /\ hook[h].row.status = "open" /\ hook[h].row.count = Cardinality(evs)
          /\ hook[h].row.meaningful = Work(evs) /\ hook[h].row.count < MaxEvents
      BY <1>2, <2>1 DEF Decide, HookOK, Fits
    <3>3. /\ hook'[h].row.count = hook[h].row.count + 1
          /\ hook'[h].row.meaningful = IF ev.meaningful THEN hook[h].row.meaningful + 1
                                                        ELSE hook[h].row.meaningful
          /\ \/ hook'[h].row.status = hook[h].row.status
             \/ /\ hook'[h].row.status = "pending_summary"
                /\ hook'[h].row.meaningful >= MinMeaningful
      BY <2>1, DecideEffect
    <3>4. Fits(hook'[h].row, evs \cup {ev})
      BY <3>1, <3>2, <3>3 DEF Fits
    <3>5. Cardinality(evs \cup {ev}) <= MaxEvents
      BY <3>1, <3>2, PolicyAssumption
    <3> QED BY <1>1, <1>2, <3>2, <3>3, <3>4, <3>5 DEF HookOK
  <2>2. CASE Mark(h)
    <3>1. hook'[h].row = hook[h].row /\ hook[h].pc = "mark"
      BY <2>2, GoOnEffect DEF Mark
    <3> QED BY <1>1, <1>2, <3>1 DEF HookOK
  <2> QED BY <2>1, <2>2
<1>4. Kept /\ \A i \in BatchIds : RowOK(batches'[i], Attributed(i))
  BY <1>1 DEF Kept, NInv, RowInv
<1> QED BY <1>1, <1>3, <1>4, QuietTurn DEF HasBatch

\* The row is written, with the event counted that is stored next.
LEMMA CountWrite ==
  ASSUME Shape, OInv, NInv, NEW h \in Hooks, Write(h)
  PROVE  NInv'
<1>0. PICK id \in BatchIds : id = hook[h].id
  BY DEF Shape, IsHook
<1> DEFINE ev == hook[h].ev
<1>1. /\ hook[h].pc = "write" /\ UNCHANGED <<ran, events, closer>>
      /\ batches' = UpdateBatch(id, hook[h].row) /\ Others(h) /\ hook'[h].ev = ev
      /\ hook'[h].id = id /\ hook'[h].row = hook[h].row /\ hook'[h].pc = "insert"
  BY <1>0, GoOnEffect DEF Write
<1>2. HookOK(hook[h], EventsOf(id), batches[id])
  BY <1>0, <1>1 DEF NInv, HookInv, HasBatch
<1>3. IsRow(hook[h].row) /\ hook[h].row.session = ev.session
  BY <1>1 DEF OInv, OnlyOpen, Shape, IsHook
<1>4. /\ \A i \in BatchIds : i # id => batches'[i] = batches[i]
      /\ batches'[id] = hook[h].row
  BY <1>1, <1>2, <1>3, WriteRow DEF HookOK
<1>5. /\ \A i : EventsOf(i)' = EventsOf(i)
      /\ \A i : i # id => InFlight(i)' = InFlight(i)
      /\ InFlight(id) = {} /\ InFlight(id)' = {ev}
  <2>1. \A i : EventsOf(i)' = EventsOf(i)
    BY <1>1 DEF EventsOf
  <2>2. \A i : i # id => InFlight(i)' = InFlight(i)
    BY <1>0, <1>1 DEF InFlight, Others
  <2>3. InFlight(id) = {}
    BY <1>0, <1>1, FlightOf DEF HasBatch
  <2>4. InFlight(id)' = {ev}
    <3>1. \A g \in Hooks : g # h => ~(hook'[g].pc = "insert" /\ hook'[g].id = id)
      BY <1>0, <1>1, OneHolder DEF Others, NInv, HasBatch
    <3> QED BY <1>1, <3>1 DEF InFlight
  <2> QED BY <2>1, <2>2, <2>3, <2>4
<1>6. /\ \A i : i # id => Attributed(i)' = Attributed(i)
      /\ Attributed(id) = EventsOf(id) /\ Attributed(id)' = EventsOf(id) \cup {ev}
  BY <1>5 DEF Attributed
<1>7. Work(EventsOf(id)) \in Nat /\ Work(EventsOf(id) \cup {ev}) \in Nat
      /\ Work(EventsOf(id)) <= Work(EventsOf(id) \cup {ev})
  <2>1. IsFiniteSet(EventsOf(id) \cup {ev})
    BY <1>1, NotStored
  <2>2. EventsOf(id) \in SUBSET (EventsOf(id) \cup {ev})
    OBVIOUS
  <2> QED BY <2>1, <2>2, WorkGrows
<1>8. Kept
  BY <1>1, <1>2, <1>3, <1>4 DEF Kept, HookOK, NoRow
<1>9. EventInv'
  BY <1>1, <1>5, <1>8 DEF NInv, EventInv, Kept
<1>10. CmdInv'
  BY <1>1 DEF NInv, CmdInv, Others
<1>11. HookInv'
  <2>1. ASSUME NEW g \in Hooks, g # h, hook'[g].pc \in HasBatch
        PROVE  HookOK(hook[g], EventsOf(hook[g].id), batches[hook[g].id])'
    <3>1. hook'[g] = hook[g]
      BY <1>1, <2>1 DEF Others
    <3>2. PICK i \in BatchIds : i = hook[g].id
      BY DEF Shape, IsHook
    <3>3. HookOK(hook[g], EventsOf(i), batches[i])
      BY <2>1, <3>1, <3>2 DEF NInv, HookInv
    <3>4. HookOK(hook[g], EventsOf(i), batches'[i])
      BY <1>8, <3>3 DEF HookOK, Kept
    <3> QED BY <1>5, <3>1, <3>2, <3>4
  <2>2. HookOK(hook'[h], EventsOf(id), batches'[id])
    BY <1>1, <1>2, <1>3, <1>4, <1>8 DEF HookOK, Kept
  <2> QED BY <1>1, <1>5, <2>1, <2>2 DEF HookInv
<1>12. RowInv'
  <2>1. RowOK(batches'[id], EventsOf(id) \cup {ev})
    BY <1>1, <1>2, <1>4 DEF HookOK, RowOK, Fits
  <2> QED BY <1>4, <1>6, <2>1 DEF NInv, RowInv
<1>13. TodoInv'
  <2> SUFFICES ASSUME NEW c \in Closers, NEW t \in closer[c].todo
               PROVE  TodoOK(t, batches[t[1]], Attributed(t[1]))'
    BY <1>1 DEF TodoInv
  <2>1. PICK i \in BatchIds : i = t[1]
    BY DEF Shape, IsCloser
  <2>2. TodoOK(t, batches[i], Attributed(i))
    BY <2>1 DEF NInv, TodoInv
  <2>3. TodoOK(t, batches'[i], Attributed(i)')
    <3>1. CASE i = id
      <4>1. Attributed(i) = EventsOf(id) /\ Attributed(i)' = EventsOf(id) \cup {ev}
        BY <1>6, <3>1
      <4>2. t[2].meaningful \in Nat /\ t[2].meaningful <= Work(EventsOf(id))
        BY <2>2, <4>1 DEF TodoOK
      <4>3. t[2].meaningful <= Work(EventsOf(id) \cup {ev})
        BY <1>7, <4>2
      <4> QED BY <1>8, <2>2, <4>1, <4>2, <4>3 DEF TodoOK, Kept
    <3>2. CASE i # id
      BY <1>6, <1>8, <2>2, <3>2 DEF TodoOK, Kept
    <3> QED BY <3>1, <3>2
  <2> QED BY <2>1, <2>3
<1> QED BY <1>9, <1>10, <1>11, <1>12, <1>13 DEF NInv

\* Storing an event of a batch changes what that batch has, and no other.
LEMMA StoredIn ==
  ASSUME NEW id, NEW ev, events' = events \cup {[ev |-> ev, batch |-> id]}
  PROVE  /\ EventsOf(id)' = EventsOf(id) \cup {ev}
         /\ \A i : i # id => EventsOf(i)' = EventsOf(i)
<1> DEFINE new == [ev |-> ev, batch |-> id]
<1>1. new.ev = ev /\ new.batch = id /\ events' = events \cup {new}
  OBVIOUS
<1> HIDE DEF new
<1>2. \A i : {r \in events' : r.batch = i} =
               {r \in events : r.batch = i} \cup (IF i = id THEN {new} ELSE {})
  BY <1>1
<1>3. \A i : EventsOf(i)' = EventsOf(i) \cup (IF i = id THEN {ev} ELSE {})
  BY <1>1, <1>2 DEF EventsOf
<1> QED BY <1>3

\* The event that was counted is stored.
LEMMA CountInsert ==
  ASSUME Shape, OInv, NInv, NEW h \in Hooks, Insert(h)
  PROVE  NInv'
<1>0. PICK id \in BatchIds : id = hook[h].id
  BY DEF Shape, IsHook
<1> DEFINE ev == hook[h].ev
<1>1. /\ hook[h].pc = "insert" /\ UNCHANGED <<ran, batches, closer>>
      /\ events' = events \cup {[ev |-> ev, batch |-> id]}
      /\ Others(h) /\ hook'[h].pc = "idle"
  BY <1>0, EndEffect DEF Insert
<1>2. HookOK(hook[h], EventsOf(id), batches[id])
  BY <1>0, <1>1 DEF NInv, HookInv, HasBatch
<1>3. /\ EventsOf(id)' = EventsOf(id) \cup {ev}
      /\ \A i : i # id => EventsOf(i)' = EventsOf(i)
  BY <1>1, StoredIn
<1>4. /\ InFlight(id) = {ev} /\ InFlight(id)' = {}
      /\ \A i : i # id => InFlight(i)' = InFlight(i)
  <2>1. InFlight(id) = {ev}
    BY <1>0, <1>1, FlightOf DEF HasBatch
  <2>2. \A g \in Hooks : ~(hook'[g].pc = "insert" /\ hook'[g].id = id)
    BY <1>0, <1>1, OneHolder DEF Others, NInv, HasBatch
  <2>3. InFlight(id)' = {}
    BY <2>2 DEF InFlight
  <2>4. \A i : i # id => InFlight(i)' = InFlight(i)
    BY <1>0, <1>1 DEF InFlight, Others
  <2> QED BY <2>1, <2>3, <2>4
<1>5. \A i : Attributed(i)' = Attributed(i)
  BY <1>3, <1>4 DEF Attributed
<1>6. EventInv'
  <2>1. \A r \in events' : /\ r.ev.cmd \in Nat /\ r.ev.cmd <= ran
                           /\ r.batch \in BatchIds /\ batches[r.batch].status \notin NoRow
    BY <1>1, <1>2 DEF NInv, EventInv, CmdInv, HookOK
  <2>2. IsFiniteSet(EventsOf(id) \cup {ev}) /\ Cardinality(EventsOf(id) \cup {ev}) <= MaxEvents
    BY <1>1, <1>2, NotStored DEF HookOK
  <2>3. \A i \in BatchIds : (IsFiniteSet(EventsOf(i)) /\ Cardinality(EventsOf(i)) <= MaxEvents)'
    BY <1>3, <2>2 DEF NInv, EventInv
  <2> QED BY <1>1, <2>1, <2>3 DEF NInv, EventInv
<1>7. CmdInv'
  BY <1>1 DEF NInv, CmdInv, Others
<1>8. HookInv'
  <2> SUFFICES ASSUME NEW g \in Hooks, hook'[g].pc \in HasBatch
               PROVE  HookOK(hook[g], EventsOf(hook[g].id), batches[hook[g].id])'
    BY DEF HookInv
  <2>1. g # h /\ hook'[g] = hook[g]
    BY <1>1 DEF Others, HasBatch
  <2>2. PICK i \in BatchIds : i = hook[g].id
    BY DEF Shape, IsHook
  <2>3. i # id
    BY <1>0, <1>1, <2>1, <2>2, OneHolder DEF NInv, HasBatch
  <2>4. HookOK(hook[g], EventsOf(i), batches[i])
    BY <2>1, <2>2 DEF NInv, HookInv
  <2> QED BY <1>1, <1>3, <2>1, <2>2, <2>3, <2>4
<1>9. RowInv' /\ TodoInv'
  BY <1>1, <1>5 DEF NInv, RowInv, TodoInv
<1> QED BY <1>6, <1>7, <1>8, <1>9 DEF NInv

\* A new ingest brings a command no ingest brought before.
LEMMA CountStart ==
  ASSUME Shape, NInv, NEW h \in Hooks, NEW s \in Sessions, StartIngest(h, s)
  PROVE  NInv'
<1>1. /\ Others(h) /\ hook[h].pc = "idle" /\ hook'[h].pc = "open"
      /\ hook'[h].ev.cmd = ran + 1 /\ ran' = ran + 1 /\ UNCHANGED <<batches, events, closer>>
  BY StartEffect DEF StartIngest, journalVars
<1>2. ran \in Nat
  BY DEF NInv, EventInv
<1>3. \A i : EventsOf(i)' = EventsOf(i) /\ InFlight(i)' = InFlight(i)
  BY <1>1 DEF EventsOf, InFlight, Others
<1>4. EventInv'
  BY <1>1, <1>2, <1>3 DEF NInv, EventInv
<1>5. CmdInv'
  <2>1. \A g \in Hooks : g # h => hook'[g] = hook[g]
    BY <1>1 DEF Others
  <2>2. \A g \in Hooks : hook[g].pc # "idle" => hook[g].ev.cmd # ran + 1 /\ hook[g].ev.cmd <= ran + 1
    BY <1>2 DEF NInv, CmdInv
  <2>3. \A r \in events : r.ev.cmd # ran + 1
    BY <1>2 DEF NInv, EventInv
  <2> QED BY <1>1, <1>2, <2>1, <2>2, <2>3 DEF NInv, CmdInv
<1>6. HookInv'
  BY <1>1, <1>3 DEF NInv, HookInv, HasBatch, Others
<1>7. RowInv' /\ TodoInv'
  BY <1>1, <1>3 DEF NInv, RowInv, TodoInv, Attributed
<1> QED BY <1>4, <1>5, <1>6, <1>7 DEF NInv

\* A step that leaves the ingests and their events alone.
LEMMA ClosingTurn ==
  ASSUME Shape, NInv, UNCHANGED <<hook, events, ran>>, Kept,
         \A i \in BatchIds : RowOK(batches'[i], Attributed(i)),
         \A c \in Closers : \A t \in closer'[c].todo :
           t[1] \in BatchIds /\ TodoOK(t, batches[t[1]], Attributed(t[1]))
  PROVE  NInv'
<1>1. \A i : EventsOf(i)' = EventsOf(i) /\ InFlight(i)' = InFlight(i)
  BY DEF EventsOf, InFlight
<1>2. \A i : Attributed(i)' = Attributed(i)
  BY <1>1 DEF Attributed
<1>3. EventInv' /\ CmdInv'
  BY <1>1 DEF NInv, EventInv, CmdInv, Kept
<1>4. HookInv'
  <2> SUFFICES ASSUME NEW g \in Hooks, hook[g].pc \in HasBatch
               PROVE  HookOK(hook[g], EventsOf(hook[g].id), batches[hook[g].id])'
    BY DEF HookInv
  <2>1. PICK i \in BatchIds : i = hook[g].id
    BY DEF Shape, IsHook
  <2>2. HookOK(hook[g], EventsOf(i), batches[i])
    BY <2>1 DEF NInv, HookInv
  <2>3. HookOK(hook[g], EventsOf(i), batches'[i])
    BY <2>2 DEF HookOK, Kept
  <2> QED BY <1>1, <2>1, <2>3
<1>5. RowInv'
  BY <1>2 DEF RowInv
<1>6. TodoInv'
  <2> SUFFICES ASSUME NEW c \in Closers, NEW t \in closer'[c].todo
               PROVE  TodoOK(t, batches[t[1]], Attributed(t[1]))'
    BY DEF TodoInv
  <2>1. PICK i \in BatchIds : i = t[1] /\ TodoOK(t, batches[i], Attributed(i))
    OBVIOUS
  <2>2. TodoOK(t, batches'[i], Attributed(i))
    BY <2>1 DEF TodoOK, Kept
  <2> QED BY <1>2, <2>1, <2>2
<1> QED BY <1>3, <1>4, <1>5, <1>6 DEF NInv

\* A list of open batches, when it is read.
LEMMA ListedRows ==
  ASSUME Shape, OInv, NInv, NEW ids \in SUBSET Listed({"open"}), NEW t \in Rows(ids)
  PROVE  t[1] \in BatchIds /\ TodoOK(t, batches[t[1]], Attributed(t[1]))
<1>1. PICK i \in BatchIds : i \in ids /\ t = <<i, batches[i]>> /\ batches[i].status = "open"
  BY DEF Rows, Listed
<1>2. batches[i].meaningful = Work(Attributed(i))
  BY <1>1 DEF NInv, RowInv, RowOK, Fits
<1>3. Work(Attributed(i)) \in Nat
  BY FlightOf, WorkGrows
<1>4. TodoOK(t, batches[i], Attributed(i))
  BY <1>1, <1>2, <1>3 DEF TodoOK, NoRow
<1> QED BY <1>1, <1>4

\* Whatever was stored since the list was read, closing a batch from it claims
\* no more work than there is.
LEMMA CountCloseNext ==
  ASSUME Shape, OInv, NInv, NEW c \in Closers, CloseNext(c)
  PROVE  NInv'
<1>1. PICK t \in closer[c].todo :
        batches' = UpdateBatch(t[1], Closed(t[2])) \/ batches' = batches
  BY DEF CloseNext
<1>2. PICK id \in BatchIds : id = t[1] /\ IsRow(t[2]) /\ TodoOK(t, batches[id], Attributed(id))
  BY DEF Shape, IsCloser, NInv, TodoInv
<1>3. /\ IsRow(Closed(t[2])) /\ Closed(t[2]).session = t[2].session
      /\ Closed(t[2]).status \in {"pending_summary", "skipped"}
      /\ Closed(t[2]).status = "pending_summary" <=> t[2].meaningful >= MinMeaningful
  BY <1>2, ClosedRow
<1>4. /\ \A i \in BatchIds : i # id => batches'[i] = batches[i]
      /\ batches'[id] \in {batches[id], Closed(t[2])}
  BY <1>1, <1>2, <1>3, WriteRow
<1>5. Kept
  BY <1>2, <1>3, <1>4 DEF Kept, TodoOK, NoRow
<1>6. RowOK(Closed(t[2]), Attributed(id))
  <2>1. Work(Attributed(id)) \in Nat
    BY FlightOf, WorkGrows
  <2>2. t[2].meaningful \in Nat /\ t[2].meaningful <= Work(Attributed(id))
    BY <1>2 DEF TodoOK
  <2>3. t[2].meaningful >= MinMeaningful => Work(Attributed(id)) >= MinMeaningful
    BY <2>1, <2>2, PolicyAssumption
  <2> QED BY <1>3, <2>3 DEF RowOK
<1>7. \A i \in BatchIds : RowOK(batches'[i], Attributed(i))
  BY <1>4, <1>6 DEF NInv, RowInv
<1>8. \A d \in Closers : closer'[d].todo \subseteq closer[d].todo
  BY DEF CloseNext, Shape, IsCloser
<1>9. \A d \in Closers : \A u \in closer'[d].todo :
        u[1] \in BatchIds /\ TodoOK(u, batches[u[1]], Attributed(u[1]))
  BY <1>8 DEF NInv, TodoInv, Shape, IsCloser
<1> QED BY <1>5, <1>7, <1>9, ClosingTurn DEF CloseNext

\* The other steps of a closing process, and the clock.
LEMMA CountListed ==
  ASSUME Shape, OInv, NInv, NEW c \in Closers, UNCHANGED <<hook, events, ran, batches>>,
         \A d \in Closers : d # c => closer'[d].todo = closer[d].todo,
         \/ closer'[c].todo \subseteq closer[c].todo
         \/ \E ids \in SUBSET Listed({"open"}) : closer'[c].todo = Rows(ids)
  PROVE  NInv'
<1>1. Kept /\ \A i \in BatchIds : RowOK(batches'[i], Attributed(i))
  BY DEF Kept, NInv, RowInv
<1>2. \A d \in Closers : \A t \in closer[d].todo :
        t[1] \in BatchIds /\ TodoOK(t, batches[t[1]], Attributed(t[1]))
  BY DEF NInv, TodoInv, Shape, IsCloser
<1>3. \A t \in closer'[c].todo : t[1] \in BatchIds /\ TodoOK(t, batches[t[1]], Attributed(t[1]))
  BY <1>2, ListedRows
<1>4. \A d \in Closers : \A t \in closer'[d].todo :
        t[1] \in BatchIds /\ TodoOK(t, batches[t[1]], Attributed(t[1]))
  BY <1>2, <1>3
<1> QED BY <1>1, <1>4, ClosingTurn

\* Every step of a closing process but its death.
LEMMA CountClosing ==
  ASSUME Shape, OInv, NInv, NEW c \in Closers,
         \/ \E s \in Sessions : EndSession(c, s) \/ StartNow(c, s)
         \/ TickDue(c) \/ CloserStep(c)
  PROVE  NInv'
<1>0. IsCloser(closer[c]) /\ closer = [d \in Closers |-> closer[d]]
  BY DEF Shape
<1>1. CASE \E kind, s, more : \E ids \in SUBSET Listed({"open"}) : Start(c, kind, s, ids, more)
  <2>1. PICK kind, s, more, ids : ids \in SUBSET Listed({"open"}) /\ Start(c, kind, s, ids, more)
    BY <1>1
  <2>2. closer'[c].todo = Rows(ids) /\ \A d \in Closers : d # c => closer'[d] = closer[d]
    BY <1>0, <2>1 DEF Start
  <2> QED BY <2>1, <2>2, CountListed DEF Start, journalVars
<1>2. CASE CloseNext(c)
  BY <1>2, CountCloseNext
<1>3. CASE CloserMark(c)
  <2>1. closer'[c].todo = closer[c].todo /\ \A d \in Closers : d # c => closer'[d] = closer[d]
    BY <1>0, <1>3 DEF CloserMark, IsCloser
  <2> QED BY <1>3, <2>1, CountListed DEF CloserMark
<1>4. CASE FallBack(c)
  <2>1. closer'[c].todo = Rows(Listed({"open"})) /\ \A d \in Closers : d # c => closer'[d] = closer[d]
    BY <1>0, <1>4 DEF FallBack, IsCloser
  <2> QED BY <1>4, <2>1, CountListed DEF FallBack, journalVars
<1>5. CASE FinishClosing(c)
  <2>1. closer'[c].todo = {} /\ \A d \in Closers : d # c => closer'[d] = closer[d]
    BY <1>0, <1>5 DEF FinishClosing, IdleCloser
  <2> QED BY <1>5, <2>1, CountListed DEF FinishClosing, journalVars
<1> QED BY <1>1, <1>2, <1>3, <1>4, <1>5, Started DEF CloserStep

\* Nothing is promised any more once a process died or an event was forgotten.
CountInv == faults \in Nat /\ (faults = 0 => NInv)

\* At the start nothing is counted.
LEMMA CountInit == Init => CountInv
<1> SUFFICES ASSUME Init PROVE CountInv
  OBVIOUS
<1>1. \A h \in Hooks : hook[h].pc = "idle"
  BY IdleHookShape DEF Init, IngestInit
<1>2. \A id \in BatchIds : batches[id].status = "absent"
  BY DEF Init, JournalInit, Blank
<1>3. events = {} /\ ran = 0 /\ faults = 0 /\ \A c \in Closers : closer[c].todo = {}
  BY DEF Init, JournalInit, IngestInit, IdleCloser
<1>4. EventInv
  <2>1. \A id : EventsOf(id) = {}
    BY <1>3 DEF EventsOf
  <2> QED BY <1>3, <2>1, FS_EmptySet, PolicyAssumption DEF EventInv
<1>5. CmdInv /\ HookInv
  BY <1>1 DEF CmdInv, HookInv, HasBatch
<1>6. RowInv /\ TodoInv
  BY <1>2, <1>3 DEF RowInv, RowOK, TodoInv
<1> QED BY <1>3, <1>4, <1>5, <1>6 DEF CountInv, NInv

\* Every step keeps the counters, or is a fault.
LEMMA CountNext ==
  ASSUME ~Overlap, Shape, OInv, CountInv, [Next]_vars
  PROVE  CountInv'
<1>1. ASSUME Fault("kill") \/ Fault("forget") PROVE CountInv'
  BY <1>1 DEF Fault, CountInv
<1>2. ASSUME UNCHANGED faults, NInv => NInv' PROVE CountInv'
  BY <1>2 DEF CountInv
<1>3. ASSUME NEW h \in Hooks,
             (\E s \in Sessions : StartIngest(h, s)) \/ HookStep(h) \/ KillIngest(h)
      PROVE  CountInv'
  <2>1. CASE KillIngest(h)
    BY <1>1, <2>1 DEF KillIngest
  <2>2. CASE (\E s \in Sessions : StartIngest(h, s)) \/ HookStep(h)
    <3>1. NInv => NInv'
      BY <2>2, CountStart, CountReadOpen, CountRotate, CountCreate, CountDecide, CountWrite,
         CountInsert DEF HookStep
    <3>2. UNCHANGED faults
      BY <2>2 DEF StartIngest, HookStep, ReadOpen, Rotate, Create, Decide, Mark, Write, Insert
    <3> QED BY <1>2, <3>1, <3>2
  <2> QED BY <1>3, <2>1, <2>2
<1>4. ASSUME NEW c \in Closers,
             \/ \E s \in Sessions : EndSession(c, s) \/ StartNow(c, s)
             \/ TickDue(c) \/ CloserStep(c) \/ KillCloser(c)
      PROVE  CountInv'
  <2>1. CASE KillCloser(c)
    BY <1>1, <2>1 DEF KillCloser
  <2>2. CASE \/ \E s \in Sessions : EndSession(c, s) \/ StartNow(c, s)
             \/ TickDue(c) \/ CloserStep(c)
    <3>1. NInv => NInv'
      BY <2>2, CountClosing
    <3>2. UNCHANGED faults
      BY <2>2, Started DEF Start, CloserStep, CloseNext, CloserMark, FallBack, FinishClosing
    <3> QED BY <1>2, <3>1, <3>2
  <2> QED BY <1>4, <2>1, <2>2
<1>5. CASE Forget
  BY <1>1, <1>5 DEF Forget
<1>6. CASE Clock \/ UNCHANGED vars
  <2>1. UNCHANGED <<ran, faults, hook, closer, batches, events>>
    BY <1>6 DEF Clock, vars, journalVars, ingestVars
  <2>2. NInv => NInv'
    <3> SUFFICES ASSUME NInv PROVE NInv'
      OBVIOUS
    <3>1. Kept /\ \A i \in BatchIds : RowOK(batches'[i], Attributed(i))
      BY <2>1 DEF Kept, NInv, RowInv
    <3>2. \A c \in Closers : \A t \in closer'[c].todo :
            t[1] \in BatchIds /\ TodoOK(t, batches[t[1]], Attributed(t[1]))
      BY <2>1 DEF NInv, TodoInv, Shape, IsCloser
    <3> QED BY <2>1, <3>1, <3>2, ClosingTurn
  <2> QED BY <1>2, <2>1, <2>2
<1> QED BY <1>3, <1>4, <1>5, <1>6 DEF Next, HookNext, CloserNext

\* The counters hold throughout.
LEMMA CountsHold ==
  ASSUME ~Overlap
  PROVE  Spec => [](OInv /\ CountInv)
<1>1. Init => Shape /\ OInv /\ CountInv
  BY ShapeInit, OpenInit, CountInit
<1>2. Shape /\ OInv /\ CountInv /\ [Next]_vars => (Shape /\ OInv /\ CountInv)'
  BY ShapeNext, OpenNext, CountNext
<1> QED BY <1>1, <1>2, PTL DEF Spec

\* While no process died and nothing was forgotten, the counters of an open
\* batch are those of its events, however the ingest and the processes that
\* close batches overwrite each other's rows (Observe, Close, UpdateBatch).
THEOREM CountersExact ==
  ASSUME ~Overlap
  PROVE  Spec => []OpenCountersExact
<1>1. OInv /\ CountInv => OpenCountersExact
  BY DEF CountInv, NInv, RowInv, RowOK, Fits, Work, OpenCountersExact, Listed
<1> QED BY <1>1, CountsHold, PTL

\* A batch handed to the summarizer holds enough meaningful work, though the
\* row that says so may have been read before the last events were stored.
THEOREM PendingIsWork ==
  ASSUME ~Overlap
  PROVE  Spec => []PendingHoldsWork
<1>1. OInv /\ CountInv => PendingHoldsWork
  BY DEF CountInv, NInv, RowInv, RowOK, Work, PendingHoldsWork, Listed
<1> QED BY <1>1, CountsHold, PTL

\* No batch holds more events than MaxEvents (Policy.MaxEvents), the bound
\* being checked against a row and not against the stored events.
THEOREM BatchesBounded ==
  ASSUME ~Overlap
  PROVE  Spec => []SizeBound
<1>1. OInv /\ CountInv => SizeBound
  BY DEF CountInv, NInv, EventInv, SizeBound
<1> QED BY <1>1, CountsHold, PTL

\* Counting again deletes a row or keeps its session and status.
LEMMA RecountedKeeps ==
  ASSUME NEW id, IsRow(batches[id]), NEW left
  PROVE  \/ Recounted(id, left).status = "deleted"
         \/ /\ Recounted(id, left).status = batches[id].status
            /\ Recounted(id, left).session = batches[id].session
<1> DEFINE b == batches[id]
           evs == {r.ev : r \in {x \in left : x.batch = id}}
           n == Cardinality(evs)
           m == Cardinality(MeaningfulIn(evs))
           w == MapThenSumSet(LAMBDA e : e.weight, evs)
           none == evs = {} /\ b.status \in {"open", "pending_summary", "skipped"}
<1>1. [Blank EXCEPT !.status = "deleted"].status = "deleted"
  BY DEF Blank
<1>2. Recounted(id, left) =
        IF b.status \in NoRow THEN b
        ELSE IF none THEN [Blank EXCEPT !.status = "deleted"]
        ELSE [b EXCEPT !.count = n, !.meaningful = m, !.score = w]
  BY Zenon DEF Recounted
<1> HIDE DEF n, m, w, none
<1>3. LET c == [b EXCEPT !.count = n, !.meaningful = m, !.score = w]
      IN c.session = b.session /\ c.status = b.status
  BY DEF IsRow
<1> QED BY <1>1, <1>2, <1>3

----------------------------------------------------------------------------
\* Types.  forget writes the sum of the weights of a batch's events into its
\* row.  That it is a number is shown by taking a smallest set of events for
\* which it would not be, once there is a function that sums up every subset.

First(s) == CHOOSE y \in s : TRUE

\* g gives the sum of every subset of u, an element at a time, as MapThenSumSet.
Sums(g, u) ==
  g = [s \in SUBSET u |->
         IF s = {} THEN 0 ELSE LET x == CHOOSE y \in s : TRUE IN x.weight + g[s \ {x}]]

\* Among sets of subsets of a finite set, one has no other inside it.
LEMMA Smallest ==
  ASSUME NEW S, IsFiniteSet(S), NEW T \in SUBSET SUBSET S, T # {}
  PROVE  \E x \in T : \A y \in T : y \subseteq x => y = x
<1>1. IsWellFoundedOn(StrictSubsetOrdering(S), SUBSET S)
  BY FS_FiniteSubsetsOfFinite, FS_StrictSubsetOrderingWellFounded
<1>2. \E x \in T : \A y \in T : ~(<<y, x>> \in StrictSubsetOrdering(S))
  BY <1>1, WFMin, Zenon
<1>3. \A x, y \in SUBSET S :
        y \subseteq x /\ y # x => <<y, x>> \in StrictSubsetOrdering(S)
  BY DEF StrictSubsetOrdering
<1> QED BY <1>2, <1>3

\* What Sums says of one subset.
LEMMA SumsOf ==
  ASSUME NEW g, NEW u, Sums(g, u), NEW s \in SUBSET u
  PROVE  /\ s = {} => g[s] = 0
         /\ s # {} => /\ First(s) \in s
                      /\ g[s] = First(s).weight + g[s \ {First(s)}]
<1>1. g[s] = IF s = {} THEN 0 ELSE LET x == CHOOSE y \in s : TRUE IN x.weight + g[s \ {x}]
  BY DEF Sums
<1>2. s # {} => First(s) \in s
  BY DEF First
<1> QED BY <1>1, <1>2 DEF First

\* Two such functions agree where both are defined.
LEMMA SumsAgree ==
  ASSUME NEW u, IsFiniteSet(u), NEW v \in SUBSET u, NEW g, NEW h, Sums(g, u), Sums(h, v)
  PROVE  \A s \in SUBSET v : g[s] = h[s]
<1> DEFINE T == {s \in SUBSET v : g[s] # h[s]}
<1> SUFFICES ASSUME T # {} PROVE FALSE
  OBVIOUS
<1>1. PICK s \in T : \A y \in T : y \subseteq s => y = s
  <2>1. T \in SUBSET SUBSET u
    OBVIOUS
  <2> HIDE DEF T
  <2> QED BY <2>1, Smallest
<1>2. s \in SUBSET v /\ s \in SUBSET u /\ g[s] # h[s]
  OBVIOUS
<1>3. s # {}
  BY <1>2, SumsOf
<1>4. First(s) \in s /\ g[s] = First(s).weight + g[s \ {First(s)}]
      /\ h[s] = First(s).weight + h[s \ {First(s)}]
  BY <1>2, <1>3, SumsOf
<1>5. s \ {First(s)} \notin T
  BY <1>1, <1>4
<1>6. g[s \ {First(s)}] = h[s \ {First(s)}]
  BY <1>2, <1>5
<1> QED BY <1>2, <1>4, <1>6

\* There is one for every finite set.
LEMMA SumsExist ==
  ASSUME NEW S, IsFiniteSet(S)
  PROVE  \E g : Sums(g, S)
<1> DEFINE T == {u \in SUBSET S : ~\E g : Sums(g, u)}
<1> SUFFICES ASSUME T # {} PROVE FALSE
  OBVIOUS
<1>1. PICK u \in T : \A v \in T : v \subseteq u => v = u
  <2>1. T \in SUBSET SUBSET S
    OBVIOUS
  <2> HIDE DEF T
  <2> QED BY <2>1, Smallest
<1> DEFINE part(v) == CHOOSE g : Sums(g, v)
           h == [s \in SUBSET u |->
                   IF s = {} THEN 0
                   ELSE First(s).weight + part(s \ {First(s)})[s \ {First(s)}]]
<1>2. u \in SUBSET S /\ ~\E g : Sums(g, u)
  OBVIOUS
<1>3. \A v \in SUBSET u : v # u => Sums(part(v), v)
  <2> SUFFICES ASSUME NEW v \in SUBSET u, v # u PROVE Sums(part(v), v)
    OBVIOUS
  <2>1. v \notin T
    BY <1>1
  <2>2. v \in SUBSET S
    BY <1>2
  <2>3. \E g : Sums(g, v)
    BY <2>1, <2>2
  <2> QED BY <2>3, Zenon
<1> HIDE DEF part, T
<1>4. \A v \in SUBSET u : v # u => h[v] = part(v)[v]
  <2> SUFFICES ASSUME NEW v \in SUBSET u, v # u PROVE h[v] = part(v)[v]
    OBVIOUS
  <2>1. Sums(part(v), v) /\ v \in SUBSET v
    BY <1>3
  <2>2. CASE v = {}
    BY <2>1, <2>2, SumsOf
  <2>3. CASE v # {}
    <3> DEFINE w == v \ {First(v)}
    <3>1. First(v) \in v /\ part(v)[v] = First(v).weight + part(v)[w]
      BY <2>1, <2>3, SumsOf
    <3>2. w \in SUBSET v /\ w \in SUBSET u /\ w # u
      BY <3>1
    <3>3. Sums(part(w), w) /\ w \in SUBSET w
      BY <1>3, <3>2
    <3>4. IsFiniteSet(v)
      BY <1>2, FS_Subset
    <3> HIDE DEF w
    <3>5. part(v)[w] = part(w)[w]
      BY <2>1, <3>2, <3>3, <3>4, SumsAgree
    <3>6. h[v] = First(v).weight + part(w)[w]
      BY <2>3 DEF w
    <3> QED BY <3>1, <3>5, <3>6
  <2> QED BY <2>2, <2>3
<1>5. \A s \in SUBSET u : s # {} => First(s) \in s /\ h[s \ {First(s)}] = part(s \ {First(s)})[s \ {First(s)}]
  <2> SUFFICES ASSUME NEW s \in SUBSET u, s # {}
               PROVE  First(s) \in s /\ h[s \ {First(s)}] = part(s \ {First(s)})[s \ {First(s)}]
    OBVIOUS
  <2>1. First(s) \in s
    BY DEF First
  <2>2. s \ {First(s)} \in SUBSET u /\ s \ {First(s)} # u
    BY <2>1
  <2> HIDE DEF h
  <2> QED BY <1>4, <2>1, <2>2
<1>6. \A s \in SUBSET u : h[s] = IF s = {} THEN 0 ELSE First(s).weight + h[s \ {First(s)}]
  <2> SUFFICES ASSUME NEW s \in SUBSET u
               PROVE  h[s] = IF s = {} THEN 0 ELSE First(s).weight + h[s \ {First(s)}]
    OBVIOUS
  <2>1. h[s] = IF s = {} THEN 0
               ELSE First(s).weight + part(s \ {First(s)})[s \ {First(s)}]
    OBVIOUS
  <2> HIDE DEF h
  <2> QED BY <1>5, <2>1
<1>7. h = [s \in SUBSET u |-> h[s]]
  OBVIOUS
<1>8. h = [s \in SUBSET u |-> IF s = {} THEN 0 ELSE First(s).weight + h[s \ {First(s)}]]
  <2> HIDE DEF h
  <2> QED BY <1>6, <1>7
<1>9. Sums(h, u)
  <2> HIDE DEF h
  <2> QED BY <1>8 DEF Sums, First
<1> QED BY <1>2, <1>9

\* The sum of the weights of finitely many events is a number.
LEMMA WeightIsNumber ==
  ASSUME NEW S, IsFiniteSet(S), \A e \in S : e.weight \in Int
  PROVE  MapThenSumSet(LAMBDA e : e.weight, S) \in Int
<1> DEFINE f == CHOOSE g : Sums(g, S)
<1>1. Sums(f, S)
  BY SumsExist, Zenon
<1>2. MapThenSumSet(LAMBDA e : e.weight, S) = f[S]
  BY DEF MapThenSumSet, MapThenFoldSet, Sums
<1> HIDE DEF f
<1>3. \A s \in SUBSET S : f[s] \in Int
  <2> DEFINE T == {s \in SUBSET S : f[s] \notin Int}
  <2> SUFFICES ASSUME T # {} PROVE FALSE
    OBVIOUS
  <2>1. PICK s \in T : \A y \in T : y \subseteq s => y = s
    <3>1. T \in SUBSET SUBSET S
      OBVIOUS
    <3> HIDE DEF T
    <3> QED BY <3>1, Smallest
  <2>2. s \in SUBSET S /\ f[s] \notin Int
    OBVIOUS
  <2>3. s # {}
    <3>1. s = {} => f[s] = 0
      BY <1>1, <2>2, SumsOf
    <3> QED BY <2>2, <3>1
  <2>4. First(s) \in s /\ f[s] = First(s).weight + f[s \ {First(s)}]
    <3> HIDE DEF T
    <3> QED BY <1>1, <2>2, <2>3, SumsOf
  <2>5. s \ {First(s)} \notin T
    BY <2>1, <2>4
  <2>6. f[s \ {First(s)}] \in Int /\ First(s).weight \in Int
    BY <2>2, <2>4, <2>5
  <2> QED BY <2>2, <2>4, <2>6
<1> QED BY <1>2, <1>3

\* Rows made of rows and events.
LEMMA RowTypes ==
  /\ Blank \in Batch /\ [Blank EXCEPT !.status = "deleted"] \in Batch
  /\ \A b \in Batch : Closed(b) \in Batch
  /\ \A b \in Batch : \A status \in LiveStatus : [b EXCEPT !.status = status] \in Batch
  /\ \A ev \in Event : Opened(ev) \in Batch
  /\ \A b \in Batch : \A ev \in Event : Counted(b, ev) \in Batch
<1>1. Blank \in Batch /\ [Blank EXCEPT !.status = "deleted"] \in Batch
  BY JournalAssumption DEF Blank, Batch, NoRow
<1>2. \A b \in Batch : \A status \in LiveStatus : [b EXCEPT !.status = status] \in Batch
  BY DEF Batch
<1>3. \A b \in Batch : Closed(b) \in Batch
  <2> SUFFICES ASSUME NEW b \in Batch PROVE Closed(b) \in Batch
    OBVIOUS
  <2>1. PICK status \in LiveStatus : Closed(b) = [b EXCEPT !.status = status]
    BY DEF Closed, LiveStatus
  <2> QED BY <1>2, <2>1
<1>4. \A ev \in Event : Opened(ev) \in Batch
  BY DEF Event, Opened, Batch, LiveStatus
<1>5. \A b \in Batch : \A ev \in Event : Counted(b, ev) \in Batch
  <2> SUFFICES ASSUME NEW b \in Batch, NEW ev \in Event PROVE Counted(b, ev) \in Batch
    OBVIOUS
  <2> DEFINE last == ev.start
             m == IF ev.meaningful THEN b.meaningful + 1 ELSE b.meaningful
             w == IF ev.meaningful THEN b.score + ev.weight ELSE b.score
             n == b.count + 1
  <2>1. last \in Nat /\ m \in Nat /\ w \in Int /\ n \in Nat
    BY DEF Batch, Event
  <2>2. Counted(b, ev) = [b EXCEPT !.count = n, !.lastEventAt = last, !.meaningful = m, !.score = w]
    BY DEF Counted
  <2> HIDE DEF last, m, w, n
  <2> QED BY <2>1, <2>2 DEF Batch
<1> QED BY <1>1, <1>2, <1>3, <1>4, <1>5

\* A row that is counted again, over finitely many events.
LEMMA RecountedType ==
  ASSUME NEW id, batches[id] \in Batch, NEW left \in SUBSET Stored, IsFiniteSet(left)
  PROVE  Recounted(id, left) \in Batch
<1> DEFINE b == batches[id]
           evs == {r.ev : r \in {x \in left : x.batch = id}}
           n == Cardinality(evs)
           m == Cardinality(MeaningfulIn(evs))
           w == MapThenSumSet(LAMBDA e : e.weight, evs)
           none == evs = {} /\ b.status \in {"open", "pending_summary", "skipped"}
<1>1. Recounted(id, left) =
        IF b.status \in NoRow THEN b
        ELSE IF none THEN [Blank EXCEPT !.status = "deleted"]
        ELSE [b EXCEPT !.count = n, !.meaningful = m, !.score = w]
  BY Zenon DEF Recounted
<1>2. IsFiniteSet(evs)
  <2>1. IsFiniteSet({x \in left : x.batch = id})
    BY FS_Subset
  <2> DEFINE rows == {x \in left : x.batch = id}
  <2>2. [r \in rows |-> r.ev] \in Surjection(rows, evs)
    BY DEF Surjection
  <2> QED BY <2>1, <2>2, FS_Surjection
<1>3. \A e \in evs : e.weight \in Int
  BY DEF Stored, Event
<1>4. n \in Nat
  BY <1>2, FS_CardinalityType
<1>5. m \in Nat
  <2>1. IsFiniteSet(MeaningfulIn(evs))
    BY <1>2, FS_Subset DEF MeaningfulIn
  <2> QED BY <2>1, FS_CardinalityType
<1>6. w \in Int
  BY <1>2, <1>3, WeightIsNumber
<1> HIDE DEF n, m, w, none
<1>7. [b EXCEPT !.count = n, !.meaningful = m, !.score = w] \in Batch
  BY <1>4, <1>5, <1>6 DEF Batch
<1> QED BY <1>1, <1>7, RowTypes


\* What the tables and the processes hold.

Tables == JournalTypeOK /\ IsFiniteSet(events)
Counts == now \in Nat /\ ran \in Nat /\ faults \in Nat /\ spawned \in Nat
HooksTyped == hook \in [Hooks -> HookState]

IsTypedCloser(x) ==
  /\ x.pc \in {"idle", "closing", "marking"} /\ x.kind \in {"end", "now", "tick"} /\ x.at \in Nat
  /\ \A t \in x.todo : t[1] \in BatchIds /\ t[2] \in Batch
ClosersTyped == \A c \in Closers : IsTypedCloser(closer[c])

TypedInv == Tables /\ Counts /\ HooksTyped /\ ClosersTyped

\* A process that is idle.
LEMMA IdleTypes == IdleHook \in HookState /\ NoEvent \in Event /\ IsTypedCloser(IdleCloser)
<1>1. AnyBatch \in BatchIds
  BY JournalAssumption DEF AnyBatch
<1>2. NoEvent \in Event
  BY JournalAssumption DEF NoEvent, Event
<1>3. IsTypedCloser(IdleCloser)
  BY DEF IsTypedCloser, IdleCloser
<1> QED BY <1>1, <1>2, <1>3, RowTypes DEF IdleHook, HookState

\* One ingest gets on with what it holds.
LEMMA HookTyped ==
  ASSUME HooksTyped, NEW h \in Hooks, NEW x \in HookState, hook' = [hook EXCEPT ![h] = x]
  PROVE  HooksTyped'
BY DEF HooksTyped

\* The table of batches after a statement.
LEMMA TablesTyped ==
  ASSUME Tables, NEW id \in BatchIds, NEW b \in Batch,
         batches' \in {batches, UpdateBatch(id, b), CreateBatch(id, b)},
         UNCHANGED <<events, drafts, lastSummary>>
  PROVE  Tables'
<1>1. batches' \in [BatchIds -> Batch]
  BY DEF Tables, JournalTypeOK, UpdateBatch, CreateBatch
<1> QED BY <1>1 DEF Tables, JournalTypeOK

\* An ingest begins with a command that is typed.
LEMMA StartTyped ==
  ASSUME TypedInv, NEW h \in Hooks, NEW s \in Sessions, StartIngest(h, s)
  PROVE  TypedInv'
<1>1. PICK c \in Commands, d \in Durations :
        /\ d <= now
        /\ hook' = [hook EXCEPT ![h] =
            [IdleHook EXCEPT !.pc = "open",
               !.ev = [cmd |-> ran + 1, session |-> s, start |-> now - d,
                       seen |-> now, meaningful |-> c.meaningful,
                       weight |-> c.weight, family |-> c.family,
                       milestone |-> c.milestone]]]
  BY DEF StartIngest
<1> DEFINE ev == [cmd |-> ran + 1, session |-> s, start |-> now - d, seen |-> now,
                  meaningful |-> c.meaningful, weight |-> c.weight, family |-> c.family,
                  milestone |-> c.milestone]
           x == [IdleHook EXCEPT !.pc = "open", !.ev = ev]
<1>2. /\ now \in Nat /\ ran \in Nat /\ d \in Nat
      /\ c \in [meaningful : BOOLEAN, weight : Nat, family : {"service", "config", "other"},
                milestone : BOOLEAN]
  BY IngestAssumption DEF TypedInv, Counts
<1>3. ev \in Event
  <2>1. now - d \in Nat /\ ran + 1 \in Nat
    BY <1>1, <1>2
  <2> QED BY <1>2, <2>1 DEF Event
<1>4. x \in HookState
  <2> HIDE DEF ev
  <2> QED BY <1>3, IdleTypes DEF HookState
<1>5. HooksTyped'
  <2>1. hook' = [hook EXCEPT ![h] = x]
    BY <1>1
  <2> HIDE DEF x
  <2> QED BY <1>4, <2>1, HookTyped DEF TypedInv
<1>6. Counts' /\ Tables' /\ ClosersTyped'
  BY <1>2 DEF TypedInv, StartIngest, Counts, Tables, ClosersTyped, JournalTypeOK, journalVars
<1> QED BY <1>5, <1>6 DEF TypedInv

\* An ingest reads, decides, marks, writes, stores or dies.
LEMMA HookStepTyped ==
  ASSUME TypedInv, NEW h \in Hooks, HookStep(h) \/ KillIngest(h)
  PROVE  TypedInv'
<1>1. /\ hook[h] \in HookState /\ hook[h].row \in Batch /\ hook[h].ev \in Event
      /\ hook[h].id \in BatchIds /\ \A id \in BatchIds : batches[id] \in Batch
      /\ HooksTyped /\ Tables
  BY DEF TypedInv, HooksTyped, HookState, Tables, JournalTypeOK
<1>2. ClosersTyped'
  BY DEF TypedInv, ClosersTyped, HookStep, ReadOpen, Rotate, Create, Decide, Mark, Write,
         Insert, KillIngest
<1>3. Counts'
  <2>1. UNCHANGED <<now, ran>> /\ faults' \in {faults, faults + 1} /\ spawned' \in {spawned, spawned + 1}
    BY Zenon DEF HookStep, ReadOpen, Rotate, Create, Decide, Mark, Write, Insert, KillIngest, Fault
  <2> QED BY <2>1 DEF TypedInv, Counts
<1>4. ASSUME UNCHANGED journalVars PROVE Tables'
  BY <1>1, <1>4 DEF Tables, JournalTypeOK, journalVars
<1>5. CASE ReadOpen(h)
  <2>1. ASSUME hook' = [hook EXCEPT ![h].pc = "create"] PROVE HooksTyped'
    BY <1>1, <2>1 DEF HooksTyped, HookState
  <2>2. ASSUME NEW id \in NewestOpen(hook[h].ev.session), NEW pc \in {"rotate", "decide"},
               hook' = [hook EXCEPT ![h].id = id, ![h].row = batches[id], ![h].pc = pc]
        PROVE  HooksTyped'
    <3>1. id \in BatchIds /\ batches[id] \in Batch
      BY <1>1 DEF NewestOpen, OpenOf, Listed
    <3> DEFINE x == [hook[h] EXCEPT !.id = id, !.row = batches[id], !.pc = pc]
    <3>2. x \in HookState
      BY <1>1, <3>1 DEF HookState
    <3>3. hook' = [hook EXCEPT ![h] = x]
      BY <2>2
    <3> HIDE DEF x
    <3> QED BY <1>1, <3>2, <3>3, HookTyped
  <2>3. \/ hook' = [hook EXCEPT ![h].pc = "create"]
        \/ \E id \in NewestOpen(hook[h].ev.session) : \E pc \in {"rotate", "decide"} :
             hook' = [hook EXCEPT ![h].id = id, ![h].row = batches[id], ![h].pc = pc]
    BY <1>5 DEF ReadOpen
  <2>4. HooksTyped'
    BY <2>1, <2>2, <2>3
  <2> QED BY <1>2, <1>3, <1>4, <1>5, <2>4 DEF TypedInv, ReadOpen
<1>6. CASE Rotate(h)
  <2> DEFINE wake == Closed(hook[h].row).status = "pending_summary"
             x == [hook[h] EXCEPT !.pc = "create", !.wake = wake]
  <2>1. wake \in BOOLEAN
    OBVIOUS
  <2>2. x \in HookState
    <3> HIDE DEF wake
    <3> QED BY <1>1, <2>1 DEF HookState
  <2>3. hook' = [hook EXCEPT ![h] = x]
    BY <1>6 DEF Rotate
  <2>4. HooksTyped'
    <3> HIDE DEF x
    <3> QED BY <1>1, <2>2, <2>3, HookTyped
  <2>5. Tables'
    BY <1>1, <1>6, RowTypes, TablesTyped DEF Rotate
  <2> QED BY <1>2, <1>3, <2>4, <2>5 DEF TypedInv
<1>7. CASE Create(h)
  <2> DEFINE row == Opened(hook[h].ev)
             x == [hook[h] EXCEPT !.id = NewId, !.row = row, !.pc = "decide"]
  <2>1. NewId \in BatchIds /\ row \in Batch
    BY <1>1, <1>7, RowTypes DEF Create, FreshIds, NewId
  <2>2. x \in HookState
    <3> HIDE DEF row
    <3> QED BY <1>1, <2>1 DEF HookState
  <2>3. hook' = [hook EXCEPT ![h] = x]
    BY <1>7 DEF Create
  <2>4. HooksTyped'
    <3> HIDE DEF x
    <3> QED BY <1>1, <2>2, <2>3, HookTyped
  <2>5. Tables'
    BY <1>1, <1>7, <2>1, TablesTyped DEF Create
  <2> QED BY <1>2, <1>3, <2>4, <2>5 DEF TypedInv
<1>8. CASE Decide(h)
  <2> DEFINE ev == hook[h].ev
             row == Counted(hook[h].row, ev)
             fires == /\ Triggers(row, ev, EventsOf(hook[h].id), ev.seen)
                      /\ CooledDown(lastSummary[ev.session], ev.seen)
             new == [row EXCEPT !.status = IF fires THEN "pending_summary" ELSE @]
             wake == hook[h].wake \/ fires
             pc == IF fires THEN "mark" ELSE "write"
             x == [hook[h] EXCEPT !.row = new, !.wake = wake, !.pc = pc]
  <2>1. row \in Batch
    BY <1>1, RowTypes
  <2>2. new \in Batch
    <3> HIDE DEF row, fires
    <3>1. new = row \/ new = [row EXCEPT !.status = "pending_summary"]
      BY <2>1 DEF Batch
    <3> QED BY <2>1, <3>1, RowTypes DEF LiveStatus
  <2>3. wake \in BOOLEAN /\ pc \in {"mark", "write"}
    BY <1>1 DEF HookState
  <2>4. x \in HookState
    <3> HIDE DEF new, wake, pc
    <3> QED BY <1>1, <2>2, <2>3 DEF HookState
  <2>5. hook' = [hook EXCEPT ![h] = x]
    BY <1>8 DEF Decide
  <2>6. HooksTyped'
    <3> HIDE DEF x
    <3> QED BY <1>1, <2>4, <2>5, HookTyped
  <2>7. Tables'
    BY <1>4, <1>8 DEF Decide
  <2> QED BY <1>2, <1>3, <2>6, <2>7 DEF TypedInv
<1>9. CASE Mark(h)
  <2>1. hook[h].ev.seen \in Nat
    BY <1>1 DEF Event
  <2>2. Tables'
    BY <1>1, <1>9, <2>1 DEF Mark, Tables, JournalTypeOK
  <2>3. HooksTyped'
    BY <1>1, <1>9 DEF Mark, HooksTyped, HookState
  <2> QED BY <1>2, <1>3, <2>2, <2>3 DEF TypedInv
<1>10. CASE Write(h)
  <2>1. Tables'
    BY <1>1, <1>10, TablesTyped DEF Write
  <2>2. HooksTyped'
    BY <1>1, <1>10 DEF Write, HooksTyped, HookState
  <2> QED BY <1>2, <1>3, <2>1, <2>2 DEF TypedInv
<1>11. CASE Insert(h)
  <2> DEFINE new == [ev |-> hook[h].ev, batch |-> hook[h].id]
  <2>1. new \in Stored /\ events' = events \cup {new}
    BY <1>1, <1>11 DEF Stored, Insert
  <2>2. UNCHANGED <<batches, drafts, lastSummary>>
    BY <1>11 DEF Insert
  <2>3. Tables'
    <3> HIDE DEF new
    <3>1. IsFiniteSet(events')
      BY <1>1, <2>1, FS_AddElement DEF Tables
    <3> QED BY <1>1, <2>1, <2>2, <3>1 DEF Tables, JournalTypeOK
  <2>4. HooksTyped'
    BY <1>1, <1>11, IdleTypes, HookTyped DEF Insert
  <2> QED BY <1>2, <1>3, <2>3, <2>4 DEF TypedInv
<1>12. CASE KillIngest(h)
  <2>1. HooksTyped'
    BY <1>1, <1>12, IdleTypes, HookTyped DEF KillIngest
  <2> QED BY <1>2, <1>3, <1>4, <1>12, <2>1 DEF TypedInv, KillIngest
<1> QED BY <1>5, <1>6, <1>7, <1>8, <1>9, <1>10, <1>11, <1>12 DEF HookStep


\* One closing process gets on with its list.
LEMMA CloserTyped ==
  ASSUME Shape, TypedInv, NEW c \in Closers, NEW x, IsTypedCloser(x),
         closer' = [closer EXCEPT ![c] = x]
  PROVE  ClosersTyped'
BY DEF Shape, TypedInv, ClosersTyped

\* A closing process begins, reads, closes, marks, ends or dies.
LEMMA ClosingTyped ==
  ASSUME Shape, TypedInv, NEW c \in Closers,
         \/ \E s \in Sessions : EndSession(c, s) \/ StartNow(c, s)
         \/ TickDue(c) \/ CloserStep(c) \/ KillCloser(c)
  PROVE  TypedInv'
<1>0. /\ IsCloser(closer[c]) /\ IsTypedCloser(closer[c]) /\ now \in Nat /\ Tables
      /\ \A ids \in SUBSET BatchIds : \A t \in Rows(ids) : t[1] \in BatchIds /\ t[2] \in Batch
  BY DEF Shape, TypedInv, ClosersTyped, Counts, Tables, JournalTypeOK, Rows
<1>1. HooksTyped' /\ events' = events /\ drafts' = drafts
  BY Started DEF TypedInv, HooksTyped, Start, CloserStep, CloseNext, CloserMark, FallBack,
                 FinishClosing, KillCloser, journalVars
<1>2. Counts'
  <2>1. UNCHANGED <<now, ran>> /\ faults' \in {faults, faults + 1} /\ spawned' \in {spawned, spawned + 1}
    BY Started, Zenon DEF Start, CloserStep, CloseNext, CloserMark, FallBack, FinishClosing,
                          KillCloser, Fault
  <2> QED BY <2>1 DEF TypedInv, Counts
<1>3. ASSUME UNCHANGED journalVars PROVE Tables'
  BY <1>0, <1>3 DEF Tables, JournalTypeOK, journalVars
<1>4. CASE (\E s \in Sessions : EndSession(c, s) \/ StartNow(c, s)) \/ TickDue(c)
  <2>1. PICK kind, s, more : \E ids \in SUBSET Listed({"open"}) : Start(c, kind, s, ids, more)
    BY <1>4, Started
  <2>2. PICK ids \in SUBSET Listed({"open"}) : Start(c, kind, s, ids, more)
    BY <2>1
  <2> DEFINE todo == Rows(ids)
             x == [pc |-> "closing", kind |-> kind, at |-> now, more |-> more,
                   todo |-> todo, session |-> s]
  <2>3. IsTypedCloser(x)
    <3>1. kind \in {"end", "now", "tick"}
      BY <2>2, IngestAssumption DEF Start
    <3>2. \A t \in todo : t[1] \in BatchIds /\ t[2] \in Batch
      BY <1>0 DEF Listed
    <3> HIDE DEF todo
    <3> QED BY <1>0, <3>1, <3>2 DEF IsTypedCloser
  <2>4. closer' = [closer EXCEPT ![c] = x] /\ UNCHANGED journalVars
    BY <2>2 DEF Start
  <2>5. ClosersTyped'
    <3> HIDE DEF x
    <3> QED BY <2>3, <2>4, CloserTyped
  <2> QED BY <1>1, <1>2, <1>3, <2>4, <2>5 DEF TypedInv
<1>5. CASE CloseNext(c)
  <2>1. PICK t \in closer[c].todo :
          /\ batches' = UpdateBatch(t[1], Closed(t[2])) \/ batches' = batches
          /\ closer' = [closer EXCEPT
               ![c].todo = closer[c].todo \ {t},
               ![c].more = closer[c].more /\ Closed(t[2]).status # "pending_summary",
               ![c].session = t[2].session,
               ![c].pc = IF closer[c].kind = "tick" /\ StaleTimer(t, closer[c].at)
                         THEN "marking" ELSE closer[c].pc]
    BY <1>5 DEF CloseNext
  <2> DEFINE todo == closer[c].todo \ {t}
             more == closer[c].more /\ Closed(t[2]).status # "pending_summary"
             pc == IF closer[c].kind = "tick" /\ StaleTimer(t, closer[c].at)
                   THEN "marking" ELSE closer[c].pc
             session == t[2].session
             x == [closer[c] EXCEPT !.todo = todo, !.more = more, !.session = session, !.pc = pc]
  <2>2. IsTypedCloser(x)
    <3>1. \A u \in todo : u[1] \in BatchIds /\ u[2] \in Batch
      BY <1>0 DEF IsTypedCloser
    <3>2. pc \in {"idle", "closing", "marking"}
      BY <1>0 DEF IsTypedCloser
    <3> HIDE DEF todo, more, pc, session
    <3> QED BY <1>0, <3>1, <3>2 DEF IsTypedCloser, IsCloser
  <2>3. closer' = [closer EXCEPT ![c] = x]
    BY <2>1
  <2>4. ClosersTyped'
    <3> HIDE DEF x
    <3> QED BY <2>2, <2>3, CloserTyped
  <2>5. t[1] \in BatchIds /\ Closed(t[2]) \in Batch
    BY <1>0, RowTypes DEF IsTypedCloser
  <2>6. Tables'
    BY <1>0, <1>5, <2>1, <2>5, TablesTyped DEF CloseNext
  <2> QED BY <1>1, <1>2, <2>4, <2>6 DEF TypedInv
<1>6. CASE CloserMark(c)
  <2> DEFINE x == [closer[c] EXCEPT !.pc = "closing"]
  <2>1. IsTypedCloser(x)
    BY <1>0 DEF IsTypedCloser, IsCloser
  <2>2. closer' = [closer EXCEPT ![c] = x]
    BY <1>6 DEF CloserMark
  <2>3. ClosersTyped'
    <3> HIDE DEF x
    <3> QED BY <2>1, <2>2, CloserTyped
  <2>4. closer[c].at \in Nat
    BY <1>0 DEF IsTypedCloser
  <2>5. Tables'
    BY <1>0, <1>6, <2>4 DEF CloserMark, Tables, JournalTypeOK
  <2> QED BY <1>1, <1>2, <2>3, <2>5 DEF TypedInv
<1>7. CASE FallBack(c)
  <2> DEFINE todo == Rows(Listed({"open"}))
             x == [closer[c] EXCEPT !.more = FALSE, !.todo = todo]
  <2>1. \A u \in todo : u[1] \in BatchIds /\ u[2] \in Batch
    BY <1>0 DEF Listed
  <2>2. IsTypedCloser(x)
    <3> HIDE DEF todo
    <3> QED BY <1>0, <2>1 DEF IsTypedCloser, IsCloser
  <2>3. closer' = [closer EXCEPT ![c] = x]
    BY <1>7 DEF FallBack
  <2>4. ClosersTyped'
    <3> HIDE DEF x
    <3> QED BY <2>2, <2>3, CloserTyped
  <2> QED BY <1>1, <1>2, <1>3, <1>7, <2>4 DEF TypedInv, FallBack
<1>8. CASE FinishClosing(c) \/ KillCloser(c)
  <2>1. closer' = [closer EXCEPT ![c] = IdleCloser] /\ UNCHANGED journalVars
    BY <1>8 DEF FinishClosing, KillCloser
  <2>2. ClosersTyped'
    BY <2>1, IdleTypes, CloserTyped
  <2> QED BY <1>1, <1>2, <1>3, <2>1, <2>2 DEF TypedInv
<1> QED BY <1>4, <1>5, <1>6, <1>7, <1>8 DEF CloserStep

\* forget leaves rows that are typed.
LEMMA ForgetTyped ==
  ASSUME TypedInv, Forget
  PROVE  TypedInv'
<1>0. Tables /\ batches \in [BatchIds -> Batch] /\ IsFiniteSet(events)
  BY DEF TypedInv, Tables, JournalTypeOK
<1>1. HooksTyped' /\ ClosersTyped'
  BY DEF TypedInv, Forget, HooksTyped, ClosersTyped
<1>2. Counts'
  BY DEF TypedInv, Forget, Counts, Fault
<1>3. \A ids : Staled(ids) \subseteq Draft
  <2> SUFFICES ASSUME NEW ids, NEW d \in drafts
               PROVE  (IF d.batch \in ids THEN [d EXCEPT !.status = "stale"] ELSE d) \in Draft
    BY DEF Staled
  <2>1. d \in Draft
    BY <1>0 DEF Tables, JournalTypeOK
  <2> QED BY <2>1 DEF Draft
<1>4. ASSUME NEW gone \in SUBSET events, DeleteEvents(gone) PROVE Tables'
  <2>1. events \ gone \in SUBSET Stored /\ IsFiniteSet(events \ gone)
    BY <1>0, FS_Subset DEF Tables, JournalTypeOK
  <2>2. \A id \in BatchIds : Recounted(id, events \ gone) \in Batch
    BY <1>0, <2>1, RecountedType
  <2>3. /\ batches' = [id \in BatchIds |-> Recounted(id, events \ gone)]
        /\ \E ids : drafts' = Staled(ids)
        /\ events' = events \ gone /\ lastSummary' = lastSummary
    BY <1>4 DEF DeleteEvents
  <2> QED BY <1>0, <1>3, <2>1, <2>2, <2>3 DEF Tables, JournalTypeOK
<1>5. ASSUME NEW n, DeleteLastEvents(n) PROVE Tables'
  <2>1. /\ UNCHANGED <<batches, lastSummary>> /\ \E ids : drafts' = Staled(ids)
        /\ \E gone : events' = events \ gone
    BY <1>5 DEF DeleteLastEvents
  <2>2. events' \subseteq events
    BY <2>1
  <2>3. IsFiniteSet(events')
    BY <1>0, <2>2, FS_Subset
  <2> QED BY <1>0, <1>3, <2>1, <2>2, <2>3 DEF Tables, JournalTypeOK
<1>6. Tables'
  BY <1>4, <1>5 DEF Forget, ForgetSession, ForgetSince
<1> QED BY <1>1, <1>2, <1>6 DEF TypedInv

\* At the start there is nothing.
LEMMA TypedInit == Init => TypedInv
<1> SUFFICES ASSUME Init PROVE TypedInv
  OBVIOUS
<1>1. Tables
  BY RowTypes, FS_EmptySet DEF Init, JournalInit, Tables, JournalTypeOK
<1>2. Counts /\ HooksTyped /\ ClosersTyped
  BY IdleTypes DEF Init, IngestInit, Counts, HooksTyped, ClosersTyped
<1> QED BY <1>1, <1>2 DEF TypedInv

\* Every step keeps the types.
LEMMA TypedNext ==
  ASSUME Shape, TypedInv, [Next]_vars
  PROVE  TypedInv'
<1>1. CASE Clock \/ UNCHANGED vars
  <2>1. /\ now' \in {now, now + 1}
        /\ UNCHANGED <<batches, events, drafts, lastSummary, ran, faults, hook, closer, spawned>>
    BY <1>1 DEF Clock, vars, journalVars, ingestVars
  <2> QED BY <2>1 DEF TypedInv, Tables, JournalTypeOK, Counts, HooksTyped, ClosersTyped
<1> QED BY <1>1, StartTyped, HookStepTyped, ClosingTyped, ForgetTyped
        DEF Next, HookNext, CloserNext

\* The tables and the processes are typed, whatever overlaps, dies and is
\* forgotten: no row is left without a value, no count below nothing.
THEOREM IngestTyped == Spec => []IngestTypeOK
<1>1. Init => Shape /\ TypedInv
  BY ShapeInit, TypedInit
<1>2. Shape /\ TypedInv /\ [Next]_vars => (Shape /\ TypedInv)'
  BY ShapeNext, TypedNext
<1>3. Shape /\ TypedInv => IngestTypeOK
  BY DEF Shape, TypedInv, Tables, Counts, HooksTyped, ClosersTyped, IsTypedCloser, IngestTypeOK
<1> QED BY <1>1, <1>2, <1>3, PTL DEF Spec

=============================================================================
