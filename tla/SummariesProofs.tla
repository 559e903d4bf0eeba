--------------------------- MODULE SummariesProofs ---------------------------
(***************************************************************************)
(* For every number of batches, workers and attempts: what holds of the    *)
(* processes that take the worker's lock.                                  *)
(***************************************************************************)
EXTENDS Summaries, FiniteSetTheorems, TLAPS

----------------------------------------------------------------------------
\* The inductive invariant

Working(p) == worker[p].pc \in {"call", "save", "finish"}

\* WorkerTypeOK, with what the counting of drafts needs.
TypeInv ==
  /\ WorkerTypeOK
  /\ IsFiniteSet(drafts)

\* Whoever runs holds the lock; whoever does not has nothing in memory.
LockInv ==
  \A p \in Summarizers :
    /\ Running(p) => lock = p
    /\ ~Running(p) => worker[p].todo = {}

\* A batch with a draft is past the states a worker lists, and the batch a
\* worker has claimed gets its draft when it is saved.
DraftInv ==
  /\ OneDraftPerBatch
  /\ \A d \in drafts : batches[d.batch].status \in {"summarizing", "summarized"}
  /\ \A p \in Summarizers : worker[p].pc \in {"call", "save"} =>
       \A d \in drafts : d.batch # worker[p].id

\* Attempts left for every batch that may be tried.
AttemptInv ==
  /\ AttemptsBounded
  /\ \A id \in Listed({"pending_summary"}) : batches[id].attempts < MaxAttempts

\* What a worker has read it may try, and will not find in its list again.
ReadInv ==
  \A p \in Workers : worker[p].pc = "claim" =>
    /\ worker[p].row.attempts < MaxAttempts
    /\ \A u \in worker[p].todo : u[1] # worker[p].id

IInv == TypeInv /\ LockInv /\ CopiesFresh /\ DraftInv /\ AttemptInv /\ ReadInv

----------------------------------------------------------------------------
LEMMA SomeBatchOK == SomeBatch \in BatchIds
  BY JournalAssumption DEF SomeBatch

LEMMA BlankOK == Blank \in Batch
  BY JournalAssumption DEF Blank, Batch, LiveStatus, NoRow

\* Init
LEMMA InitInv == Init => IInv
<1> SUFFICES ASSUME Init PROVE IInv
  OBVIOUS
<1> USE DEF Init, JournalInit, WorkerInit, IdleWorker
<1>1. JournalTypeOK
  BY BlankOK DEF JournalTypeOK, Never
<1>2. WorkerTypeOK
  BY <1>1, BlankOK, SomeBatchOK, WorkerAssumption DEF WorkerTypeOK, WorkerState, Never
<1>3. TypeInv
  BY <1>2, FS_EmptySet DEF TypeInv
<1>4. LockInv
  BY DEF LockInv, Running
<1>5. CopiesFresh
  BY DEF CopiesFresh
<1>6. DraftInv
  BY DEF DraftInv, OneDraftPerBatch
<1>7. AttemptInv
  BY WorkerAssumption DEF AttemptInv, AttemptsBounded, Listed, Blank
<1>8. ReadInv
  BY DEF ReadInv, Summarizers
<1> QED
  BY <1>3, <1>4, <1>5, <1>6, <1>7, <1>8 DEF IInv

----------------------------------------------------------------------------
\* What the statements keep

LEMMA UpdateBatchType ==
  ASSUME JournalTypeOK, NEW id \in BatchIds, NEW b \in Batch
  PROVE  UpdateBatch(id, b) \in [BatchIds -> Batch]
  BY DEF UpdateBatch, JournalTypeOK

LEMMA EventsOfType ==
  ASSUME JournalTypeOK, NEW id \in BatchIds
  PROVE  EventsOf(id) \subseteq Event
  BY DEF EventsOf, JournalTypeOK, Stored

\* While one process runs the others have nothing in memory.
LEMMA Alone ==
  ASSUME LockInv, NEW p \in Summarizers, Running(p),
         NEW q \in Summarizers, q # p
  PROVE  worker[q].pc = "idle" /\ worker[q].todo = {}
  BY DEF LockInv, Running

\* What a listed row may be.
LEMMA ListedRow ==
  ASSUME IInv, NEW p \in Summarizers, NEW t \in Oldest(worker[p].todo)
  PROVE  /\ t \in worker[p].todo
         /\ t[1] \in BatchIds /\ t[2] \in Batch
         /\ batches[t[1]] = t[2]
         /\ t[2].status \in {"pending_summary", "failed"}
         /\ batches[t[1]].status \notin NoRow
         /\ \A d \in drafts : d.batch # t[1]
<1>1. t \in worker[p].todo
  BY DEF Oldest
<1>2. worker[p].todo \subseteq BatchIds \X Batch
  BY DEF IInv, TypeInv, WorkerTypeOK, WorkerState
<1>3. t[1] \in BatchIds /\ t[2] \in Batch
  BY <1>1, <1>2
<1>4. batches[t[1]] = t[2] /\ t[2].status \in {"pending_summary", "failed"}
  BY <1>1 DEF IInv, CopiesFresh
<1>5. \A d \in drafts : d.batch # t[1]
  BY <1>4 DEF IInv, DraftInv
<1> QED
  BY <1>1, <1>3, <1>4, <1>5 DEF NoRow

\* The other rows of a list are other rows of the table.
LEMMA OthersKept ==
  ASSUME IInv, NEW p \in Summarizers, NEW t \in worker[p].todo,
         NEW b, batches' = [batches EXCEPT ![t[1]] = b]
  PROVE  \A u \in worker[p].todo \ {t} :
           batches'[u[1]] = u[2] /\ u[2].status \in {"pending_summary", "failed"}
<1> SUFFICES ASSUME NEW u \in worker[p].todo \ {t}
             PROVE  batches'[u[1]] = u[2] /\ u[2].status \in {"pending_summary", "failed"}
  OBVIOUS
<1>1. worker[p].todo \subseteq BatchIds \X Batch
  BY DEF IInv, TypeInv, WorkerTypeOK, WorkerState
<1>2. t = <<t[1], t[2]>> /\ u = <<u[1], u[2]>> /\ u[1] \in BatchIds
  BY <1>1
<1>3. batches[u[1]] = u[2] /\ u[2].status \in {"pending_summary", "failed"} /\ batches[t[1]] = t[2]
  BY DEF IInv, CopiesFresh
<1>4. u[1] # t[1]
  BY <1>2, <1>3
<1> QED
  BY <1>2, <1>3, <1>4 DEF IInv, TypeInv, WorkerTypeOK, JournalTypeOK

\* What a worker knows of the batch it has claimed.
LEMMA Claimed ==
  ASSUME IInv, NEW w \in Workers, Working(w)
  PROVE  /\ worker[w].id \in BatchIds /\ worker[w].row \in Batch
         /\ batches[worker[w].id] = worker[w].row
         /\ worker[w].row.status = "summarizing"
         /\ worker[w].row.attempts <= MaxAttempts
         /\ \A u \in worker[w].todo : u[1] # worker[w].id
         /\ \A u \in worker[w].todo :
              /\ u[1] \in BatchIds /\ batches[u[1]] = u[2]
              /\ u[2].status \in {"pending_summary", "failed"}
<1>1. w \in Summarizers /\ worker[w] \in WorkerState
  BY WorkerAssumption DEF Summarizers, IInv, TypeInv, WorkerTypeOK
<1>2. worker[w].id \in BatchIds /\ worker[w].row \in Batch /\ worker[w].todo \subseteq BatchIds \X Batch
  BY <1>1 DEF WorkerState
<1>3. batches[worker[w].id] = worker[w].row /\ worker[w].row.status = "summarizing"
  BY <1>1 DEF IInv, CopiesFresh, Working
<1>4. \A u \in worker[w].todo : batches[u[1]] = u[2] /\ u[2].status \in {"pending_summary", "failed"}
  BY <1>1 DEF IInv, CopiesFresh
<1>5. worker[w].row.attempts <= MaxAttempts
  BY <1>2, <1>3 DEF IInv, AttemptInv, AttemptsBounded
<1> QED
  BY <1>2, <1>3, <1>4, <1>5

\* And of the one whose events it has read.
LEMMA ReadRow ==
  ASSUME IInv, NEW w \in Workers, worker[w].pc = "claim"
  PROVE  /\ worker[w].id \in BatchIds /\ worker[w].row \in Batch
         /\ batches[worker[w].id] = worker[w].row
         /\ worker[w].row.status \in {"pending_summary", "failed"}
         /\ worker[w].row.attempts < MaxAttempts
         /\ \A d \in drafts : d.batch # worker[w].id
         /\ \A u \in worker[w].todo :
              /\ u[1] # worker[w].id /\ u[1] \in BatchIds /\ batches[u[1]] = u[2]
              /\ u[2].status \in {"pending_summary", "failed"}
<1>1. w \in Summarizers /\ worker[w] \in WorkerState
  BY WorkerAssumption DEF Summarizers, IInv, TypeInv, WorkerTypeOK
<1>2. worker[w].id \in BatchIds /\ worker[w].row \in Batch /\ worker[w].todo \subseteq BatchIds \X Batch
  BY <1>1 DEF WorkerState
<1>3. /\ batches[worker[w].id] = worker[w].row
      /\ worker[w].row.status \in {"pending_summary", "failed"}
      /\ \A u \in worker[w].todo : batches[u[1]] = u[2] /\ u[2].status \in {"pending_summary", "failed"}
  BY <1>1 DEF IInv, CopiesFresh
<1>4. \A d \in drafts : d.batch # worker[w].id
  BY <1>3 DEF IInv, DraftInv
<1>5. worker[w].row.attempts < MaxAttempts /\ \A u \in worker[w].todo : u[1] # worker[w].id
  BY DEF IInv, ReadInv
<1> QED
  BY <1>2, <1>3, <1>4, <1>5

----------------------------------------------------------------------------
\* Steps

LEMMA ArriveInv ==
  ASSUME IInv, NEW id \in BatchIds, Arrive(id)
  PROVE  IInv'
<1> USE DEF IInv
<1>1. PICK at \in 0..1, evs \in {{}, {SomeEvent(id)}} :
        /\ batches' = CreateBatch(id, Handed(at))
        /\ events' = events \cup {[ev |-> e, batch |-> id] : e \in evs}
        /\ batches[id].status = "absent"
        /\ UNCHANGED <<drafts, lastSummary, workerVars>>
  BY DEF Arrive
<1> DEFINE b == Handed(at)
<1>2. b \in Batch /\ b.status = "pending_summary" /\ b.attempts = 0
  BY JournalAssumption DEF Batch, Handed, LiveStatus
<1> HIDE DEF b
<1>3. batches' = [batches EXCEPT ![id] = b] /\ batches \in [BatchIds -> Batch]
  BY <1>1 DEF b, CreateBatch, TypeInv, WorkerTypeOK, JournalTypeOK
<1>4. SomeEvent(id) \in Event
  BY SummariesAssumption, JournalAssumption DEF SomeEvent, Event
<1>5. TypeInv'
  <2>1. events' \subseteq Stored
    BY <1>1, <1>4 DEF TypeInv, WorkerTypeOK, JournalTypeOK, Stored
  <2>2. batches' \in [BatchIds -> Batch]
    BY <1>2, <1>3
  <2> QED
    BY <1>1, <2>1, <2>2 DEF TypeInv, WorkerTypeOK, JournalTypeOK, workerVars
<1>6. LockInv'
  BY <1>1 DEF LockInv, Running, workerVars
<1>7. CopiesFresh'
  <2>1. ASSUME NEW p \in Summarizers
        PROVE  /\ \A t \in worker[p].todo : t[1] # id
               /\ Working(p) \/ worker[p].pc = "claim" => worker[p].id # id
    BY <1>1 DEF CopiesFresh, Working
  <2>2. ASSUME NEW p \in Summarizers
        PROVE  /\ \A t \in worker'[p].todo :
                    /\ batches'[t[1]] = t[2]
                    /\ t[2].status \in {"pending_summary", "failed"}
               /\ worker'[p].pc = "claim" =>
                    /\ batches'[worker'[p].id] = worker'[p].row
                    /\ worker'[p].row.status \in {"pending_summary", "failed"}
               /\ worker'[p].pc \in {"call", "save", "finish"} =>
                    /\ batches'[worker'[p].id] = worker'[p].row
                    /\ worker'[p].row.status = "summarizing"
    <3>1. worker' = worker
      BY <1>1 DEF workerVars
    <3>2. worker[p] \in WorkerState
      BY DEF TypeInv, WorkerTypeOK
    <3>3. \A t \in worker[p].todo : t[1] \in BatchIds /\ batches'[t[1]] = batches[t[1]]
      BY <1>3, <2>1, <3>2 DEF WorkerState
    <3>4. Working(p) \/ worker[p].pc = "claim" => batches'[worker[p].id] = batches[worker[p].id]
      BY <1>3, <2>1, <3>2 DEF WorkerState
    <3> QED
      BY <3>1, <3>3, <3>4 DEF CopiesFresh, Working
  <2> QED
    BY <2>2 DEF CopiesFresh
<1>8. DraftInv'
  <2>1. \A d \in drafts : d.batch # id
    BY <1>1 DEF DraftInv
  <2> QED
    BY <1>1, <1>3, <2>1 DEF DraftInv, OneDraftPerBatch, workerVars, TypeInv, WorkerTypeOK, JournalTypeOK, Draft
<1>9. AttemptInv'
  BY <1>2, <1>3, WorkerAssumption DEF AttemptInv, AttemptsBounded, Listed
<1>10. ReadInv'
  BY <1>1 DEF ReadInv, workerVars
<1> QED
  BY <1>5, <1>6, <1>7, <1>8, <1>9, <1>10

\* A step of the one process that runs: what is left to check when the rest
\* have nothing in memory.
LEMMA StepKeeps ==
  ASSUME IInv, NEW w \in Summarizers, NEW r \in WorkerState,
         \A q \in Summarizers \ {w} : ~Running(q),
         worker' = [worker EXCEPT ![w] = r],
         JournalTypeOK', IsFiniteSet(drafts'),
         lock' \in Workers \cup {NoOne}, notice' \in Nat, aborts' \in 0..MaxAborts,
         r.pc # "idle" => lock' = w,
         r.pc = "idle" => r.todo = {},
         \A t \in r.todo : /\ batches'[t[1]] = t[2]
                          /\ t[2].status \in {"pending_summary", "failed"},
         r.pc = "claim" =>
           /\ batches'[r.id] = r.row /\ r.row.status \in {"pending_summary", "failed"}
           /\ r.row.attempts < MaxAttempts /\ \A u \in r.todo : u[1] # r.id,
         r.pc \in {"call", "save", "finish"} =>
           batches'[r.id] = r.row /\ r.row.status = "summarizing",
         OneDraftPerBatch',
         \A d \in drafts' : batches'[d.batch].status \in {"summarizing", "summarized"},
         r.pc \in {"call", "save"} => \A d \in drafts' : d.batch # r.id,
         AttemptInv'
  PROVE  IInv'
<1> USE DEF IInv
<1>1. worker' \in [Summarizers -> WorkerState]
  BY DEF TypeInv, WorkerTypeOK
<1>2. worker'[w] = r /\ \A q \in Summarizers \ {w} : worker'[q] = worker[q]
  BY DEF TypeInv, WorkerTypeOK
<1>3. \A q \in Summarizers \ {w} : worker'[q].pc = "idle" /\ worker'[q].todo = {}
  BY <1>2 DEF LockInv, Running
<1>4. TypeInv'
  BY <1>1 DEF TypeInv, WorkerTypeOK
<1>5. LockInv'
  BY <1>2, <1>3 DEF LockInv, Running
<1>6. CopiesFresh'
  BY <1>2, <1>3 DEF CopiesFresh
<1>7. DraftInv'
  BY <1>2, <1>3 DEF DraftInv
<1>8. ReadInv'
  BY <1>2, <1>3 DEF ReadInv, Summarizers
<1> QED
  BY <1>4, <1>5, <1>6, <1>7, <1>8

LEMMA JournalKept ==
  ASSUME IInv, UNCHANGED journalVars
  PROVE  /\ batches' = batches /\ drafts' = drafts /\ events' = events
         /\ JournalTypeOK' /\ IsFiniteSet(drafts')
         /\ OneDraftPerBatch' /\ AttemptInv'
         /\ \A d \in drafts' : batches'[d.batch].status \in {"summarizing", "summarized"}
<1> USE DEF IInv, journalVars
<1>1. JournalTypeOK' /\ IsFiniteSet(drafts')
  BY DEF TypeInv, WorkerTypeOK, JournalTypeOK
<1>2. OneDraftPerBatch' /\ \A d \in drafts' : batches'[d.batch].status \in {"summarizing", "summarized"}
  BY DEF DraftInv, OneDraftPerBatch
<1>3. AttemptInv'
  BY DEF AttemptInv, AttemptsBounded, Listed
<1> QED
  BY <1>1, <1>2, <1>3

\* A row is written back while no process but its holder runs.
LEMMA RowWritten ==
  ASSUME IInv, NEW id \in BatchIds, NEW b \in Batch,
         batches[id].status \notin NoRow,
         batches' = UpdateBatch(id, b),
         UNCHANGED <<events, drafts, lastSummary>>,
         b.attempts <= MaxAttempts, b.status # "pending_summary",
         (\E d \in drafts : d.batch = id) => b.status \in {"summarizing", "summarized"}
  PROVE  /\ batches' = [batches EXCEPT ![id] = b]
         /\ JournalTypeOK' /\ IsFiniteSet(drafts')
         /\ OneDraftPerBatch' /\ AttemptInv'
         /\ \A d \in drafts' : batches'[d.batch].status \in {"summarizing", "summarized"}
<1> USE DEF IInv
<1>1. batches' = [batches EXCEPT ![id] = b]
  BY DEF UpdateBatch
<1>2. batches \in [BatchIds -> Batch] /\ drafts \subseteq Draft
  BY DEF TypeInv, WorkerTypeOK, JournalTypeOK
<1>3. JournalTypeOK' /\ IsFiniteSet(drafts')
  BY <1>1 DEF TypeInv, WorkerTypeOK, JournalTypeOK
<1>4. OneDraftPerBatch'
  BY DEF DraftInv, OneDraftPerBatch
<1>5. \A d \in drafts' : batches'[d.batch].status \in {"summarizing", "summarized"}
  BY <1>1, <1>2 DEF DraftInv, Draft
<1>6. AttemptInv'
  BY <1>1, <1>2 DEF AttemptInv, AttemptsBounded, Listed
<1> QED
  BY <1>1, <1>3, <1>4, <1>5, <1>6

LEMMA Holder ==
  ASSUME IInv, NEW w \in Workers, worker[w].pc # "idle"
  PROVE  /\ w \in Summarizers /\ w \notin Manual /\ lock = w
         /\ \A q \in Summarizers \ {w} : ~Running(q)
         /\ worker[w] \in WorkerState
         /\ lock \in Workers \cup {NoOne} /\ notice \in Nat /\ aborts \in 0..MaxAborts
<1> USE DEF IInv
<1>1. w \in Summarizers /\ w \notin Manual
  BY WorkerAssumption DEF Summarizers
<1>2. lock = w /\ \A q \in Summarizers \ {w} : ~Running(q)
  BY <1>1 DEF LockInv, Running
<1> QED
  BY <1>1, <1>2 DEF TypeInv, WorkerTypeOK

LEMMA StartInv ==
  ASSUME IInv, NEW w \in Workers, StartWork(w)
  PROVE  IInv'
<1> DEFINE r == [worker[w] EXCEPT !.pc = "list", !.tick = Never]
<1> USE DEF StartWork, Acquire
<1>1. w \in Summarizers /\ \A p \in Summarizers : ~Running(p)
  BY WorkerAssumption DEF IInv, LockInv, Summarizers
<1>2. worker[w] \in WorkerState /\ worker[w].todo = {}
  BY <1>1 DEF IInv, TypeInv, WorkerTypeOK, LockInv
<1>3. r \in WorkerState /\ r.pc = "list" /\ r.todo = {}
  BY <1>2 DEF WorkerState
<1>4. worker' = [worker EXCEPT ![w] = r]
  OBVIOUS
<1>5. notice' \in Nat /\ aborts' \in 0..MaxAborts /\ lock' = w
  BY DEF IInv, TypeInv, WorkerTypeOK
<1> HIDE DEF r
<1> QED
  BY <1>1, <1>3, <1>4, <1>5, JournalKept, StepKeeps

\* The list is read while nobody else runs: it is fresh, and stays so.
LEMMA ListInv ==
  ASSUME IInv, NEW w \in Workers, List(w)
  PROVE  IInv'
<1> DEFINE todo == {<<id, batches[id]>> : id \in Listed({"pending_summary", "failed"})}
           r == [worker[w] EXCEPT !.pc = "next", !.todo = todo]
<1> USE DEF List, ListIn
<1>1. worker[w].pc = "list"
  OBVIOUS
<1>2. w \in Summarizers /\ w \notin Manual /\ worker[w] \in WorkerState
  BY <1>1, Holder
<1>3. todo \subseteq BatchIds \X Batch
  BY DEF Listed, IInv, TypeInv, WorkerTypeOK, JournalTypeOK
<1>4. \A t \in todo : batches[t[1]] = t[2] /\ t[2].status \in {"pending_summary", "failed"}
  BY DEF Listed
<1>5. worker' = [worker EXCEPT ![w] = r]
  BY <1>2
<1> HIDE DEF todo
<1>6. r \in WorkerState /\ r.pc = "next" /\ r.todo = todo
  BY <1>2, <1>3 DEF WorkerState
<1>7. UNCHANGED <<lock, notice, aborts>> /\ UNCHANGED journalVars
  OBVIOUS
<1> HIDE DEF r, List, ListIn
<1>8. \A u \in r.todo : batches'[u[1]] = u[2] /\ u[2].status \in {"pending_summary", "failed"}
  BY <1>4, <1>6, <1>7, JournalKept
<1> QED
  BY <1>1, <1>2, <1>5, <1>6, <1>7, <1>8, Holder, JournalKept, StepKeeps

LEMMA PassOverInv ==
  ASSUME IInv, NEW w \in Workers, PassOver(w)
  PROVE  IInv'
<1> USE DEF PassOver
<1>1. PICK t \in Oldest(worker[w].todo) : worker' = [worker EXCEPT ![w].todo = @ \ {t}]
  OBVIOUS
<1> DEFINE r == [worker[w] EXCEPT !.todo = @ \ {t}]
<1>2. worker[w].pc = "next"
  OBVIOUS
<1>3. w \in Summarizers /\ worker[w] \in WorkerState
  BY <1>2, Holder
<1>4. r \in WorkerState /\ r.pc = "next" /\ r.todo \subseteq worker[w].todo
  BY <1>2, <1>3 DEF WorkerState
<1>5. worker' = [worker EXCEPT ![w] = r]
  BY <1>1
<1>6. \A u \in r.todo : batches[u[1]] = u[2] /\ u[2].status \in {"pending_summary", "failed"}
  BY <1>3, <1>4 DEF IInv, CopiesFresh
<1>7. UNCHANGED <<lock, notice, aborts>> /\ UNCHANGED journalVars
  OBVIOUS
<1> HIDE DEF r, PassOver
<1>8. \A u \in r.todo : batches'[u[1]] = u[2] /\ u[2].status \in {"pending_summary", "failed"}
  BY <1>6, <1>7, JournalKept
<1> QED
  BY <1>2, <1>3, <1>4, <1>5, <1>7, <1>8, Holder, JournalKept, StepKeeps

\* A batch that is not passed over has an attempt left.
LEMMA ReadStepInv ==
  ASSUME IInv, NEW w \in Workers, Read(w)
  PROVE  IInv'
<1>1. PICK t \in Oldest(worker[w].todo) :
        /\ ~Exhausted(w, t[2])
        /\ worker' = [worker EXCEPT
             ![w].pc = "claim", ![w].todo = @ \ {t}, ![w].id = t[1],
             ![w].row = t[2], ![w].evs = EventsOf(t[1])]
  BY DEF Read
<1>2. worker[w].pc = "next" /\ UNCHANGED <<lock, notice, aborts>> /\ UNCHANGED journalVars
  BY DEF Read
<1>3. w \in Summarizers /\ worker[w] \in WorkerState
  BY <1>2, Holder
<1>4. /\ t \in worker[w].todo /\ t[1] \in BatchIds /\ t[2] \in Batch
      /\ batches[t[1]] = t[2] /\ t[2].status \in {"pending_summary", "failed"}
  BY <1>3, ListedRow
<1>5. t[2].attempts < MaxAttempts
  <2>1. CASE t[2].status = "pending_summary"
    BY <1>4, <2>1 DEF IInv, AttemptInv, Listed
  <2>2. CASE t[2].status = "failed"
    BY <1>1, <1>4, <2>2, WorkerAssumption DEF Exhausted, Batch
  <2> QED
    BY <1>4, <2>1, <2>2
<1>6. EventsOf(t[1]) \subseteq Event
  BY <1>4, EventsOfType DEF IInv, TypeInv, WorkerTypeOK
<1>7. PICK r : r = [worker[w] EXCEPT !.pc = "claim", !.todo = @ \ {t}, !.id = t[1],
                                     !.row = t[2], !.evs = EventsOf(t[1])]
  OBVIOUS
<1>8. /\ r \in WorkerState /\ r.pc = "claim" /\ r.todo = worker[w].todo \ {t}
      /\ r.id = t[1] /\ r.row = t[2]
  BY <1>3, <1>4, <1>6, <1>7 DEF WorkerState
<1>9. worker' = [worker EXCEPT ![w] = r]
  BY <1>1, <1>7
<1>10. \A u \in r.todo : /\ batches'[u[1]] = u[2]
                         /\ u[2].status \in {"pending_summary", "failed"}
  BY <1>2, <1>3, <1>8, JournalKept DEF IInv, CopiesFresh
<1>11. \A u \in r.todo : u[1] # r.id
  <2> SUFFICES ASSUME NEW u \in worker[w].todo \ {t} PROVE u[1] # t[1]
    BY <1>8
  <2>1. worker[w].todo \subseteq BatchIds \X Batch
    BY <1>3 DEF WorkerState
  <2>2. t = <<t[1], t[2]>> /\ u = <<u[1], u[2]>>
    BY <1>4, <2>1
  <2>3. batches[u[1]] = u[2]
    BY <1>3 DEF IInv, CopiesFresh
  <2> QED
    BY <1>4, <2>2, <2>3
<1>12. batches'[r.id] = r.row /\ r.row.status \in {"pending_summary", "failed"}
       /\ r.row.attempts < MaxAttempts
  BY <1>2, <1>4, <1>5, <1>8, JournalKept
<1> QED
  BY <1>2, <1>8, <1>9, <1>10, <1>11, <1>12, Holder, JournalKept, StepKeeps

\* A worker that finds a batch empty goes on with the next.
LEMMA EmptyGoesOn ==
  ASSUME IInv, NEW w \in Workers, SkipEmpty(w)
  PROVE  /\ worker[w].pc = "claim" /\ worker[w].evs = {}
         /\ batches' = UpdateBatch(worker[w].id, [worker[w].row EXCEPT !.status = "skipped"])
         /\ Proceed(w, worker[w].todo)
         /\ UNCHANGED <<lock, notice, aborts, events, drafts, lastSummary>>
<1>1. w \notin Manual
  BY WorkerAssumption
<1> QED
  BY <1>1 DEF SkipEmpty, EmptyAs

LEMMA ClaimInv ==
  ASSUME IInv, NEW w \in Workers, Claim(w)
  PROVE  IInv'
<1>1. PICK b : b = [worker[w].row EXCEPT !.status = "summarizing", !.attempts = @ + 1]
  OBVIOUS
<1>2. /\ worker[w].pc = "claim" /\ batches' = UpdateBatch(worker[w].id, b)
      /\ worker' = [worker EXCEPT ![w].pc = "call", ![w].row = b]
      /\ UNCHANGED <<lock, notice, aborts, events, drafts, lastSummary>>
  BY <1>1 DEF Claim, ClaimAs
<1>3. w \in Summarizers /\ worker[w] \in WorkerState
  BY <1>2, Holder
<1>4. /\ worker[w].id \in BatchIds /\ worker[w].row \in Batch
      /\ batches[worker[w].id] = worker[w].row
      /\ worker[w].row.status \in {"pending_summary", "failed"}
      /\ worker[w].row.attempts < MaxAttempts
      /\ \A d \in drafts : d.batch # worker[w].id
      /\ \A u \in worker[w].todo :
           /\ u[1] # worker[w].id /\ u[1] \in BatchIds /\ batches[u[1]] = u[2]
           /\ u[2].status \in {"pending_summary", "failed"}
  BY <1>2, ReadRow
<1>5. b \in Batch /\ b.status = "summarizing" /\ b.attempts <= MaxAttempts
  <2>1. worker[w].row.attempts \in Nat /\ MaxAttempts \in Nat
    BY <1>4, WorkerAssumption DEF Batch
  <2>2. worker[w].row.attempts + 1 \in Nat /\ worker[w].row.attempts + 1 <= MaxAttempts
    BY <1>4, <2>1
  <2>3. PICK c : c = [worker[w].row EXCEPT !.status = "summarizing"]
    OBVIOUS
  <2>4. c \in Batch /\ c.status = "summarizing"
    BY <1>4, <2>3 DEF Batch, LiveStatus
  <2>5. b = [c EXCEPT !.attempts = worker[w].row.attempts + 1]
    BY <1>1, <2>3
  <2> QED
    BY <2>2, <2>4, <2>5 DEF Batch
<1>6. PICK r : r = [worker[w] EXCEPT !.pc = "call", !.row = b]
  OBVIOUS
<1>7. /\ r \in WorkerState /\ r.pc = "call" /\ r.todo = worker[w].todo
      /\ r.id = worker[w].id /\ r.row = b
  BY <1>3, <1>5, <1>6 DEF WorkerState
<1>8. worker' = [worker EXCEPT ![w] = r]
  BY <1>2, <1>6
<1>9. /\ batches' = [batches EXCEPT ![worker[w].id] = b]
      /\ JournalTypeOK' /\ IsFiniteSet(drafts')
      /\ OneDraftPerBatch' /\ AttemptInv'
      /\ \A d \in drafts' : batches'[d.batch].status \in {"summarizing", "summarized"}
  BY <1>2, <1>4, <1>5, RowWritten DEF NoRow
<1>10. \A u \in r.todo : batches'[u[1]] = u[2] /\ u[2].status \in {"pending_summary", "failed"}
  BY <1>4, <1>7, <1>9 DEF IInv, TypeInv, WorkerTypeOK, JournalTypeOK
<1>11. batches'[r.id] = r.row /\ r.row.status = "summarizing"
  BY <1>4, <1>5, <1>7, <1>9 DEF IInv, TypeInv, WorkerTypeOK, JournalTypeOK
<1>12. \A d \in drafts' : d.batch # r.id
  BY <1>2, <1>4, <1>7
<1> QED
  BY <1>2, <1>7, <1>8, <1>9, <1>10, <1>11, <1>12, Holder, StepKeeps

LEMMA ReplyInv ==
  ASSUME IInv, NEW w \in Workers, Reply(w)
  PROVE  IInv'
<1> DEFINE r == [worker[w] EXCEPT !.pc = "save"]
<1>1. /\ worker[w].pc = "call" /\ worker' = [worker EXCEPT ![w] = r]
      /\ UNCHANGED <<lock, notice, aborts>> /\ UNCHANGED journalVars
  BY DEF Reply
<1>2. w \in Summarizers /\ worker[w] \in WorkerState
  BY <1>1, Holder
<1>3. /\ r \in WorkerState /\ r.pc = "save" /\ r.todo = worker[w].todo
      /\ r.id = worker[w].id /\ r.row = worker[w].row
  BY <1>2 DEF WorkerState
<1> HIDE DEF r
<1>4. /\ \A u \in r.todo : batches'[u[1]] = u[2] /\ u[2].status \in {"pending_summary", "failed"}
      /\ batches'[r.id] = r.row /\ r.row.status = "summarizing"
  BY <1>1, <1>3, Claimed, JournalKept DEF Working
<1>5. \A d \in drafts' : d.batch # r.id
  BY <1>1, <1>2, <1>3, JournalKept DEF IInv, DraftInv
<1> QED
  BY <1>1, <1>3, <1>4, <1>5, Holder, JournalKept, StepKeeps

\* Proceed leaves nothing of the batch in memory.
LEMMA Proceeding ==
  ASSUME IInv, NEW w \in Workers, worker[w].pc # "idle", NEW todo \in SUBSET worker[w].todo,
         Proceed(w, todo)
  PROVE  \E r \in WorkerState :
           r.pc = "next" /\ r.todo = todo /\ worker' = [worker EXCEPT ![w] = r]
<1> DEFINE r == [IdleWorker EXCEPT !.pc = "next", !.tick = worker[w].tick, !.todo = todo]
<1>1. w \in Summarizers /\ worker[w] \in WorkerState
  BY Holder
<1>2. IdleWorker \in WorkerState
  BY BlankOK, SomeBatchOK DEF IdleWorker, WorkerState
<1>3. todo \in SUBSET (BatchIds \X Batch) /\ worker[w].tick \in Nat \cup {Never}
  BY <1>1 DEF WorkerState
<1>4. r \in WorkerState /\ r.pc = "next" /\ r.todo = todo
  BY <1>2, <1>3 DEF WorkerState
<1>5. worker' = [worker EXCEPT ![w] = r]
  BY DEF Proceed
<1> QED
  BY <1>4, <1>5

\* A row is written with its last word.
LEMMA RowSettled ==
  ASSUME IInv, NEW w \in Workers, Working(w) \/ worker[w].pc = "claim", NEW b \in Batch,
         b.status \in {"skipped", "failed", "summarized"}, b.attempts <= MaxAttempts,
         (\E d \in drafts : d.batch = worker[w].id) => b.status = "summarized",
         NEW todo \in SUBSET worker[w].todo, Proceed(w, todo),
         batches' = UpdateBatch(worker[w].id, b),
         UNCHANGED <<lock, notice, aborts, events, drafts, lastSummary>>
  PROVE  IInv'
<1>1. PICK r \in WorkerState :
        r.pc = "next" /\ r.todo = todo /\ worker' = [worker EXCEPT ![w] = r]
  BY Proceeding DEF Working
<1>2. /\ worker[w].id \in BatchIds /\ batches[worker[w].id].status \notin NoRow
      /\ \A u \in worker[w].todo :
           /\ u[1] # worker[w].id /\ u[1] \in BatchIds /\ batches[u[1]] = u[2]
           /\ u[2].status \in {"pending_summary", "failed"}
  BY Claimed, ReadRow DEF NoRow
<1>3. /\ batches' = [batches EXCEPT ![worker[w].id] = b]
      /\ JournalTypeOK' /\ IsFiniteSet(drafts')
      /\ OneDraftPerBatch' /\ AttemptInv'
      /\ \A d \in drafts' : batches'[d.batch].status \in {"summarizing", "summarized"}
  BY <1>2, RowWritten
<1>4. \A u \in r.todo : batches'[u[1]] = u[2] /\ u[2].status \in {"pending_summary", "failed"}
  BY <1>1, <1>2, <1>3 DEF IInv, TypeInv, WorkerTypeOK, JournalTypeOK
<1>5. worker[w].pc # "idle"
  BY DEF Working
<1> QED
  BY <1>1, <1>3, <1>4, <1>5, Holder, StepKeeps

LEMMA SkipEmptyInv ==
  ASSUME IInv, NEW w \in Workers, SkipEmpty(w)
  PROVE  IInv'
<1>1. PICK b : b = [worker[w].row EXCEPT !.status = "skipped"]
  OBVIOUS
<1>2. /\ worker[w].pc = "claim" /\ batches' = UpdateBatch(worker[w].id, b)
      /\ Proceed(w, worker[w].todo)
      /\ UNCHANGED <<lock, notice, aborts, events, drafts, lastSummary>>
  BY <1>1, EmptyGoesOn
<1>3. /\ worker[w].row \in Batch /\ worker[w].row.attempts < MaxAttempts
      /\ ~ \E d \in drafts : d.batch = worker[w].id
  BY <1>2, ReadRow
<1>4. b \in Batch /\ b.status = "skipped" /\ b.attempts = worker[w].row.attempts
  BY <1>1, <1>3 DEF Batch, LiveStatus
<1>5. b.attempts <= MaxAttempts
  BY <1>3, <1>4, WorkerAssumption DEF Batch
<1> QED
  BY <1>2, <1>3, <1>4, <1>5, RowSettled

LEMMA ReplyErrorInv ==
  ASSUME IInv, NEW w \in Workers, NEW e \in Errors, ReplyError(w, e)
  PROVE  IInv'
<1> DEFINE b == [worker[w].row EXCEPT !.status = "failed",
                   !.attempts = IF e = "refused" THEN MaxAttempts ELSE @]
           todo == IF e = "unavailable" /\ w \in Workers THEN {} ELSE worker[w].todo
<1>1. /\ worker[w].pc = "call" /\ batches' = UpdateBatch(worker[w].id, b)
      /\ Proceed(w, todo)
      /\ UNCHANGED <<lock, notice, aborts, events, drafts, lastSummary>>
  BY DEF ReplyError
<1>2. Working(w)
  BY <1>1 DEF Working
<1>3. w \in Summarizers /\ worker[w].row \in Batch /\ worker[w].row.attempts <= MaxAttempts
  BY <1>1, <1>2, Claimed, Holder
<1>4. b \in Batch /\ b.status = "failed" /\ b.attempts <= MaxAttempts
  <2> DEFINE c == [worker[w].row EXCEPT !.status = "failed"]
             n == IF e = "refused" THEN MaxAttempts ELSE worker[w].row.attempts
  <2>1. c \in Batch /\ c.status = "failed"
    BY <1>3 DEF Batch, LiveStatus
  <2>2. b = [c EXCEPT !.attempts = n]
    OBVIOUS
  <2>3. n \in Nat /\ n <= MaxAttempts
    BY <1>3, WorkerAssumption DEF Batch
  <2> HIDE DEF b, c, n
  <2> QED
    BY <2>1, <2>2, <2>3 DEF Batch
<1>5. ~ \E d \in drafts : d.batch = worker[w].id
  BY <1>1, <1>3 DEF IInv, DraftInv
<1>6. todo \in SUBSET worker[w].todo
  OBVIOUS
<1> HIDE DEF b, todo
<1> QED
  BY <1>1, <1>2, <1>4, <1>5, <1>6, RowSettled

LEMMA FinishInv ==
  ASSUME IInv, NEW w \in Workers, Finish(w)
  PROVE  IInv'
<1> DEFINE b == [worker[w].row EXCEPT !.status = "summarized"]
<1>1. /\ worker[w].pc = "finish" /\ batches' = UpdateBatch(worker[w].id, b)
      /\ Proceed(w, worker[w].todo)
      /\ UNCHANGED <<lock, notice, aborts, events, drafts, lastSummary>>
  BY DEF Finish
<1>2. Working(w)
  BY <1>1 DEF Working
<1>3. b \in Batch /\ b.status = "summarized" /\ b.attempts <= MaxAttempts
  BY <1>2, Claimed DEF Batch, LiveStatus
<1> HIDE DEF b
<1> QED
  BY <1>1, <1>2, <1>3, RowSettled

\* The draft is the batch's first: nothing was saved for it before.
LEMMA SaveInv ==
  ASSUME IInv, NEW w \in Workers, Save(w)
  PROVE  IInv'
<1> DEFINE new == [id |-> Cardinality(drafts) + 1, batch |-> worker[w].id,
                   built |-> {e.cmd : e \in worker[w].evs}, status |-> "draft"]
           r == [worker[w] EXCEPT !.pc = "finish"]
<1>1. /\ worker[w].pc = "save" /\ drafts' = drafts \cup {new}
      /\ worker' = [worker EXCEPT ![w] = r]
      /\ UNCHANGED <<lock, notice, aborts, batches, events, lastSummary>>
  BY DEF Save
<1>2. w \in Summarizers /\ worker[w] \in WorkerState
  BY <1>1, Holder
<1>3. /\ r \in WorkerState /\ r.pc = "finish" /\ r.todo = worker[w].todo
      /\ r.id = worker[w].id /\ r.row = worker[w].row
  BY <1>2 DEF WorkerState
<1>4. /\ worker[w].id \in BatchIds
      /\ batches[worker[w].id] = worker[w].row /\ worker[w].row.status = "summarizing"
      /\ \A u \in worker[w].todo :
           batches[u[1]] = u[2] /\ u[2].status \in {"pending_summary", "failed"}
  BY <1>1, Claimed DEF Working
<1>5. new \in Draft
  <2>1. Cardinality(drafts) \in Nat
    BY FS_CardinalityType DEF IInv, TypeInv
  <2>2. {e.cmd : e \in worker[w].evs} \in SUBSET Nat
    BY <1>2 DEF WorkerState, Event
  <2> QED
    BY <1>4, <2>1, <2>2 DEF Draft
<1>6. new.batch = worker[w].id
  OBVIOUS
<1> HIDE DEF r, new
<1>7. JournalTypeOK'
  BY <1>1, <1>5 DEF IInv, TypeInv, WorkerTypeOK, JournalTypeOK
<1>8. IsFiniteSet(drafts')
  BY <1>1, FS_AddElement DEF IInv, TypeInv
<1>9. OneDraftPerBatch'
  BY <1>1, <1>2, <1>6 DEF IInv, DraftInv, OneDraftPerBatch
<1>10. \A d \in drafts' : batches'[d.batch].status \in {"summarizing", "summarized"}
  BY <1>1, <1>4, <1>6 DEF IInv, DraftInv
<1>11. AttemptInv'
  BY <1>1 DEF IInv, AttemptInv, AttemptsBounded, Listed
<1>12. /\ \A u \in r.todo : batches'[u[1]] = u[2] /\ u[2].status \in {"pending_summary", "failed"}
       /\ batches'[r.id] = r.row /\ r.row.status = "summarizing"
  BY <1>1, <1>3, <1>4
<1> QED
  BY <1>1, <1>3, <1>7, <1>8, <1>9, <1>10, <1>11, <1>12, Holder, StepKeeps

\* A process that ends, of itself or not, leaves nothing in memory.
LEMMA EndInv ==
  ASSUME IInv, NEW w \in Workers, worker[w].pc # "idle",
         worker' = [worker EXCEPT ![w] = IdleWorker], Release(w),
         notice' \in Nat, aborts' \in 0..MaxAborts, UNCHANGED journalVars
  PROVE  IInv'
<1>1. IdleWorker \in WorkerState /\ IdleWorker.pc = "idle" /\ IdleWorker.todo = {}
  BY BlankOK, SomeBatchOK DEF IdleWorker, WorkerState
<1>2. lock' = NoOne
  BY Holder DEF Release
<1> QED
  BY <1>1, <1>2, Holder, JournalKept, StepKeeps

LEMMA LeaveInv ==
  ASSUME IInv, NEW w \in Workers, Leave(w)
  PROVE  IInv'
<1>1. /\ worker[w].pc = "next" /\ worker[w].todo = {} /\ notice' = Cardinality(Ready)
      /\ UNCHANGED aborts /\ UNCHANGED journalVars
  BY DEF Leave, LeaveNoting
<1>2. notice' \in Nat /\ aborts' \in 0..MaxAborts
  <2>1. IsFiniteSet(Ready)
    BY FS_Subset DEF Ready, IInv, TypeInv
  <2> QED
    BY <1>1, <2>1, FS_CardinalityType, Holder
<1>3. CASE worker[w].tick # Never
  <2> DEFINE r == [worker[w] EXCEPT !.pc = "prune"]
  <2>1. worker' = [worker EXCEPT ![w] = r] /\ UNCHANGED lock
    BY <1>3 DEF Leave, LeaveNoting
  <2>2. r \in WorkerState /\ r.pc = "prune" /\ r.todo = {}
    BY <1>1, Holder DEF WorkerState
  <2> HIDE DEF r
  <2> QED
    BY <1>1, <1>2, <2>1, <2>2, Holder, JournalKept, StepKeeps
<1>4. CASE worker[w].tick = Never
  <2>1. worker' = [worker EXCEPT ![w] = IdleWorker] /\ Release(w)
    BY <1>4 DEF Leave, LeaveNoting
  <2> QED
    BY <1>1, <1>2, <2>1, EndInv
<1> QED
  BY <1>3, <1>4

LEMMA AbortInv ==
  ASSUME IInv, NEW w \in Workers, Abort(w)
  PROVE  IInv'
<1>1. /\ worker[w].pc # "idle" /\ aborts < MaxAborts /\ aborts' = aborts + 1
      /\ worker' = [worker EXCEPT ![w] = IdleWorker] /\ Release(w)
      /\ UNCHANGED notice /\ UNCHANGED journalVars
  BY DEF Abort
<1>2. notice' \in Nat /\ aborts' \in 0..MaxAborts
  BY <1>1, Holder, WorkerAssumption
<1> QED
  BY <1>1, <1>2, EndInv

LEMMA StutterInv == IInv /\ UNCHANGED vars => IInv'
<1> SUFFICES ASSUME IInv, UNCHANGED vars PROVE IInv'
  OBVIOUS
<1> USE DEF vars, journalVars, workerVars
<1>1. TypeInv'
  BY DEF IInv, TypeInv, WorkerTypeOK, JournalTypeOK
<1>2. LockInv' /\ CopiesFresh'
  BY DEF IInv, LockInv, Running, CopiesFresh
<1>3. DraftInv' /\ AttemptInv' /\ ReadInv'
  BY DEF IInv, DraftInv, OneDraftPerBatch, AttemptInv, AttemptsBounded, Listed, ReadInv
<1> QED
  BY <1>1, <1>2, <1>3 DEF IInv

LEMMA NextInv == IInv /\ [LockedNext]_vars => IInv'
<1> SUFFICES ASSUME IInv, [LockedNext]_vars PROVE IInv'
  OBVIOUS
<1>1. CASE \E id \in BatchIds : Arrive(id)
  BY <1>1, ArriveInv
<1>2. ASSUME NEW w \in Workers, StartWork(w) \/ Abort(w)
      PROVE  IInv'
  BY <1>2, StartInv, AbortInv
<1>3. ASSUME NEW w \in Workers, Step(w)
      PROVE  IInv'
  BY <1>3, ListInv, PassOverInv, ReadStepInv, SkipEmptyInv, ClaimInv, ReplyInv, ReplyErrorInv,
     SaveInv, FinishInv, LeaveInv DEF Step
<1>4. CASE UNCHANGED vars
  BY <1>4, StutterInv
<1> QED
  BY <1>1, <1>2, <1>3, <1>4 DEF LockedNext

----------------------------------------------------------------------------
\* Theorems

\* The invariant holds of every run of the processes that take the lock.
THEOREM LockedInvariant == LockedSpec => []IInv
  BY InitInv, NextInv, PTL DEF LockedSpec

\* Every variable keeps its type, for any number of batches and workers.
THEOREM TypeCorrect == LockedSpec => []WorkerTypeOK
<1>1. IInv => WorkerTypeOK
  BY DEF IInv, TypeInv
<1> QED
  BY <1>1, LockedInvariant, PTL

\* TryLock: one process runs at a time, whoever dies holding the lock.
THEOREM MutualExclusion == LockedSpec => []OneInstance
<1>1. IInv => OneInstance
  BY DEF IInv, LockInv, OneInstance
<1> QED
  BY <1>1, LockedInvariant, PTL

\* SummarizeBatch: no batch is drafted twice, however processes fail or die.
THEOREM SingleDraft == LockedSpec => []OneDraftPerBatch
<1>1. IInv => OneDraftPerBatch
  BY DEF IInv, DraftInv
<1> QED
  BY <1>1, LockedInvariant, PTL

\* UpdateBatch: no row is written back that somebody else wrote since.
THEOREM NoLostUpdate == LockedSpec => []CopiesFresh
<1>1. IInv => CopiesFresh
  BY DEF IInv
<1> QED
  BY <1>1, LockedInvariant, PTL

\* ProcessPending: the engine is asked at most MaxAttempts times for a batch.
THEOREM AttemptLimit == LockedSpec => []AttemptsBounded
<1>1. IInv => AttemptsBounded
  BY DEF IInv, AttemptInv
<1> QED
  BY <1>1, LockedInvariant, PTL

----------------------------------------------------------------------------
\* That the workers which take the lock implement DraftLedger, and what needs
\* the same look at each action: a summarized batch has its draft, a batch given
\* up is left alone.  What an action does to one row and one process is stated
\* once (the ...Effect lemmas) and used for all three.

\* Only row i, or only process w, is written by a step.
OnlyRow(i) == \A j \in BatchIds \ {i} : batches'[j] = batches[j]
OnlyWorker(w) == \A q \in Summarizers \ {w} : worker'[q] = worker[q]

\* A batch ProcessPending may try: not drafted, not exhausted.
MayTry(i) ==
  /\ batches[i].status \in {"pending_summary", "failed"}
  /\ batches[i].attempts < MaxAttempts
  /\ ~HasDraft(i)

----------------------------------------------------------------------------
\* Effects

LEMMA ArriveEffect ==
  ASSUME IInv, NEW i \in BatchIds, Arrive(i)
  PROVE  /\ batches[i].status = "absent" /\ ~HasDraft(i)
         /\ batches'[i].status = "pending_summary"
         /\ batches[i].attempts = 0 => batches'[i].attempts = batches[i].attempts
         /\ OnlyRow(i) /\ UNCHANGED <<worker, drafts>>
         /\ \A j \in BatchIds \ {i} : EventsOf(j)' = EventsOf(j)
<1>1. PICK at \in 0..1, evs \in {{}, {SomeEvent(i)}} :
        /\ batches' = CreateBatch(i, Handed(at))
        /\ events' = events \cup {[ev |-> e, batch |-> i] : e \in evs}
        /\ batches[i].status = "absent"
        /\ UNCHANGED <<drafts, worker>>
  BY DEF Arrive, workerVars
<1>2. ~HasDraft(i)
  BY <1>1 DEF HasDraft, IInv, DraftInv
<1>3. batches \in [BatchIds -> Batch]
  BY DEF IInv, TypeInv, WorkerTypeOK, JournalTypeOK
<1>4. /\ batches'[i].status = "pending_summary" /\ batches'[i].attempts = 0
      /\ OnlyRow(i)
  BY <1>1, <1>3 DEF CreateBatch, Handed, OnlyRow
<1>5. ASSUME NEW j \in BatchIds \ {i} PROVE EventsOf(j)' = EventsOf(j)
  <2>1. {r \in events' : r.batch = j} = {r \in events : r.batch = j}
    BY <1>1
  <2> QED
    BY <2>1 DEF EventsOf
<1> QED
  BY <1>1, <1>2, <1>4, <1>5

\* A process starts, lists, passes over a batch or leaves.
LEMMA StartEffect ==
  ASSUME IInv, NEW w \in Workers, StartWork(w)
  PROVE  /\ ~Working(w) /\ worker'[w].pc = "list" /\ OnlyWorker(w)
         /\ UNCHANGED journalVars
<1>1. w \in Summarizers /\ worker \in [Summarizers -> WorkerState]
  BY DEF Summarizers, IInv, TypeInv, WorkerTypeOK
<1> QED
  BY <1>1 DEF StartWork, Acquire, Working, OnlyWorker, WorkerState

LEMMA IdleStepEffect ==
  ASSUME IInv, NEW w \in Workers, List(w) \/ PassOver(w) \/ Leave(w)
  PROVE  /\ ~Working(w) /\ worker'[w].pc \in {"idle", "next", "prune"} /\ OnlyWorker(w)
         /\ UNCHANGED journalVars
<1>1. w \in Summarizers /\ worker \in [Summarizers -> WorkerState]
  BY DEF Summarizers, IInv, TypeInv, WorkerTypeOK
<1>2. CASE List(w)
  BY <1>1, <1>2 DEF List, ListIn, Working, OnlyWorker, WorkerState
<1>3. CASE PassOver(w)
  <2>1. PICK t \in Oldest(worker[w].todo) :
          worker[w].pc = "next" /\ worker' = [worker EXCEPT ![w].todo = @ \ {t}]
    BY <1>3 DEF PassOver
  <2> QED
    BY <1>1, <1>3, <2>1 DEF PassOver, Working, OnlyWorker, WorkerState
<1>4. CASE Leave(w)
  BY <1>1, <1>4 DEF Leave, LeaveNoting, Working, OnlyWorker, WorkerState, IdleWorker
<1> QED
  BY <1>2, <1>3, <1>4

\* A process reads the events of a batch.
LEMMA ReadEffect ==
  ASSUME IInv, NEW w \in Workers, Read(w)
  PROVE  /\ ~Working(w) /\ worker'[w].pc = "claim" /\ OnlyWorker(w)
         /\ worker'[w].evs = EventsOf(worker'[w].id)
         /\ UNCHANGED journalVars
<1>1. w \in Summarizers /\ worker \in [Summarizers -> WorkerState]
  BY DEF Summarizers, IInv, TypeInv, WorkerTypeOK
<1>2. PICK t \in Oldest(worker[w].todo) :
        worker' = [worker EXCEPT
          ![w].pc = "claim", ![w].todo = @ \ {t}, ![w].id = t[1],
          ![w].row = t[2], ![w].evs = EventsOf(t[1])]
  BY DEF Read
<1>3. worker[w].pc = "next" /\ UNCHANGED journalVars
  BY DEF Read
<1>4. PICK evs : evs = EventsOf(t[1])
  OBVIOUS
<1>5. worker'[w].pc = "claim" /\ worker'[w].id = t[1] /\ worker'[w].evs = evs /\ OnlyWorker(w)
  BY <1>1, <1>2, <1>4 DEF WorkerState, OnlyWorker
<1> QED
  BY <1>3, <1>4, <1>5 DEF Working

LEMMA ProceedEffect ==
  ASSUME IInv, NEW w \in Workers, NEW todo, Proceed(w, todo)
  PROVE  worker'[w].pc = "next" /\ OnlyWorker(w)
<1>1. w \in Summarizers /\ worker \in [Summarizers -> WorkerState]
  BY DEF Summarizers, IInv, TypeInv, WorkerTypeOK
<1> QED
  BY <1>1 DEF Proceed, IdleWorker, OnlyWorker

\* What a process has read, seen as the row of the table it still is.
LEMMA ReadMayTry ==
  ASSUME IInv, NEW w \in Workers, worker[w].pc = "claim"
  PROVE  MayTry(worker[w].id)
BY ReadRow DEF MayTry, HasDraft

LEMMA SkipEmptyEffect ==
  ASSUME IInv, NEW w \in Workers, SkipEmpty(w)
  PROVE  \E i \in BatchIds :
           /\ MayTry(i) /\ OnlyRow(i)
           /\ batches'[i].status = "skipped"
           /\ batches'[i].attempts = batches[i].attempts
           /\ ~Working(w) /\ worker'[w].pc = "next" /\ OnlyWorker(w)
           /\ UNCHANGED <<events, drafts>>
<1>1. PICK i, b : i = worker[w].id /\ b = [worker[w].row EXCEPT !.status = "skipped"]
  OBVIOUS
<1>2. /\ worker[w].pc = "claim" /\ batches' = UpdateBatch(i, b)
      /\ Proceed(w, worker[w].todo) /\ UNCHANGED <<events, drafts>>
  BY <1>1, EmptyGoesOn
<1>3. MayTry(i) /\ i \in BatchIds /\ worker[w].row \in Batch /\ batches[i] = worker[w].row
  BY <1>1, <1>2, ReadRow, ReadMayTry
<1>4. b.status = "skipped" /\ b.attempts = batches[i].attempts
  BY <1>1, <1>3 DEF Batch
<1>5. batches' = [batches EXCEPT ![i] = b]
  BY <1>2, <1>3 DEF UpdateBatch, MayTry, NoRow
<1>6. batches'[i] = b /\ OnlyRow(i)
  BY <1>3, <1>5 DEF OnlyRow, IInv, TypeInv, WorkerTypeOK, JournalTypeOK
<1>7. ~Working(w) /\ worker'[w].pc = "next" /\ OnlyWorker(w)
  BY <1>2, ProceedEffect DEF Working
<1> QED
  BY <1>2, <1>3, <1>4, <1>6, <1>7

LEMMA ClaimEffect ==
  ASSUME IInv, NEW w \in Workers, Claim(w)
  PROVE  \E i \in BatchIds :
           /\ MayTry(i) /\ OnlyRow(i) /\ i = worker[w].id
           /\ batches'[i].status = "summarizing"
           /\ batches'[i].attempts = batches[i].attempts + 1
           /\ worker[w].pc = "claim" /\ worker'[w].pc = "call" /\ worker'[w].id = i
           /\ worker'[w].evs = worker[w].evs /\ OnlyWorker(w)
           /\ UNCHANGED <<events, drafts>>
<1>1. PICK i, b : /\ i = worker[w].id
                  /\ b = [worker[w].row EXCEPT !.status = "summarizing", !.attempts = @ + 1]
  OBVIOUS
<1>2. /\ worker[w].pc = "claim" /\ batches' = UpdateBatch(i, b)
      /\ worker' = [worker EXCEPT ![w].pc = "call", ![w].row = b]
      /\ UNCHANGED <<events, drafts>>
  BY <1>1 DEF Claim, ClaimAs
<1>3. MayTry(i) /\ i \in BatchIds /\ worker[w].row \in Batch /\ batches[i] = worker[w].row
  BY <1>1, <1>2, ReadRow, ReadMayTry
<1>4. b.status = "summarizing" /\ b.attempts = batches[i].attempts + 1
  BY <1>1, <1>3 DEF Batch
<1>5. w \in Summarizers /\ worker \in [Summarizers -> WorkerState]
  BY DEF Summarizers, IInv, TypeInv, WorkerTypeOK
<1>6. /\ worker'[w].pc = "call" /\ worker'[w].id = i
      /\ worker'[w].evs = worker[w].evs /\ OnlyWorker(w)
  BY <1>1, <1>2, <1>5 DEF WorkerState, OnlyWorker
<1>7. batches' = [batches EXCEPT ![i] = b]
  BY <1>2, <1>3 DEF UpdateBatch, MayTry, NoRow
<1>8. batches'[i] = b /\ OnlyRow(i)
  BY <1>3, <1>7 DEF OnlyRow, IInv, TypeInv, WorkerTypeOK, JournalTypeOK
<1> QED
  BY <1>1, <1>2, <1>3, <1>4, <1>6, <1>8

LEMMA ReplyEffect ==
  ASSUME IInv, NEW w \in Workers, Reply(w)
  PROVE  /\ worker[w].pc = "call" /\ worker'[w].pc = "save"
         /\ worker'[w].id = worker[w].id /\ worker'[w].evs = worker[w].evs
         /\ OnlyWorker(w) /\ UNCHANGED journalVars
<1>1. w \in Summarizers /\ worker \in [Summarizers -> WorkerState]
  BY DEF Summarizers, IInv, TypeInv, WorkerTypeOK
<1> QED
  BY <1>1 DEF Reply, OnlyWorker, WorkerState

LEMMA SaveEffect ==
  ASSUME IInv, NEW w \in Workers, Save(w)
  PROVE  \E d :
           /\ d.batch = worker[w].id /\ d.built = {e.cmd : e \in worker[w].evs}
           /\ drafts' = drafts \cup {d}
           /\ worker[w].pc = "save" /\ worker'[w].pc = "finish"
           /\ worker'[w].id = worker[w].id /\ worker'[w].evs = worker[w].evs
           /\ OnlyWorker(w) /\ UNCHANGED <<batches, events>>
<1> DEFINE d == [id |-> Cardinality(drafts) + 1, batch |-> worker[w].id,
                 built |-> {e.cmd : e \in worker[w].evs}, status |-> "draft"]
<1>1. w \in Summarizers /\ worker \in [Summarizers -> WorkerState]
  BY DEF Summarizers, IInv, TypeInv, WorkerTypeOK
<1>2. /\ worker[w].pc = "save" /\ worker' = [worker EXCEPT ![w].pc = "finish"]
      /\ drafts' = drafts \cup {d} /\ UNCHANGED <<batches, events>>
  BY DEF Save
<1>3. d.batch = worker[w].id /\ d.built = {e.cmd : e \in worker[w].evs}
  OBVIOUS
<1>4. /\ worker'[w].pc = "finish" /\ worker'[w].id = worker[w].id
      /\ worker'[w].evs = worker[w].evs /\ OnlyWorker(w)
  BY <1>1, <1>2 DEF OnlyWorker, WorkerState
<1> QED
  BY <1>2, <1>3, <1>4

\* The engine refused, or failed.
LEMMA ReplyErrorEffect ==
  ASSUME IInv, NEW w \in Workers, NEW e \in Errors, ReplyError(w, e)
  PROVE  LET i == worker[w].id IN
           /\ i \in BatchIds /\ OnlyRow(i)
           /\ batches[i].status = "summarizing" /\ ~HasDraft(i)
           /\ batches'[i].status = "failed"
           /\ batches'[i].attempts = IF e = "refused" THEN MaxAttempts ELSE batches[i].attempts
           /\ worker[w].pc = "call" /\ worker'[w].pc = "next" /\ OnlyWorker(w)
           /\ UNCHANGED <<events, drafts>>
<1> DEFINE i == worker[w].id
           b == [worker[w].row EXCEPT !.status = "failed",
                   !.attempts = IF e = "refused" THEN MaxAttempts ELSE @]
<1>1. /\ worker[w].pc = "call" /\ batches' = UpdateBatch(i, b)
      /\ \E todo : Proceed(w, todo)
      /\ UNCHANGED <<events, drafts>>
  BY DEF ReplyError
<1>2. /\ i \in BatchIds /\ worker[w].row \in Batch /\ batches[i] = worker[w].row
      /\ worker[w].row.status = "summarizing"
  BY <1>1, Claimed DEF Working
<1>3. ~HasDraft(i)
  <2>1. w \in Summarizers
    BY DEF Summarizers
  <2> QED
    BY <1>1, <2>1 DEF IInv, DraftInv, HasDraft
<1>4. /\ b.status = "failed"
      /\ b.attempts = IF e = "refused" THEN MaxAttempts ELSE worker[w].row.attempts
  BY <1>2 DEF Batch
<1> HIDE DEF b
<1>5. batches' = [batches EXCEPT ![i] = b]
  BY <1>1, <1>2 DEF UpdateBatch, NoRow
<1>6. batches'[i] = b /\ OnlyRow(i)
  BY <1>2, <1>5 DEF OnlyRow, IInv, TypeInv, WorkerTypeOK, JournalTypeOK
<1> QED
  BY <1>1, <1>2, <1>3, <1>4, <1>6, ProceedEffect

LEMMA FinishEffect ==
  ASSUME IInv, NEW w \in Workers, Finish(w)
  PROVE  LET i == worker[w].id IN
           /\ i \in BatchIds /\ OnlyRow(i)
           /\ batches[i].status = "summarizing"
           /\ batches'[i].status = "summarized"
           /\ batches'[i].attempts = batches[i].attempts
           /\ worker[w].pc = "finish" /\ worker'[w].pc = "next" /\ OnlyWorker(w)
           /\ UNCHANGED <<events, drafts>>
<1> DEFINE i == worker[w].id
           b == [worker[w].row EXCEPT !.status = "summarized"]
<1>1. /\ worker[w].pc = "finish" /\ batches' = UpdateBatch(i, b)
      /\ Proceed(w, worker[w].todo)
      /\ UNCHANGED <<events, drafts>>
  BY DEF Finish
<1>2. /\ i \in BatchIds /\ worker[w].row \in Batch /\ batches[i] = worker[w].row
      /\ worker[w].row.status = "summarizing"
  BY <1>1, Claimed DEF Working
<1>3. b.status = "summarized" /\ b.attempts = worker[w].row.attempts
  BY <1>2 DEF Batch
<1> HIDE DEF b
<1>4. batches' = [batches EXCEPT ![i] = b]
  BY <1>1, <1>2 DEF UpdateBatch, NoRow
<1>5. batches'[i] = b /\ OnlyRow(i)
  BY <1>2, <1>4 DEF OnlyRow, IInv, TypeInv, WorkerTypeOK, JournalTypeOK
<1> QED
  BY <1>1, <1>2, <1>3, <1>5, ProceedEffect

LEMMA AbortEffect ==
  ASSUME IInv, NEW w \in Workers, Abort(w)
  PROVE  worker'[w].pc = "idle" /\ OnlyWorker(w) /\ UNCHANGED journalVars
<1>1. w \in Summarizers /\ worker \in [Summarizers -> WorkerState]
  BY DEF Summarizers, IInv, TypeInv, WorkerTypeOK
<1> QED
  BY <1>1 DEF Abort, IdleWorker, OnlyWorker

----------------------------------------------------------------------------
\* Drafts are written from all of the events

HasRead(w) == worker[w].pc = "claim" \/ Working(w)

Drafted(i) ==
  \E d \in drafts : d.batch = i /\ d.built = {e.cmd : e \in EventsOf(i)}

\* What a worker read before it claimed its batch is what the batch holds, what it
\* saved is the draft of all of that; an unused row has had no attempt.
EventInv ==
  /\ \A w \in Workers : HasRead(w) => worker[w].evs = EventsOf(worker[w].id)
  /\ \A w \in Workers : worker[w].pc = "finish" => Drafted(worker[w].id)
  /\ SummarizedIsDrafted
  /\ \A i \in Listed({"absent"}) : batches[i].attempts = 0

SInv == IInv /\ EventInv

LEMMA InitEvents == Init => SInv
<1> SUFFICES ASSUME Init PROVE SInv
  OBVIOUS
<1>1. EventInv
  BY DEF Init, JournalInit, WorkerInit, IdleWorker, Blank, EventInv, HasRead, Working,
         SummarizedIsDrafted, Listed, Summarizers
<1> QED
  BY <1>1, InitInv DEF SInv

LEMMA DraftedStays ==
  ASSUME NEW i, EventsOf(i)' = EventsOf(i), drafts \subseteq drafts', Drafted(i)
  PROVE  Drafted(i)'
  BY DEF Drafted

\* What is left to check of a step of one process.
LEMMA EventStep ==
  ASSUME SInv, NEW w \in Workers, OnlyWorker(w), UNCHANGED events,
         drafts \subseteq drafts',
         HasRead(w)' => worker'[w].evs = EventsOf(worker[w].id)',
         worker'[w].pc = "finish" => Drafted(worker[w].id)',
         \A i \in BatchIds : batches'[i].status = "summarized" =>
           batches[i].status = "summarized" \/ Drafted(i),
         \A i \in BatchIds : batches'[i].status = "absent" => batches'[i] = batches[i]
  PROVE  EventInv'
<1> USE DEF SInv, EventInv
<1>1. \A i : EventsOf(i)' = EventsOf(i)
  BY DEF EventsOf
<1>2. \A v \in Workers \ {w} : worker'[v] = worker[v]
  BY DEF OnlyWorker, Summarizers
<1>3. \A v \in Workers : HasRead(v)' => worker'[v].evs = EventsOf(worker[v].id)'
  BY <1>1, <1>2 DEF HasRead, Working
<1>4. \A v \in Workers : worker'[v].pc = "finish" => Drafted(worker[v].id)'
  <2> SUFFICES ASSUME NEW v \in Workers, worker'[v].pc = "finish", v # w
               PROVE  Drafted(worker[v].id)'
    OBVIOUS
  <2>1. worker'[v] = worker[v]
    BY <1>2
  <2>2. Drafted(worker[v].id)
    BY <2>1
  <2>3. worker'[v].id = worker[v].id
    BY <2>1
  <2> QED
    BY <1>1, <2>2, <2>3 DEF Drafted
<1>5. SummarizedIsDrafted'
  <2> SUFFICES ASSUME NEW i \in BatchIds, batches'[i].status = "summarized"
               PROVE  Drafted(i)'
    BY DEF SummarizedIsDrafted, Listed, Drafted
  <2>1. Drafted(i)
    BY DEF SummarizedIsDrafted, Listed, Drafted
  <2> QED
    BY <1>1, <2>1, DraftedStays
<1>6. (\A i \in Listed({"absent"}) : batches[i].attempts = 0)'
  BY DEF Listed
<1> QED
  BY <1>3, <1>4, <1>5, <1>6

LEMMA ArriveEvents ==
  ASSUME SInv, NEW i \in BatchIds, Arrive(i)
  PROVE  EventInv'
<1> USE DEF SInv, EventInv
<1>1. /\ batches[i].status = "absent" /\ batches'[i].status = "pending_summary"
      /\ OnlyRow(i) /\ UNCHANGED <<worker, drafts>>
      /\ \A j \in BatchIds \ {i} : EventsOf(j)' = EventsOf(j)
  BY ArriveEffect
<1>2. \A w \in Workers : HasRead(w) => worker[w].id \in BatchIds \ {i}
  BY <1>1, Claimed, ReadRow DEF HasRead
<1>3. \A w \in Workers : HasRead(w)' => worker'[w].evs = EventsOf(worker[w].id)'
  BY <1>1, <1>2 DEF HasRead, Working
<1>4. \A w \in Workers : worker'[w].pc = "finish" => Drafted(worker[w].id)'
  <2> SUFFICES ASSUME NEW w \in Workers, worker'[w].pc = "finish"
               PROVE  Drafted(worker[w].id)'
    OBVIOUS
  <2>1. worker[w].pc = "finish" /\ worker[w].id \in BatchIds \ {i}
    BY <1>1, <1>2 DEF HasRead, Working
  <2>2. Drafted(worker[w].id)'
    BY <1>1, <2>1, DraftedStays
  <2> QED
    BY <1>1, <2>2 DEF Drafted
<1>5. SummarizedIsDrafted'
  <2> SUFFICES ASSUME NEW j \in BatchIds, batches'[j].status = "summarized"
               PROVE  Drafted(j)'
    BY DEF SummarizedIsDrafted, Listed, Drafted
  <2>1. j # i /\ batches[j].status = "summarized"
    BY <1>1 DEF OnlyRow
  <2>2. Drafted(j)
    BY <2>1 DEF SummarizedIsDrafted, Listed, Drafted
  <2> QED
    BY <1>1, <2>1, <2>2, DraftedStays
<1>6. (\A j \in Listed({"absent"}) : batches[j].attempts = 0)'
  BY <1>1 DEF Listed, OnlyRow
<1> QED
  BY <1>3, <1>4, <1>5, <1>6

LEMMA WorkerEvents ==
  ASSUME SInv, NEW w \in Workers, StartWork(w) \/ Step(w) \/ Abort(w)
  PROVE  EventInv'
<1>1. CASE StartWork(w)
  BY <1>1, StartEffect, EventStep DEF SInv, journalVars, HasRead, Working
<1>2. CASE List(w) \/ PassOver(w) \/ Leave(w)
  BY <1>2, IdleStepEffect, EventStep DEF SInv, journalVars, HasRead, Working
<1>3. CASE SkipEmpty(w)
  BY <1>3, SkipEmptyEffect, EventStep DEF SInv, OnlyRow, HasRead, Working
<1>4. CASE Claim(w)
  <2>1. PICK i \in BatchIds :
          /\ OnlyRow(i) /\ batches'[i].status = "summarizing" /\ i = worker[w].id
          /\ worker[w].pc = "claim" /\ worker'[w].pc = "call" /\ worker'[w].id = i
          /\ worker'[w].evs = worker[w].evs /\ OnlyWorker(w)
          /\ UNCHANGED <<events, drafts>>
    BY <1>4, ClaimEffect DEF SInv
  <2>2. worker'[w].evs = EventsOf(worker[w].id)'
    BY <2>1 DEF SInv, EventInv, HasRead, EventsOf
  <2> QED
    BY <2>1, <2>2, EventStep DEF OnlyRow
<1>10. CASE Read(w)
  <2>1. worker'[w].evs = EventsOf(worker[w].id)'
    BY <1>10, ReadEffect DEF SInv, EventsOf, journalVars
  <2> QED
    BY <1>10, <2>1, ReadEffect, EventStep DEF SInv, journalVars
<1>5. CASE Reply(w)
  <2>1. worker'[w].evs = EventsOf(worker[w].id)'
    BY <1>5, ReplyEffect DEF SInv, EventInv, HasRead, Working, EventsOf, journalVars
  <2> QED
    BY <1>5, <2>1, ReplyEffect, EventStep DEF SInv, journalVars
<1>6. CASE \E e \in Errors : ReplyError(w, e)
  BY <1>6, ReplyErrorEffect, EventStep DEF SInv, OnlyRow, HasRead, Working
<1>7. CASE Save(w)
  <2>1. PICK d :
          /\ d.batch = worker[w].id /\ d.built = {e.cmd : e \in worker[w].evs}
          /\ drafts' = drafts \cup {d}
          /\ worker[w].pc = "save" /\ worker'[w].pc = "finish"
          /\ worker'[w].id = worker[w].id /\ worker'[w].evs = worker[w].evs
          /\ OnlyWorker(w) /\ UNCHANGED <<batches, events>>
    BY <1>7, SaveEffect DEF SInv
  <2>2. worker'[w].evs = EventsOf(worker[w].id)'
    BY <2>1 DEF SInv, EventInv, HasRead, Working, EventsOf
  <2>3. Drafted(worker[w].id)'
    <3>1. worker'[w].evs = EventsOf(worker[w].id)' /\ d \in drafts'
      BY <2>1, <2>2
    <3> QED
      BY <2>1, <3>1 DEF Drafted
  <2> QED
    BY <2>1, <2>2, <2>3, EventStep
<1>8. CASE Finish(w)
  <2>1. Drafted(worker[w].id)
    BY <1>8, FinishEffect DEF SInv, EventInv
  <2> QED
    BY <1>8, <2>1, FinishEffect, EventStep DEF SInv, OnlyRow, HasRead, Working
<1>9. CASE Abort(w)
  BY <1>9, AbortEffect, EventStep DEF SInv, journalVars, HasRead, Working
<1> QED
  BY <1>1, <1>2, <1>3, <1>4, <1>5, <1>6, <1>7, <1>8, <1>9, <1>10 DEF Step

LEMMA NextEvents == SInv /\ [LockedNext]_vars => SInv'
<1> SUFFICES ASSUME SInv, [LockedNext]_vars PROVE SInv'
  OBVIOUS
<1>1. EventInv'
  <2>1. CASE UNCHANGED vars
    <3>1. UNCHANGED <<batches, events, drafts, worker>>
      BY <2>1 DEF vars, journalVars, workerVars
    <3> QED BY <3>1 DEF SInv, EventInv, HasRead, Working, Drafted, SummarizedIsDrafted,
                         Listed, EventsOf
  <2> QED
    BY <2>1, ArriveEvents, WorkerEvents DEF LockedNext
<1> QED
  BY <1>1, NextInv DEF SInv

----------------------------------------------------------------------------
\* A batch given up is left alone

LEMMA GivenUpStep ==
  ASSUME IInv, LockedNext, NEW i \in BatchIds, GivenUp(batches[i])
  PROVE  batches'[i] = batches[i]
<1>1. batches[i].status = "failed" /\ ~MayTry(i)
  <2>1. batches[i].attempts \in Nat /\ MaxAttempts \in Nat
    BY WorkerAssumption DEF IInv, TypeInv, WorkerTypeOK, JournalTypeOK, Batch
  <2> QED
    BY <2>1 DEF GivenUp, MayTry
<1>2. ASSUME NEW j \in BatchIds, Arrive(j)
      PROVE  batches'[i] = batches[i]
  BY <1>1, <1>2, ArriveEffect DEF OnlyRow
<1>3. ASSUME NEW w \in Workers, StartWork(w) \/ Abort(w)
      PROVE  batches'[i] = batches[i]
  BY <1>3, StartEffect, AbortEffect DEF journalVars
<1>4. ASSUME NEW w \in Workers, Step(w)
      PROVE  batches'[i] = batches[i]
  <2>1. CASE List(w) \/ PassOver(w) \/ Read(w) \/ Leave(w) \/ Reply(w)
    BY <2>1, IdleStepEffect, ReadEffect, ReplyEffect DEF journalVars
  <2>2. CASE SkipEmpty(w) \/ Claim(w)
    BY <2>2, <1>1, SkipEmptyEffect, ClaimEffect DEF OnlyRow
  <2>3. CASE Finish(w) \/ \E e \in Errors : ReplyError(w, e)
    BY <2>3, <1>1, FinishEffect, ReplyErrorEffect DEF OnlyRow
  <2>4. CASE Save(w)
    BY <2>4, SaveEffect
  <2> QED
    BY <1>4, <2>1, <2>2, <2>3, <2>4 DEF Step
<1> QED
  BY <1>2, <1>3, <1>4 DEF LockedNext

----------------------------------------------------------------------------
\* Each step is one of the ledger, or none

Fates == [id \in BatchIds |-> FateOf(id)]
Tries == [id \in BatchIds |-> batches[id].attempts]

LEMMA FateSame ==
  ASSUME NEW j \in BatchIds, batches'[j] = batches[j], HasDraft(j)' <=> HasDraft(j),
         HasDraft(j) \/ \A p \in Summarizers : WorksOn(p, j)' <=> WorksOn(p, j)
  PROVE  FateOf(j)' = FateOf(j)
<1>1. CASE HasDraft(j)
  BY <1>1 DEF FateOf
<1>2. CASE ~HasDraft(j)
  <2>1. Orphaned(j)' <=> Orphaned(j)
    BY <1>2 DEF Orphaned
  <2> QED
    BY <1>2, <2>1 DEF FateOf
<1> QED
  BY <1>1, <1>2

\* One row and the process on it: what becomes of the others.
LEMMA OthersSame ==
  ASSUME NEW i \in BatchIds, NEW w \in Workers, OnlyRow(i), OnlyWorker(w),
         Working(w) => worker[w].id = i, Working(w)' => worker'[w].id = i,
         \A j \in BatchIds \ {i} : HasDraft(j)' <=> HasDraft(j)
  PROVE  /\ \A j \in BatchIds \ {i} : FateOf(j)' = FateOf(j)
         /\ Fates' = [Fates EXCEPT ![i] = FateOf(i)']
         /\ Tries' = [Tries EXCEPT ![i] = batches'[i].attempts]
<1>1. ASSUME NEW j \in BatchIds \ {i} PROVE FateOf(j)' = FateOf(j)
  <2>1. \A p \in Summarizers : WorksOn(p, j)' <=> WorksOn(p, j)
    BY DEF OnlyWorker, WorksOn, Working
  <2> QED
    BY <2>1, FateSame DEF OnlyRow
<1>2. Fates' = [Fates EXCEPT ![i] = FateOf(i)']
  BY <1>1 DEF Fates
<1>3. Tries' = [Tries EXCEPT ![i] = batches'[i].attempts]
  BY DEF Tries, OnlyRow
<1> QED
  BY <1>1, <1>2, <1>3

LEMMA AllSame ==
  ASSUME \A j \in BatchIds : FateOf(j)' = FateOf(j), UNCHANGED batches
  PROVE  UNCHANGED <<Fates, Tries>>
  BY DEF Fates, Tries

LEMMA InitLedger == Init => Ledger!LInit
<1> SUFFICES ASSUME Init PROVE Ledger!LInit
  OBVIOUS
<1>1. \A i \in BatchIds : batches[i].status = "absent" /\ batches[i].attempts = 0 /\ ~HasDraft(i)
  BY DEF Init, JournalInit, Blank, HasDraft
<1>2. \A i \in BatchIds : FateOf(i) = "new"
  BY <1>1 DEF FateOf
<1> QED
  BY <1>1, <1>2 DEF Ledger!LInit

LEMMA MayTryFate ==
  ASSUME NEW i \in BatchIds, MayTry(i)
  PROVE  FateOf(i) = "waiting"
  BY DEF MayTry, FateOf

LEMMA CallFate ==
  ASSUME NEW w \in Workers, worker[w].pc \in {"call", "save"},
         batches[worker[w].id].status = "summarizing", ~HasDraft(worker[w].id)
  PROVE  FateOf(worker[w].id) = "drafting"
<1>1. ~Orphaned(worker[w].id)
  BY DEF Orphaned, WorksOn, Summarizers
<1> QED
  BY <1>1 DEF FateOf

LEMMA ArriveLedger ==
  ASSUME SInv, NEW i \in BatchIds, Arrive(i)
  PROVE  Ledger!Submit(i)
<1>1. /\ batches[i].status = "absent" /\ ~HasDraft(i)
      /\ batches'[i].status = "pending_summary"
      /\ batches'[i].attempts = batches[i].attempts
      /\ OnlyRow(i) /\ UNCHANGED <<worker, drafts>>
  BY ArriveEffect DEF SInv, EventInv, Listed
<1>2. \A j \in BatchIds \ {i} : FateOf(j)' = FateOf(j)
  <2> SUFFICES ASSUME NEW j \in BatchIds \ {i} PROVE FateOf(j)' = FateOf(j)
    OBVIOUS
  <2>1. HasDraft(j)' <=> HasDraft(j)
    BY <1>1 DEF HasDraft
  <2>2. \A p \in Summarizers : WorksOn(p, j)' <=> WorksOn(p, j)
    BY <1>1 DEF WorksOn
  <2> QED
    BY <1>1, <2>1, <2>2, FateSame DEF OnlyRow
<1>3. FateOf(i) = "new"
  BY <1>1 DEF FateOf
<1>4. FateOf(i)' = "waiting"
  <2>1. ~HasDraft(i)'
    BY <1>1 DEF HasDraft
  <2> QED
    BY <1>1, <2>1 DEF FateOf
<1>5. Fates' = [Fates EXCEPT ![i] = "waiting"] /\ Tries' = Tries
  BY <1>1, <1>2, <1>4 DEF Fates, Tries, OnlyRow
<1> QED
  BY <1>3, <1>5 DEF Ledger!Submit, Ledger!Move, Fates, Tries

\* A process that has nothing claimed, before and after.
LEMMA QuietLedger ==
  ASSUME NEW w \in Workers, OnlyWorker(w), UNCHANGED <<batches, drafts>>,
         ~Working(w), ~Working(w)'
  PROVE  UNCHANGED <<Fates, Tries>>
<1>1. ASSUME NEW j \in BatchIds PROVE FateOf(j)' = FateOf(j)
  <2>1. HasDraft(j)' <=> HasDraft(j)
    BY DEF HasDraft
  <2>2. \A p \in Summarizers : WorksOn(p, j)' <=> WorksOn(p, j)
    BY DEF OnlyWorker, WorksOn, Working
  <2> QED
    BY <2>1, <2>2, FateSame
<1> QED
  BY <1>1, AllSame

LEMMA SkipEmptyLedger ==
  ASSUME SInv, NEW w \in Workers, SkipEmpty(w)
  PROVE  \E i \in BatchIds : Ledger!Discard(i)
<1>1. PICK i \in BatchIds :
        /\ MayTry(i) /\ OnlyRow(i) /\ batches'[i].status = "skipped"
        /\ batches'[i].attempts = batches[i].attempts
        /\ ~Working(w) /\ worker'[w].pc = "next" /\ OnlyWorker(w)
        /\ UNCHANGED <<events, drafts>>
  BY SkipEmptyEffect DEF SInv
<1>2. \A j \in BatchIds : HasDraft(j)' <=> HasDraft(j)
  BY <1>1 DEF HasDraft
<1>3. FateOf(i) = "waiting" /\ FateOf(i)' = "dropped"
  BY <1>1, <1>2, MayTryFate DEF MayTry, FateOf
<1>4. /\ Fates' = [Fates EXCEPT ![i] = "dropped"]
      /\ Tries' = [Tries EXCEPT ![i] = batches[i].attempts]
  BY <1>1, <1>2, <1>3, OthersSame DEF Working
<1>5. Tries' = Tries
  BY <1>4 DEF Tries
<1> QED
  BY <1>3, <1>4, <1>5 DEF Ledger!Discard, Ledger!Move, Fates, Tries

\* Nobody works on anything while a process claims what it has read.
LEMMA ClaimLedger ==
  ASSUME SInv, NEW w \in Workers, Claim(w)
  PROVE  \E i \in BatchIds : Ledger!Begin(i)
<1>1. PICK i \in BatchIds :
        /\ MayTry(i) /\ OnlyRow(i) /\ batches'[i].status = "summarizing"
        /\ batches'[i].attempts = batches[i].attempts + 1
        /\ worker[w].pc = "claim" /\ worker'[w].pc = "call" /\ worker'[w].id = i
        /\ OnlyWorker(w) /\ UNCHANGED <<events, drafts>>
  BY ClaimEffect DEF SInv
<1>2. \A j \in BatchIds : HasDraft(j)' <=> HasDraft(j)
  BY <1>1 DEF HasDraft
<1>3. FateOf(i) = "waiting"
  BY <1>1, MayTryFate
<1>4. FateOf(i)' = "drafting"
  <2>1. ~HasDraft(i)'
    BY <1>1, <1>2 DEF MayTry
  <2>2. ~Orphaned(i)'
    BY <1>1 DEF Orphaned, WorksOn, Summarizers
  <2> QED
    BY <1>1, <2>1, <2>2 DEF FateOf
<1>5. /\ Fates' = [Fates EXCEPT ![i] = "drafting"]
      /\ Tries' = [Tries EXCEPT ![i] = batches[i].attempts + 1]
  BY <1>1, <1>2, <1>4, OthersSame DEF Working
<1>6. \A j \in BatchIds : FateOf(j) # "drafting"
  <2>2. \A p \in Summarizers : ~Working(p)
    BY <1>1, Holder DEF SInv, Running, Working
  <2>3. \A j \in BatchIds, p \in Summarizers : ~WorksOn(p, j)
    BY <2>2 DEF WorksOn, Working
  <2>4. \A j \in BatchIds : batches[j].status = "summarizing" => Orphaned(j)
    BY <2>3 DEF Orphaned
  <2> QED
    BY <2>4 DEF FateOf
<1>7. Fates[i] = "waiting" /\ Tries[i] < MaxAttempts /\ \A j \in BatchIds : Fates[j] # "drafting"
  BY <1>1, <1>3, <1>6 DEF Fates, Tries, MayTry
<1>8. Tries' = [Tries EXCEPT ![i] = @ + 1]
  BY <1>5 DEF Tries
<1> QED
  BY <1>5, <1>7, <1>8 DEF Ledger!Begin, Ledger!Move, Fates, Tries

LEMMA ReplyLedger ==
  ASSUME SInv, NEW w \in Workers, Reply(w)
  PROVE  UNCHANGED <<Fates, Tries>>
<1>1. /\ worker[w].pc = "call" /\ worker'[w].pc = "save"
      /\ worker'[w].id = worker[w].id
      /\ OnlyWorker(w) /\ UNCHANGED <<batches, drafts>>
  BY ReplyEffect DEF SInv, journalVars
<1>2. ASSUME NEW j \in BatchIds PROVE FateOf(j)' = FateOf(j)
  <2>1. HasDraft(j)' <=> HasDraft(j)
    BY <1>1 DEF HasDraft
  <2>2. \A p \in Summarizers : WorksOn(p, j)' <=> WorksOn(p, j)
    BY <1>1 DEF OnlyWorker, WorksOn
  <2> QED
    BY <1>1, <2>1, <2>2, FateSame
<1> QED
  BY <1>1, <1>2, AllSame

LEMMA ReplyErrorLedger ==
  ASSUME SInv, NEW w \in Workers, NEW e \in Errors, ReplyError(w, e)
  PROVE  \E i \in BatchIds : Ledger!Fail(i) \/ Ledger!Refuse(i)
<1>0. PICK i : i = worker[w].id
  OBVIOUS
<1> DEFINE n == IF e = "refused" THEN MaxAttempts ELSE batches[i].attempts
<1>1. /\ i \in BatchIds /\ OnlyRow(i)
      /\ batches[i].status = "summarizing" /\ ~HasDraft(i)
      /\ batches'[i].status = "failed" /\ batches'[i].attempts = n
      /\ worker[w].pc = "call" /\ worker'[w].pc = "next" /\ OnlyWorker(w)
      /\ UNCHANGED <<events, drafts>>
  BY <1>0, ReplyErrorEffect DEF SInv
<1>2. \A j \in BatchIds : HasDraft(j)' <=> HasDraft(j)
  BY <1>0, <1>1 DEF HasDraft
<1>3. FateOf(i) = "drafting"
  BY <1>0, <1>1, CallFate
<1>4. FateOf(i)' = IF n < MaxAttempts THEN "waiting" ELSE "dropped"
  <2>1. ~HasDraft(i)' /\ batches'[i].status = "failed" /\ batches'[i].attempts = n
    BY <1>0, <1>1, <1>2
  <2> HIDE DEF n
  <2> QED
    BY <1>0, <2>1, <1>1, <1>2 DEF FateOf, HasDraft
<1>5. /\ Fates' = [Fates EXCEPT ![i] = FateOf(i)']
      /\ Tries' = [Tries EXCEPT ![i] = n]
  BY <1>0, <1>1, <1>2, OthersSame DEF Working
<1>6. Fates[i] = "drafting" /\ Tries[i] = batches[i].attempts
  BY <1>0, <1>1, <1>3 DEF Fates, Tries
<1>7. CASE e = "refused"
  <2>1. /\ Fates' = [Fates EXCEPT ![i] = "dropped"]
        /\ Tries' = [Tries EXCEPT ![i] = MaxAttempts]
    <3>1. n = MaxAttempts /\ ~(n < MaxAttempts)
      BY <1>7, WorkerAssumption
    <3> HIDE DEF n
    <3>2. FateOf(i)' = "dropped"
      BY <1>4, <3>1
    <3> QED
      BY <1>5, <3>1, <3>2
  <2> QED
    BY <1>0, <1>1, <1>6, <2>1 DEF Ledger!Refuse, Ledger!Move, Fates, Tries
<1>8. CASE e # "refused"
  <2>1. Tries' = Tries
    BY <1>0, <1>5, <1>8 DEF Tries
  <2>2. Fates' = [Fates EXCEPT ![i] = IF Tries[i] < MaxAttempts THEN "waiting" ELSE "dropped"]
    BY <1>0, <1>4, <1>5, <1>6, <1>8
  <2> QED
    BY <1>0, <1>1, <1>6, <2>1, <2>2 DEF Ledger!Fail, Ledger!Move, Fates, Tries
<1> QED
  BY <1>0, <1>7, <1>8

LEMMA SaveLedger ==
  ASSUME SInv, NEW w \in Workers, Save(w)
  PROVE  \E i \in BatchIds : Ledger!Deliver(i)
<1>0. PICK i : i = worker[w].id
  OBVIOUS
<1>1. PICK d :
        /\ d.batch = i /\ drafts' = drafts \cup {d}
        /\ worker[w].pc = "save" /\ worker'[w].pc = "finish"
        /\ worker'[w].id = i /\ OnlyWorker(w) /\ UNCHANGED <<batches, events>>
  BY <1>0, SaveEffect DEF SInv
<1>2. i \in BatchIds /\ batches[i].status = "summarizing" /\ ~HasDraft(i)
  <2>1. w \in Summarizers
    BY DEF Summarizers
  <2> QED
    BY <1>0, <1>1, <2>1, Claimed DEF SInv, IInv, DraftInv, HasDraft, Working
<1>3. \A j \in BatchIds \ {i} : HasDraft(j)' <=> HasDraft(j)
  BY <1>0, <1>1 DEF HasDraft
<1>4. FateOf(i) = "drafting"
  BY <1>0, <1>1, <1>2, CallFate
<1>5. FateOf(i)' = "drafted"
  <2>1. HasDraft(i)'
    BY <1>0, <1>1 DEF HasDraft
  <2> QED
    BY <1>0, <2>1 DEF FateOf
<1>6. /\ Fates' = [Fates EXCEPT ![i] = "drafted"]
      /\ Tries' = Tries
  <2>1. OnlyRow(i)
    BY <1>0, <1>1 DEF OnlyRow
  <2> QED
    BY <1>0, <1>1, <1>2, <1>3, <1>5, <2>1, OthersSame DEF Working, Tries
<1> QED
  BY <1>0, <1>2, <1>4, <1>6 DEF Ledger!Deliver, Ledger!Move, Fates, Tries

\* The draft is there already: the ledger does not see the row's last word.
LEMMA FinishLedger ==
  ASSUME SInv, NEW w \in Workers, Finish(w)
  PROVE  UNCHANGED <<Fates, Tries>>
<1>0. PICK i : i = worker[w].id
  OBVIOUS
<1>1. /\ i \in BatchIds /\ OnlyRow(i)
      /\ batches'[i].attempts = batches[i].attempts
      /\ worker[w].pc = "finish" /\ worker'[w].pc = "next" /\ OnlyWorker(w)
      /\ UNCHANGED <<events, drafts>>
  BY <1>0, FinishEffect DEF SInv
<1>2. \A j \in BatchIds : HasDraft(j)' <=> HasDraft(j)
  BY <1>0, <1>1 DEF HasDraft
<1>3. HasDraft(i)
  BY <1>0, <1>1 DEF SInv, EventInv, Drafted, HasDraft
<1>4. FateOf(i) = "drafted" /\ FateOf(i)' = "drafted"
  BY <1>0, <1>1, <1>2, <1>3 DEF FateOf
<1>5. /\ Fates' = [Fates EXCEPT ![i] = "drafted"]
      /\ Tries' = [Tries EXCEPT ![i] = batches[i].attempts]
  BY <1>0, <1>1, <1>2, <1>4, OthersSame DEF Working
<1> QED
  BY <1>0, <1>1, <1>4, <1>5 DEF Fates, Tries

LEMMA AbortLedger ==
  ASSUME SInv, NEW w \in Workers, Abort(w)
  PROVE  (\E i \in BatchIds : Ledger!Lose(i)) \/ UNCHANGED <<Fates, Tries>>
<1>0. PICK i : i = worker[w].id
  OBVIOUS
<1>1. worker'[w].pc = "idle" /\ OnlyWorker(w) /\ UNCHANGED <<batches, events, drafts>>
  BY AbortEffect DEF SInv, journalVars
<1>2. \A j \in BatchIds : HasDraft(j)' <=> HasDraft(j)
  BY <1>0, <1>1 DEF HasDraft
<1>3. CASE ~Working(w)
  BY <1>0, <1>1, <1>3, QuietLedger DEF Working
<1>4. CASE Working(w)
  <2>1. i \in BatchIds /\ batches[i].status = "summarizing"
    BY <1>0, <1>4, Claimed DEF SInv
  <2>2. Fates' = [Fates EXCEPT ![i] = FateOf(i)'] /\ Tries' = Tries
    <3>1. OnlyRow(i)
      BY <1>0, <1>1 DEF OnlyRow
    <3> QED
      BY <1>0, <1>1, <1>2, <2>1, <3>1, OthersSame DEF Working, Tries
  <2>3. CASE HasDraft(i)
    <3>1. FateOf(i) = "drafted" /\ FateOf(i)' = "drafted"
      BY <1>0, <1>2, <2>1, <2>3 DEF FateOf
    <3> QED
      BY <1>0, <2>1, <2>2, <3>1 DEF Fates
  <2>4. CASE ~HasDraft(i)
    <3>1. worker[w].pc \in {"call", "save"}
      BY <1>0, <1>4, <2>4 DEF Working, SInv, EventInv, Drafted, HasDraft
    <3>2. FateOf(i) = "drafting"
      BY <1>0, <2>1, <2>4, <3>1, CallFate
    <3>3. FateOf(i)' = "lost"
      <4>1. \A p \in Summarizers : ~Working(p)'
        <5>1. \A p \in Summarizers \ {w} : ~Working(p)
          BY <1>0, <3>1, Holder DEF SInv, Running, Working
        <5> QED
          BY <1>0, <1>1, <5>1 DEF OnlyWorker, Working
      <4>2. Orphaned(i)'
        BY <1>0, <1>1, <2>1, <4>1 DEF Orphaned, WorksOn, Working
      <4> QED
        BY <1>0, <1>1, <1>2, <2>1, <2>4, <4>2 DEF FateOf
    <3> QED
      BY <1>0, <2>1, <2>2, <3>2, <3>3 DEF Ledger!Lose, Ledger!Move, Fates, Tries
  <2> QED
    BY <1>0, <2>3, <2>4
<1> QED
  BY <1>0, <1>3, <1>4

LEMMA StepLedger ==
  ASSUME SInv, [LockedNext]_vars
  PROVE  [Ledger!LNext]_<<Fates, Tries>>
<1>1. ASSUME NEW i \in BatchIds, Arrive(i)
      PROVE  Ledger!LNext
  BY <1>1, ArriveLedger DEF Ledger!LNext
<1>2. ASSUME NEW w \in Workers, StartWork(w)
      PROVE  UNCHANGED <<Fates, Tries>>
  BY <1>2, StartEffect, QuietLedger DEF SInv, journalVars, Working
<1>3. ASSUME NEW w \in Workers, Abort(w)
      PROVE  Ledger!LNext \/ UNCHANGED <<Fates, Tries>>
  BY <1>3, AbortLedger DEF Ledger!LNext
<1>4. ASSUME NEW w \in Workers, Step(w)
      PROVE  Ledger!LNext \/ UNCHANGED <<Fates, Tries>>
  <2>1. CASE List(w) \/ PassOver(w) \/ Read(w) \/ Leave(w)
    BY <2>1, IdleStepEffect, ReadEffect, QuietLedger DEF SInv, journalVars, Working
  <2>2. CASE SkipEmpty(w)
    BY <2>2, SkipEmptyLedger DEF Ledger!LNext
  <2>3. CASE Claim(w)
    BY <2>3, ClaimLedger DEF Ledger!LNext
  <2>4. CASE Reply(w)
    BY <2>4, ReplyLedger
  <2>5. CASE \E e \in Errors : ReplyError(w, e)
    BY <2>5, ReplyErrorLedger DEF Ledger!LNext
  <2>6. CASE Save(w)
    BY <2>6, SaveLedger DEF Ledger!LNext
  <2>7. CASE Finish(w)
    BY <2>7, FinishLedger
  <2> QED
    BY <1>4, <2>1, <2>2, <2>3, <2>4, <2>5, <2>6, <2>7 DEF Step
<1>5. CASE UNCHANGED vars
  <2>1. \A i \in BatchIds : FateOf(i)' = FateOf(i)
    <3>1. \A i \in BatchIds : HasDraft(i)' <=> HasDraft(i)
      BY <1>5 DEF vars, journalVars, HasDraft
    <3>2. \A i \in BatchIds, p \in Summarizers : WorksOn(p, i)' <=> WorksOn(p, i)
      BY <1>5 DEF vars, workerVars, WorksOn
    <3> QED
      BY <1>5, <3>1, <3>2, FateSame DEF vars, journalVars
  <2> QED
    BY <1>5, <2>1, AllSame DEF vars, journalVars
<1> QED
  BY <1>1, <1>2, <1>3, <1>4, <1>5 DEF LockedNext

----------------------------------------------------------------------------
\* Theorems

\* The two invariants together.
THEOREM EventInvariant == LockedSpec => []SInv
  BY InitEvents, NextEvents, PTL DEF LockedSpec

\* SummarizeBatch: a batch that counts as summarized has a draft written from
\* all of its events.
THEOREM DraftedFromAll == LockedSpec => []SummarizedIsDrafted
<1>1. SInv => SummarizedIsDrafted
  BY DEF SInv, EventInv
<1> QED
  BY <1>1, EventInvariant, PTL

\* ProcessPending: nothing is done any more to a batch that was refused or has
\* used up its attempts.
THEOREM GivenUpForGood == LockedSpec => GivenUpStays
<1>1. IInv /\ [LockedNext]_vars =>
        [\A id \in BatchIds : GivenUp(batches[id]) => batches'[id] = batches[id]]_batches
  BY GivenUpStep DEF vars, journalVars
<1> QED
  BY <1>1, LockedInvariant, PTL DEF LockedSpec, GivenUpStays

\* The workers that take the lock implement the ledger: one batch at a time, at
\* most MaxAttempts tries, nothing after a draft, and only deaths lose one.
THEOREM LedgerImplemented == LockedSpec => ImplementsLedger
<1>1. SInv /\ [LockedNext]_vars => [Ledger!LNext]_(Ledger!ledgerVars)
  BY StepLedger DEF Ledger!ledgerVars, Fates, Tries
<1> QED
  BY <1>1, InitLedger, EventInvariant, PTL DEF LockedSpec, ImplementsLedger, Ledger!LSpec
=============================================================================
