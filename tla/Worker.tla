------------------------------- MODULE Worker -------------------------------
(***************************************************************************)
(* Turning pending batches into drafts (internal/worker).  `codeument      *)
(* work` and the tick hold the file lock while they do; `codeument now`    *)
(* runs the same SummarizeBatch without it.  A process lists the batches   *)
(* once and goes through its copy, oldest first.                           *)
(***************************************************************************)
EXTENDS Journal

CONSTANTS
  Workers,      \* `work` and tick processes that may run at one time
  Manual,       \* `now` processes
  Replies,      \* what the engine may answer: "ok" or an error
  MaxAttempts,  \* Worker.MaxAttempts
  MaxAborts,    \* bound on processes dying, or running out of time
  NoOne         \* nobody holds the lock

Errors == {"failed", "refused", "unavailable"}

ASSUME WorkerAssumption ==
  /\ NoOne \notin Workers \cup Manual
  /\ Workers \cap Manual = {}
  /\ Replies \subseteq {"ok"} \cup Errors
  /\ MaxAttempts \in Nat \ {0}
  /\ MaxAborts \in Nat

VARIABLES
  lock,     \* flock on work.lock
  worker,   \* the processes
  notice,   \* number of drafts in the notification file
  aborts    \* processes that died so far

workerVars == <<lock, worker, notice, aborts>>

Summarizers == Workers \cup Manual

SomeBatch == CHOOSE id \in BatchIds : TRUE

\* pc: "list" reads the batches, "next" takes one and reads its events, "claim"
\* writes its row back, "call" waits for the engine, "save" has a draft to
\* store, "finish" has stored it; a tick (tick is the time it started) also
\* closes batches first and prunes last.
WorkerState ==
  [pc : {"idle", "closing", "list", "next", "claim", "call", "save", "finish",
         "prune"},
   tick : Nat \cup {Never}, todo : SUBSET (BatchIds \X Batch), id : BatchIds,
   row : Batch, evs : SUBSET Event]
IdleWorker == [pc |-> "idle", tick |-> Never, todo |-> {}, id |-> SomeBatch,
               row |-> Blank, evs |-> {}]

WorkerTypeOK ==
  /\ JournalTypeOK
  /\ lock \in Workers \cup {NoOne}
  /\ notice \in Nat
  /\ aborts \in 0..MaxAborts
  /\ worker \in [Summarizers -> WorkerState]

WorkerInit ==
  /\ lock = NoOne
  /\ worker = [p \in Summarizers |-> IdleWorker]
  /\ notice = 0
  /\ aborts = 0

----------------------------------------------------------------------------
\* Processes

\* Mutant: the lock is taken without looking whether it is held.
AcquireRegardless(w, pc, tick) ==
  /\ worker[w].pc = "idle"
  /\ lock' = w
  /\ worker' = [worker EXCEPT ![w].pc = pc, ![w].tick = tick]
  /\ UNCHANGED <<notice, aborts>>

\* TryLock; a process that finds the lock taken leaves without a trace.
Acquire(w, pc, tick) ==
  /\ worker[w].pc = "idle"
  /\ lock = NoOne
  /\ lock' = w
  /\ worker' = [worker EXCEPT ![w].pc = pc, ![w].tick = tick]
  /\ UNCHANGED <<notice, aborts>>

StartWork(w) == Acquire(w, "list", Never) /\ UNCHANGED journalVars

\* now: no lock is taken.
StartManual(m, pc) ==
  /\ worker[m].pc = "idle"
  /\ worker' = [worker EXCEPT ![m].pc = pc]
  /\ UNCHANGED <<lock, notice, aborts>>

ListIn(p, statuses) ==
  /\ worker[p].pc = "list"
  /\ LET todo == {<<id, batches[id]>> : id \in Listed(statuses)}
     IN worker' = [worker EXCEPT
          ![p].pc = IF p \in Manual /\ todo = {} THEN "idle" ELSE "next",
          ![p].todo = todo]
  /\ UNCHANGED <<lock, notice, aborts, journalVars>>

\* Mutants: failed batches are not listed; batches a dead process left in
\* summarizing are.
ListPending(p) == ListIn(p, {"pending_summary"})
ListStuck(p) == ListIn(p, {"pending_summary", "failed", "summarizing"})

\* ListBatches(pending, failed), once for the whole run.  `now` has nothing
\* left to do when the list is empty.
List(p) == ListIn(p, {"pending_summary", "failed"})

Oldest(todo) ==
  {t \in todo : \A u \in todo : t[2].startedAt <= u[2].startedAt}

\* ProcessPending gives up on a batch after MaxAttempts; `now` does not.
Exhausted(p, b) ==
  p \in Workers /\ b.status = "failed" /\ b.attempts >= MaxAttempts

PassOver(p) ==
  /\ worker[p].pc = "next"
  /\ \E t \in Oldest(worker[p].todo) :
       /\ Exhausted(p, t[2])
       /\ worker' = [worker EXCEPT ![p].todo = @ \ {t}]
  /\ UNCHANGED <<lock, notice, aborts, journalVars>>

\* SummarizeBatch reads the events of the batch; nothing keeps an ingest from
\* storing another before the row is written back.
Read(p) ==
  /\ worker[p].pc = "next"
  /\ \E t \in Oldest(worker[p].todo) :
       /\ ~Exhausted(p, t[2])
       /\ worker' = [worker EXCEPT
            ![p].pc = "claim", ![p].todo = @ \ {t}, ![p].id = t[1],
            ![p].row = t[2], ![p].evs = EventsOf(t[1])]
  /\ UNCHANGED <<lock, notice, aborts, journalVars>>

\* Mutant: the process stops after one batch and keeps the lock.
ProceedStopped(p, todo) == worker' = [worker EXCEPT ![p].pc = "stopped"]

\* The process is done with a batch and goes on with the ones in todo.
Proceed(p, todo) ==
  worker' = [worker EXCEPT ![p] =
    [IdleWorker EXCEPT !.pc = "next", !.tick = worker[p].tick, !.todo = todo]]

EmptyAs(p, status) ==
  /\ worker[p].pc = "claim" /\ worker[p].evs = {}
  /\ batches' = UpdateBatch(worker[p].id, [worker[p].row EXCEPT !.status = status])
  /\ \/ p \in Workers /\ Proceed(p, worker[p].todo)
     \/ p \in Manual /\ worker' = [worker EXCEPT ![p] = IdleWorker]
  /\ UNCHANGED <<lock, notice, aborts, events, drafts, lastSummary>>

\* Mutant: an empty batch counts as summarized.
SkipEmptySummarized(p) == EmptyAs(p, "summarized")

\* A batch whose events are gone yields no draft.  A worker goes on with the
\* next one; `now` prints the title of the draft it did not get, and panics.
SkipEmpty(p) == EmptyAs(p, "skipped")

ClaimAs(p, used) ==
  LET row == [worker[p].row EXCEPT !.status = "summarizing", !.attempts = @ + used]
  IN /\ worker[p].pc = "claim" /\ worker[p].evs # {}
     /\ batches' = UpdateBatch(worker[p].id, row)
     /\ worker' = [worker EXCEPT ![p].pc = "call", ![p].row = row]
     /\ UNCHANGED <<lock, notice, aborts, events, drafts, lastSummary>>

\* Mutant: the attempt is not counted.
ClaimUncounted(p) == ClaimAs(p, 0)

\* The row as listed is written back as being summarized, with one attempt more.
Claim(p) == ClaimAs(p, 1)

\* Engine.Summarize answers with a draft.
Reply(p) ==
  /\ worker[p].pc = "call" /\ "ok" \in Replies
  /\ worker' = [worker EXCEPT ![p].pc = "save"]
  /\ UNCHANGED <<lock, notice, aborts, journalVars>>

\* It answers with an error.  A refusal uses up the attempts; an engine that
\* cannot be reached ends the run of a worker.
ReplyError(p, e) ==
  /\ worker[p].pc = "call" /\ e \in Replies
  /\ batches' = UpdateBatch(worker[p].id,
       [worker[p].row EXCEPT !.status = "failed",
                             !.attempts = IF e = "refused" THEN MaxAttempts ELSE @])
  /\ Proceed(p, IF e = "unavailable" /\ p \in Workers THEN {} ELSE worker[p].todo)
  /\ UNCHANGED <<lock, notice, aborts, events, drafts, lastSummary>>

\* Mutant: the draft is written from the newest event only.
SaveNewest(p) ==
  /\ worker[p].pc = "save"
  /\ \E e \in worker[p].evs :
       /\ \A f \in worker[p].evs : f.cmd <= e.cmd
       /\ drafts' = drafts \cup {[id |-> Cardinality(drafts) + 1, batch |-> worker[p].id,
                                 built |-> {e.cmd}, status |-> "draft"]}
  /\ worker' = [worker EXCEPT ![p].pc = "finish"]
  /\ UNCHANGED <<lock, notice, aborts, batches, events, lastSummary>>

\* SaveDraft, under a new id.
Save(p) ==
  /\ worker[p].pc = "save"
  /\ drafts' = drafts \cup
       {[id |-> Cardinality(drafts) + 1, batch |-> worker[p].id,
         built |-> {e.cmd : e \in worker[p].evs}, status |-> "draft"]}
  /\ worker' = [worker EXCEPT ![p].pc = "finish"]
  /\ UNCHANGED <<lock, notice, aborts, batches, events, lastSummary>>

\* UpdateBatch: summarized.
Finish(p) ==
  /\ worker[p].pc = "finish"
  /\ batches' = UpdateBatch(worker[p].id, [worker[p].row EXCEPT !.status = "summarized"])
  /\ Proceed(p, worker[p].todo)
  /\ UNCHANGED <<lock, notice, aborts, events, drafts, lastSummary>>

Release(p) == lock' = IF lock = p THEN NoOne ELSE lock

Ready == {d \in drafts : d.status = "draft"}

\* UpdateNotify with n drafts; unlock, unless the tick has events to prune.
LeaveNoting(p, n) ==
  /\ worker[p].pc = "next" /\ worker[p].todo = {}
  /\ notice' = n
  /\ IF worker[p].tick # Never
     THEN worker' = [worker EXCEPT ![p].pc = "prune"] /\ UNCHANGED lock
     ELSE worker' = [worker EXCEPT ![p] = IdleWorker] /\ Release(p)
  /\ UNCHANGED <<aborts, journalVars>>

\* Mutant: the notification counts stale drafts too.
LeaveNotingAll(p) == LeaveNoting(p, Cardinality(drafts))

Leave(p) == LeaveNoting(p, Cardinality(Ready))

\* The end of a tick: prune, unlock.
Prune(p, cutoff) ==
  /\ worker[p].pc = "prune"
  /\ PruneEvents(cutoff)
  /\ worker' = [worker EXCEPT ![p] = IdleWorker]
  /\ Release(p)
  /\ UNCHANGED <<notice, aborts>>

\* The process is killed, or its deadline passes: then no statement of its
\* context succeeds any more, whose errors SummarizeBatch drops or returns.
Abort(p) ==
  /\ worker[p].pc # "idle" /\ aborts < MaxAborts
  /\ aborts' = aborts + 1
  /\ worker' = [worker EXCEPT ![p] = IdleWorker]
  /\ Release(p)
  /\ UNCHANGED <<notice, journalVars>>

\* What a process does once it is running.
Step(p) ==
  \/ List(p) \/ PassOver(p) \/ Read(p) \/ SkipEmpty(p) \/ Claim(p)
  \/ Reply(p) \/ \E e \in Errors : ReplyError(p, e)
  \/ Save(p) \/ Finish(p) \/ Leave(p)
=============================================================================
