------------------------------ MODULE Pipeline ------------------------------
(***************************************************************************)
(* Ingest and the worker over one journal: the hook spawns detached        *)
(* workers, the timer's tick closes, summarizes and prunes under the       *)
(* worker's lock, `codeument now` closes and summarizes without it.        *)
(* A tick or a `now` is one process with two parts: while it closes, its   *)
(* steps are those of closer[p]; then those of worker[p].                  *)
(***************************************************************************)
EXTENDS Ingest, Worker

CONSTANT Retention  \* Retention.Events, in ticks of the clock; 0 keeps all

ASSUME PipelineAssumption ==
  /\ Retention \in Nat
  /\ Summarizers \subseteq Closers

pipelineVars == <<journalVars, ingestVars, workerVars>>

PipelineInit == Init /\ WorkerInit

\* Processes that only close: an ending session.
Enders == Closers \ Summarizers

----------------------------------------------------------------------------
\* Spawned workers

RunSpawned(w) ==
  /\ spawned > 0
  /\ spawned' = spawned - 1
  /\ StartWork(w)
  /\ UNCHANGED <<now, ran, faults, hook, closer>>

\* The lock is taken: another worker is on it.
Bounce ==
  /\ spawned > 0 /\ lock # NoOne
  /\ spawned' = spawned - 1
  /\ UNCHANGED <<now, ran, faults, hook, closer, journalVars, workerVars>>

----------------------------------------------------------------------------
\* tick and now

StartTick(w) == "tick" \in Kinds /\ Acquire(w, "closing", now) /\ StartStale(w)

StartManualNow(m, s) ==
  "now" \in Kinds /\ StartManual(m, "closing") /\ StartNow(m, s)

Closing(p) ==
  /\ worker[p].pc = "closing"
  /\ \/ (CloseNext(p) \/ CloserMark(p) \/ FallBack(p)) /\ UNCHANGED workerVars
     \/ /\ FinishClosing(p)
        /\ worker' = [worker EXCEPT ![p].pc = "list"]
        /\ UNCHANGED <<lock, notice, aborts>>

\* Retention 0 prunes nothing.
PruneTick(p) ==
  /\ Prune(p, IF Retention = 0 THEN 0 ELSE worker[p].tick - Retention)
  /\ UNCHANGED ingestVars

PipelineStep(p) ==
  \/ Closing(p)
  \/ Step(p) /\ UNCHANGED ingestVars
  \/ PruneTick(p)

\* The process dies in whichever part it is.
AbortSummarizer(p) ==
  /\ Abort(p)
  /\ closer' = [closer EXCEPT ![p] = IdleCloser]
  /\ UNCHANGED <<now, ran, faults, hook, spawned>>

----------------------------------------------------------------------------
\* Specification

SummarizerNext ==
  \/ \E w \in Workers : RunSpawned(w) \/ StartTick(w)
  \/ \E m \in Manual, s \in Sessions : StartManualNow(m, s)
  \/ \E p \in Summarizers : PipelineStep(p) \/ AbortSummarizer(p)
  \/ Bounce

EnderNext ==
  \E e \in Enders :
    \/ "end" \in Kinds /\ \E s \in Sessions : EndSession(e, s)
    \/ CloserStep(e)

PipelineNext ==
  \/ (HookNext \/ EnderNext \/ Clock \/ Forget) /\ UNCHANGED workerVars
  \/ SummarizerNext

PipelineSpec == PipelineInit /\ [][PipelineNext]_pipelineVars

\* As in Ingest and Summaries.
PipelineFairness ==
  /\ WF_pipelineVars(Clock /\ UNCHANGED workerVars)
  /\ \A h \in Hooks : WF_pipelineVars(HookStep(h) /\ UNCHANGED workerVars)
  /\ \A e \in Enders : WF_pipelineVars(CloserStep(e) /\ UNCHANGED workerVars)
  /\ \A p \in Summarizers : WF_pipelineVars(PipelineStep(p))
  /\ WF_pipelineVars(\E w \in Workers : StartTick(w))

PipelineFairSpec == PipelineSpec /\ PipelineFairness

----------------------------------------------------------------------------
\* Properties

\* The commands of a batch, with one that is counted and about to be stored.
Credited(id) == {e.cmd : e \in Attributed(id)}

\* "a contiguous run of events in one session": a draft holds commands of its
\* own batch only, and none it misses lies between or before those it holds,
\* whenever its events were read between the statements of an ingest, however
\* often its batch was closed, opened again, retried or given to `now`, and
\* whatever was forgotten.  (It may miss any number of later ones: an ingest
\* whose copy of the row is old opens the batch again and adds to it, after
\* or even before the draft is saved; see the README.)
DraftsHaveNoHole ==
  \A d \in drafts :
    /\ d.built # {}
    /\ \A r \in events : r.ev.cmd \in d.built => r.batch = d.batch
    /\ \A missed \in Credited(d.batch) \ d.built, held \in d.built : held < missed

\* Work that was captured is not lost between the parts: a batch that was
\* handed over is in the end drafted, or found empty, or given up.  (Or in
\* summarizing, if a worker died.)
Settled(id) ==
  \/ batches[id].status \in {"summarized", "skipped"} \cup NoRow
  \/ batches[id].status = "failed" /\ batches[id].attempts >= MaxAttempts
  \/ batches[id].status = "summarizing" /\ aborts > 0
AllSettled == <>[](\A id \in BatchIds : Settled(id))

\* Once the shells are quiet the notification is the number of drafts waiting:
\* a worker that died left it to the next.
NoticeRight == <>[](notice = Cardinality(Ready))
=============================================================================
