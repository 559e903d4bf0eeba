----------------------------- MODULE Summaries -----------------------------
(***************************************************************************)
(* The worker processes over a journal that other commands fill: Arrive    *)
(* stands for all of batching, which Ingest models and Pipeline composes   *)
(* with the worker.                                                        *)
(***************************************************************************)
EXTENDS Worker

\* Batches are numbered, so that a command can be named after its batch.
ASSUME SummariesAssumption == BatchIds \subseteq Nat

vars == <<journalVars, workerVars>>

Init == JournalInit /\ WorkerInit

SomeEvent(id) ==
  [cmd |-> id, session |-> AnySession, start |-> 0, seen |-> 0,
   meaningful |-> TRUE, weight |-> 1, family |-> "other", milestone |-> FALSE]

Handed(at) ==
  [session |-> AnySession, startedAt |-> at, lastEventAt |-> at,
   status |-> "pending_summary", score |-> 0, meaningful |-> 2, count |-> 2,
   attempts |-> 0]

\* A batch becomes pending; `forget --last` may have left it without events.
Arrive(id) ==
  /\ batches[id].status = "absent"
  /\ \E at \in 0..1, evs \in {{}, {SomeEvent(id)}} :
       /\ batches' = CreateBatch(id, Handed(at))
       /\ events' = events \cup {[ev |-> e, batch |-> id] : e \in evs}
  /\ UNCHANGED <<drafts, lastSummary, workerVars>>

\* Processes that take the lock.
LockedNext ==
  \/ \E id \in BatchIds : Arrive(id)
  \/ \E w \in Workers : StartWork(w) \/ Step(w) \/ Abort(w)

\* `now`, without it.
ManualNext ==
  \E m \in Manual :
    \/ StartManual(m, "list") /\ UNCHANGED journalVars
    \/ Step(m)
    \/ Abort(m)

Next == LockedNext \/ ManualNext

Spec == Init /\ [][Next]_vars

LockedSpec == Init /\ [][LockedNext]_vars

\* The timer starts a worker whenever none runs; a started process goes on,
\* and the engine answers or its client gives up (every client has a timeout).
Fairness ==
  /\ WF_vars(\E w \in Workers : StartWork(w))
  /\ \A w \in Workers : WF_vars(Step(w))

FairSpec == LockedSpec /\ Fairness

----------------------------------------------------------------------------
\* Properties

Running(p) == worker[p].pc # "idle"

\* p is between claiming batch id and its last word on it.
WorksOn(p, id) == worker[p].pc \in {"call", "save", "finish"} /\ worker[p].id = id

\* "Lock is a single-instance file lock": only the holder runs, so two
\* processes never go through their copies of the list side by side.
OneInstance ==
  \A p, q \in Summarizers : Running(p) /\ Running(q) => p = q

\* The rows a process holds are the rows of the table, however long ago it
\* read them: writing one back undoes nobody's update.
CopiesFresh ==
  \A p \in Summarizers :
    /\ \A t \in worker[p].todo :
         /\ batches[t[1]] = t[2]
         /\ t[2].status \in {"pending_summary", "failed"}
    /\ worker[p].pc = "claim" =>
         /\ batches[worker[p].id] = worker[p].row
         /\ worker[p].row.status \in {"pending_summary", "failed"}
    /\ worker[p].pc \in {"call", "save", "finish"} =>
         /\ batches[worker[p].id] = worker[p].row
         /\ worker[p].row.status = "summarizing"

\* A batch gets at most one draft, however often processes are started,
\* fail or die.
OneDraftPerBatch ==
  \A d1, d2 \in drafts : d1.batch = d2.batch => d1 = d2

\* A batch that counts as summarized has its draft, written from all of its
\* events.
SummarizedIsDrafted ==
  \A id \in Listed({"summarized"}) :
    \E d \in drafts : d.batch = id /\ d.built = {e.cmd : e \in EventsOf(id)}

\* The engine is asked at most MaxAttempts times for one batch.
AttemptsBounded == \A id \in BatchIds : batches[id].attempts <= MaxAttempts

\* A refused or exhausted batch is left alone for good.
GivenUp(b) == b.status = "failed" /\ b.attempts >= MaxAttempts
GivenUpStays ==
  [][\A id \in BatchIds : GivenUp(batches[id]) => batches'[id] = batches[id]]_batches

\* "has an LLM draft a documentation entry for each batch": a pending batch is
\* drafted, found empty, or given up after its attempts, however workers fail,
\* are refused or die next to it.  The only ones that are not are those a
\* process was summarizing when it died: they stay so.
Resolved(id) ==
  batches[id].status \in {"summarized", "skipped"} \/ GivenUp(batches[id])
Orphaned(id) ==
  batches[id].status = "summarizing" /\ ~\E p \in Summarizers : WorksOn(p, id)
ResolvedUnlessOrphaned ==
  \A id \in BatchIds :
    batches[id].status = "pending_summary" ~> Resolved(id) \/ Orphaned(id)

----------------------------------------------------------------------------
\* The locked workers implement the ledger.

HasDraft(id) == \E d \in drafts : d.batch = id

FateOf(id) ==
  LET b == batches[id] IN
  IF HasDraft(id) THEN "drafted"
  ELSE CASE b.status = "absent" -> "new"
         [] b.status = "pending_summary" -> "waiting"
         [] b.status = "failed" /\ b.attempts < MaxAttempts -> "waiting"
         [] b.status = "summarizing" /\ Orphaned(id) -> "lost"
         [] b.status = "summarizing" /\ ~Orphaned(id) -> "drafting"
         [] OTHER -> "dropped"

Ledger == INSTANCE DraftLedger WITH
  Items <- BatchIds,
  fate <- [id \in BatchIds |-> FateOf(id)],
  tries <- [id \in BatchIds |-> batches[id].attempts]

ImplementsLedger == Ledger!LSpec
=============================================================================
