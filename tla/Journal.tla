------------------------------ MODULE Journal ------------------------------
(***************************************************************************)
(* The tables of internal/journal/store.go that batching and summarizing   *)
(* share.  Every codeument process opens the same SQLite file; a statement *)
(* is atomic, a transaction is one step, and nothing else is.  The         *)
(* operators below are the statements, as functions from rows to rows.     *)
(***************************************************************************)
EXTENDS BatchPolicy, FiniteSets, FiniteSetsExt

CONSTANTS
  BatchIds,   \* uuids a run may hand out
  AnySession  \* a session, the value of columns no row has set

ASSUME JournalAssumption == AnySession \in Sessions /\ BatchIds # {}

VARIABLES
  batches,     \* batches table, by id
  events,      \* events table: a set of Stored rows
  drafts,      \* drafts table: a set of Draft rows
  lastSummary  \* the kv rows last_summary:<session>

journalVars == <<batches, events, drafts, lastSummary>>

Stored == [ev : Event, batch : BatchIds]

\* built: the commands the draft was written from.
Draft == [id : Nat, batch : BatchIds, built : SUBSET Nat,
          status : {"draft", "stale"}]

Blank == [session |-> AnySession, startedAt |-> 0, lastEventAt |-> 0,
          status |-> "absent", score |-> 0, meaningful |-> 0, count |-> 0,
          attempts |-> 0]

JournalTypeOK ==
  /\ batches \in [BatchIds -> Batch]
  /\ events \subseteq Stored
  /\ drafts \subseteq Draft
  /\ lastSummary \in [Sessions -> Nat \cup {Never}]

JournalInit ==
  /\ batches = [id \in BatchIds |-> Blank]
  /\ events = {}
  /\ drafts = {}
  /\ lastSummary = [s \in Sessions |-> Never]

----------------------------------------------------------------------------
\* Queries

Listed(statuses) == {id \in BatchIds : batches[id].status \in statuses}

OpenOf(s) == {id \in Listed({"open"}) : batches[id].session = s}

\* OpenBatch: ORDER BY started_at DESC LIMIT 1, ties in any order.
NewestOpen(s) ==
  {id \in OpenOf(s) :
     \A other \in OpenOf(s) : batches[other].startedAt <= batches[id].startedAt}

EventsOf(id) == {e.ev : e \in {r \in events : r.batch = id}}

MeaningfulIn(evs) == {e \in evs : e.meaningful}

\* uuid.New: an id never handed out before.
FreshIds == {id \in BatchIds : batches[id].status = "absent"}
NewId == CHOOSE id \in BatchIds : batches[id].status = "absent"

----------------------------------------------------------------------------
\* Statements

\* UPDATE ... WHERE id: every mutable column at once, nothing if the row is
\* gone.
UpdateBatch(id, b) ==
  IF batches[id].status \in NoRow THEN batches
  ELSE [batches EXCEPT ![id] = b]

CreateBatch(id, b) == [batches EXCEPT ![id] = b]

\* The counters of every batch are computed again, over all of its events,
\* and an empty batch that nothing was made of is deleted.
Recounted(id, left) ==
  LET b == batches[id]
      evs == {r.ev : r \in {x \in left : x.batch = id}}
  IN IF b.status \in NoRow THEN b
     ELSE IF evs = {} /\ b.status \in {"open", "pending_summary", "skipped"}
     THEN [Blank EXCEPT !.status = "deleted"]
     ELSE [b EXCEPT !.count = Cardinality(evs),
                    !.meaningful = Cardinality(MeaningfulIn(evs)),
                    !.score = MapThenSumSet(LAMBDA e : e.weight, evs)]

\* UPDATE drafts SET status='stale'; accepted drafts are not told from others.
Staled(ids) ==
  {IF d.batch \in ids THEN [d EXCEPT !.status = "stale"] ELSE d : d \in drafts}

\* forget --session, forget --since: one transaction.
DeleteEvents(gone) ==
  /\ drafts' = Staled({r.batch : r \in gone})
  /\ events' = events \ gone
  /\ batches' = [id \in BatchIds |-> Recounted(id, events \ gone)]
  /\ UNCHANGED lastSummary

\* The n most recent events, ties in any order.
LastEvents(n) ==
  {gone \in SUBSET events :
     /\ Cardinality(gone) = n
     /\ \A r \in gone, kept \in events \ gone : kept.ev.start <= r.ev.start}

\* The n most recent distinct batches, which may be more than the n most
\* recent events belong to.
LastBatches(n) ==
  LET latest(id) == Max({e.start : e \in EventsOf(id)})
      ids == {r.batch : r \in events}
  IN {recent \in SUBSET ids :
        /\ Cardinality(recent) = Min({n, Cardinality(ids)})
        /\ \A id \in recent, other \in ids \ recent : latest(other) <= latest(id)}

\* forget --last n: one transaction; no counter is computed again.
DeleteLastEvents(n) ==
  /\ \E recent \in LastBatches(n) : drafts' = Staled(recent)
  /\ \E gone \in LastEvents(Min({n, Cardinality(events)})) : events' = events \ gone
  /\ UNCHANGED <<batches, lastSummary>>

\* Events of batches that are not open, pending or being summarized go when
\* they are older than the cutoff.
PruneEvents(cutoff) ==
  /\ events' = {r \in events :
                  \/ r.ev.start >= cutoff
                  \/ batches[r.batch].status \in {"open", "pending_summary", "summarizing"}}
  /\ UNCHANGED <<batches, drafts, lastSummary>>
=============================================================================
