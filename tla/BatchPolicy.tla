---------------------------- MODULE BatchPolicy ----------------------------
(***************************************************************************)
(* The batch boundaries and triggers of internal/batch/batch.go, as        *)
(* operators on one row of the batches table.  No state lives here: the    *)
(* operators are used by Ingest, where the rows are read and written one   *)
(* SQL statement at a time.  Time is counted in ticks.                     *)
(***************************************************************************)
EXTENDS Integers

CONSTANTS
  Sessions,         \* session ids, one per interactive shell
  IdleGap,          \* Policy.IdleGap
  ScoreThreshold,   \* Policy.ScoreThreshold
  MeaningfulCount,  \* Policy.MeaningfulCount
  Timer,            \* Policy.Timer
  MinInterval,      \* Policy.MinInterval
  Milestones,       \* Policy.Milestones
  MinMeaningful,    \* Policy.MinMeaningful, 2 in policyFrom
  MaxEvents         \* Policy.MaxEvents, 200 in policyFrom

\* config.validate rejects a non-positive idle gap or timer; the two counts
\* are the literals of policyFrom.
ASSUME PolicyAssumption ==
  /\ IdleGap \in Nat \ {0}
  /\ Timer \in Nat \ {0}
  /\ MinInterval \in Int
  /\ ScoreThreshold \in Int
  /\ MeaningfulCount \in Int
  /\ Milestones \in BOOLEAN
  /\ MinMeaningful \in Nat \ {0}
  /\ MaxEvents \in Nat \ {0}

Never == -1  \* no last_summary key yet

----------------------------------------------------------------------------
\* Rows

\* "absent" marks an id no row has had yet, "deleted" one whose row is gone.
LiveStatus == {"open", "pending_summary", "summarizing", "summarized",
               "failed", "skipped"}
NoRow == {"absent", "deleted"}

Batch ==
  [session : Sessions, startedAt : Nat, lastEventAt : Nat,
   status : LiveStatus \cup NoRow, score : Int, meaningful : Nat,
   count : Nat, attempts : Nat]

\* A captured command after redaction and classification.  cmd is its place
\* in the order the shells finished commands, seen the time of ingestion.
Event ==
  [cmd : Nat, session : Sessions, start : Nat, seen : Nat,
   meaningful : BOOLEAN, weight : Nat, family : {"service", "config", "other"},
   milestone : BOOLEAN]

----------------------------------------------------------------------------
\* Observe, in the order of its statements

\* Mutant: the batch starts one idle gap before its first command.
OpenedEarly(ev) ==
  [session |-> ev.session, startedAt |-> ev.start - IdleGap,
   lastEventAt |-> ev.start, status |-> "open", score |-> 0,
   meaningful |-> 0, count |-> 0, attempts |-> 0]

Opened(ev) ==
  [session |-> ev.session, startedAt |-> ev.start, lastEventAt |-> ev.start,
   status |-> "open", score |-> 0, meaningful |-> 0, count |-> 0,
   attempts |-> 0]

IsIdle(b, now) == now - b.lastEventAt > IdleGap

\* Mutant: MaxEvents is off by one.
RotatesLate(b, now) == IsIdle(b, now) \/ b.count > MaxEvents

Rotates(b, now) == IsIdle(b, now) \/ b.count >= MaxEvents

\* Mutants: one less than MinMeaningful is enough; a batch with too little in it
\* is left open.
ClosedIfFewer(b) ==
  [b EXCEPT !.status = IF b.meaningful + 1 >= MinMeaningful
                       THEN "pending_summary" ELSE "skipped"]
ClosedIfPending(b) ==
  [b EXCEPT !.status = IF b.meaningful >= MinMeaningful
                       THEN "pending_summary" ELSE "open"]

Closed(b) ==
  [b EXCEPT !.status = IF b.meaningful >= MinMeaningful
                       THEN "pending_summary" ELSE "skipped"]

\* Mutant: noise counts as work.
CountedNoise(b, ev) ==
  [b EXCEPT !.count = @ + 1, !.lastEventAt = ev.start,
            !.meaningful = @ + 1, !.score = @ + ev.weight]

Counted(b, ev) ==
  [b EXCEPT !.count = @ + 1,
            !.lastEventAt = ev.start,
            !.meaningful = IF ev.meaningful THEN @ + 1 ELSE @,
            !.score = IF ev.meaningful THEN @ + ev.weight ELSE @]

\* firstMeaningful is the earliest stored meaningful event of the batch.
TimerDue(stored, now) ==
  \E e \in stored : e.meaningful /\ now - e.start >= Timer

\* b already counts ev; stored holds the batch's rows of the events table,
\* where ev is not yet.
Triggers(b, ev, stored, now) ==
  /\ b.meaningful >= MinMeaningful
  /\ \/ b.score >= ScoreThreshold
     \/ b.meaningful >= MeaningfulCount
     \/ Milestones /\ ev.milestone /\ b.meaningful >= 2
     \/ /\ ev.family = "service" /\ ev.weight >= 4
        /\ \E e \in stored : e.family = "config"
     \/ TimerDue(stored, now)

CooledDown(last, now) ==
  MinInterval <= 0 \/ last = Never \/ now - last >= MinInterval
=============================================================================
