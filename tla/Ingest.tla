------------------------------- MODULE Ingest -------------------------------
(***************************************************************************)
(* The hook path and everything that closes a batch (internal/cli/ingest,  *)
(* internal/batch).  A shell hook starts `codeument ingest` detached after *)
(* each command, so ingests run next to each other, to an ending session,  *)
(* to `codeument now` and to the timer's tick.  Each of them reads a row,  *)
(* computes on its copy and writes the whole row back in another           *)
(* statement; a step below is one write, with the reads it is decided on.    *)
(***************************************************************************)
EXTENDS Journal

CONSTANTS
  Hooks,        \* ingest processes that may run at one time
  Closers,      \* processes closing batches: session end, now, tick
  Kinds,        \* what they are started as: "end", "now", "tick"
  Commands,     \* what a command may be classified as
  Durations,    \* how long a command may have run, in ticks
  Overlap,      \* whether two ingests of one session may overlap
  Faults,       \* "kill" and "forget", if they may happen in a run
  MaxFaults,    \* bound on how often they do
  MaxCommands,  \* bound on the commands of a run
  MaxTime,      \* bound on the clock
  QuietAfter    \* no command finishes after this time

ASSUME IngestAssumption ==
  /\ Kinds \subseteq {"end", "now", "tick"}
  /\ Overlap \in BOOLEAN
  /\ Faults \subseteq {"kill", "forget"}
  /\ Durations \subseteq Nat
  /\ Commands \subseteq [meaningful : BOOLEAN, weight : Nat,
                         family : {"service", "config", "other"},
                         milestone : BOOLEAN]
  /\ MaxFaults \in Nat /\ MaxCommands \in Nat
  /\ MaxTime \in Nat /\ QuietAfter \in Nat

VARIABLES
  now,     \* wall clock
  ran,     \* commands ingested so far
  faults,  \* kills and forgets so far
  hook,    \* ingest processes
  closer,  \* closing processes
  spawned  \* detached `codeument work` processes not yet running

ingestVars == <<now, ran, faults, hook, closer, spawned>>

NoEvent == [cmd |-> 0, session |-> AnySession, start |-> 0, seen |-> 0,
            meaningful |-> FALSE, weight |-> 0, family |-> "other",
            milestone |-> FALSE]
AnyBatch == CHOOSE id \in BatchIds : TRUE

\* pc is the next statement; id and row are the batch in the process's memory,
\* wake whether a batch became pending on the way.
HookState == [pc : {"idle", "open", "rotate", "create", "decide", "mark",
                    "write", "insert"},
              ev : Event, id : BatchIds, row : Batch, wake : BOOLEAN]
IdleHook == [pc |-> "idle", ev |-> NoEvent, id |-> AnyBatch, row |-> Blank,
             wake |-> FALSE]

\* todo is the list read at the start; more is set while `now --session` may
\* fall back to every open batch.
CloserState == [pc : {"idle", "closing", "marking"},
                kind : {"end", "now", "tick"}, at : Nat, more : BOOLEAN,
                todo : SUBSET (BatchIds \X Batch), session : Sessions]
IdleCloser == [pc |-> "idle", kind |-> "now", at |-> 0, more |-> FALSE,
               todo |-> {}, session |-> AnySession]

IngestTypeOK ==
  /\ JournalTypeOK
  /\ now \in Nat
  /\ ran \in Nat
  /\ faults \in Nat
  /\ spawned \in Nat
  /\ hook \in [Hooks -> HookState]
  /\ DOMAIN closer = Closers
  /\ \A c \in Closers :
       /\ closer[c].pc \in {"idle", "closing", "marking"}
       /\ closer[c].kind \in {"end", "now", "tick"}
       /\ \A t \in closer[c].todo : t[1] \in BatchIds /\ t[2] \in Batch

IngestInit ==
  /\ now = 0
  /\ ran = 0
  /\ faults = 0
  /\ spawned = 0
  /\ hook = [h \in Hooks |-> IdleHook]
  /\ closer = [c \in Closers |-> IdleCloser]

Fault(kind) ==
  /\ kind \in Faults /\ faults < MaxFaults
  /\ faults' = faults + 1

----------------------------------------------------------------------------
\* codeument ingest

Busy(s) == \E h \in Hooks : hook[h].pc # "idle" /\ hook[h].ev.session = s

\* The hook fires: the record is parsed, redacted and classified.
StartIngest(h, s) ==
  /\ hook[h].pc = "idle"
  /\ ran < MaxCommands /\ now <= QuietAfter
  /\ Overlap \/ ~Busy(s)
  /\ \E c \in Commands, d \in Durations :
       /\ d <= now
       /\ hook' = [hook EXCEPT ![h] =
            [IdleHook EXCEPT !.pc = "open",
               !.ev = [cmd |-> ran + 1, session |-> s, start |-> now - d,
                       seen |-> now, meaningful |-> c.meaningful,
                       weight |-> c.weight, family |-> c.family,
                       milestone |-> c.milestone]]]
  /\ ran' = ran + 1
  /\ UNCHANGED <<now, faults, closer, spawned, journalVars>>

\* SELECT the session's open batch.
ReadOpen(h) ==
  /\ hook[h].pc = "open"
  /\ \/ /\ OpenOf(hook[h].ev.session) = {}
        /\ hook' = [hook EXCEPT ![h].pc = "create"]
     \/ \E id \in NewestOpen(hook[h].ev.session) :
          hook' = [hook EXCEPT ![h].id = id, ![h].row = batches[id],
                     ![h].pc = IF Rotates(batches[id], hook[h].ev.seen)
                               THEN "rotate" ELSE "decide"]
  /\ UNCHANGED <<now, ran, faults, closer, spawned, journalVars>>

\* Close the batch that is idle or full.
Rotate(h) ==
  /\ hook[h].pc = "rotate"
  /\ batches' = UpdateBatch(hook[h].id, Closed(hook[h].row))
  /\ hook' = [hook EXCEPT ![h].pc = "create",
                          ![h].wake = Closed(hook[h].row).status = "pending_summary"]
  /\ UNCHANGED <<now, ran, faults, closer, spawned, events, drafts, lastSummary>>

\* INSERT a batch, with no event counted yet.
Create(h) ==
  /\ hook[h].pc = "create"
  /\ FreshIds # {}
  /\ batches' = CreateBatch(NewId, Opened(hook[h].ev))
  /\ hook' = [hook EXCEPT ![h].id = NewId, ![h].row = Opened(hook[h].ev),
                          ![h].pc = "decide"]
  /\ UNCHANGED <<now, ran, faults, closer, spawned, events, drafts, lastSummary>>

\* Count the event in memory and read what the triggers need.
Decide(h) ==
  LET ev == hook[h].ev
      row == Counted(hook[h].row, ev)
      fires == /\ Triggers(row, ev, EventsOf(hook[h].id), ev.seen)
               /\ CooledDown(lastSummary[ev.session], ev.seen)
  IN /\ hook[h].pc = "decide"
     /\ hook' = [hook EXCEPT
          ![h].row = [row EXCEPT !.status = IF fires THEN "pending_summary" ELSE @],
          ![h].wake = @ \/ fires,
          ![h].pc = IF fires THEN "mark" ELSE "write"]
     /\ UNCHANGED <<now, ran, faults, closer, spawned, journalVars>>

\* SetKV last_summary.
Mark(h) ==
  /\ hook[h].pc = "mark"
  /\ lastSummary' = [lastSummary EXCEPT ![hook[h].ev.session] = hook[h].ev.seen]
  /\ hook' = [hook EXCEPT ![h].pc = "write"]
  /\ UNCHANGED <<now, ran, faults, closer, spawned, batches, events, drafts>>

\* UPDATE the whole row from memory.
Write(h) ==
  /\ hook[h].pc = "write"
  /\ batches' = UpdateBatch(hook[h].id, hook[h].row)
  /\ hook' = [hook EXCEPT ![h].pc = "insert"]
  /\ UNCHANGED <<now, ran, faults, closer, spawned, events, drafts, lastSummary>>

\* INSERT the event, then spawn a worker if a batch became pending.
Insert(h) ==
  /\ hook[h].pc = "insert"
  /\ events' = events \cup {[ev |-> hook[h].ev, batch |-> hook[h].id]}
  /\ spawned' = IF hook[h].wake THEN spawned + 1 ELSE spawned
  /\ hook' = [hook EXCEPT ![h] = IdleHook]
  /\ UNCHANGED <<now, ran, faults, closer, batches, drafts, lastSummary>>

\* The ten second timer of an ingest, a statement that fails, a crash.
KillIngest(h) ==
  /\ Fault("kill")
  /\ hook[h].pc # "idle"
  /\ hook' = [hook EXCEPT ![h] = IdleHook]
  /\ UNCHANGED <<now, ran, closer, spawned, journalVars>>

HookStep(h) ==
  \/ ReadOpen(h) \/ Rotate(h) \/ Create(h) \/ Decide(h) \/ Mark(h)
  \/ Write(h) \/ Insert(h)

----------------------------------------------------------------------------
\* Session end, `codeument now`, the tick

Rows(ids) == {<<id, batches[id]>> : id \in ids}

Start(c, kind, s, ids, more) ==
  /\ closer[c].pc = "idle"
  /\ kind \in Kinds
  /\ closer' = [closer EXCEPT ![c] =
       [pc |-> "closing", kind |-> kind, at |-> now, more |-> more,
        todo |-> Rows(ids), session |-> s]]
  /\ UNCHANGED <<now, ran, faults, hook, spawned, journalVars>>

\* ingest --session-end: the session's open batch.  Its commands may go on:
\* CODEUMENT_SESSION is exported, so nested shells share it and each one's
\* exit ends it.
EndSession(c, s) ==
  \/ \E id \in NewestOpen(s) : Start(c, "end", s, {id}, FALSE)
  \/ OpenOf(s) = {} /\ Start(c, "end", s, {}, FALSE)

\* now: CloseAll on this shell's open batches, or on every one (--all).
StartNow(c, s) ==
  \/ Start(c, "now", s, OpenOf(s), TRUE)
  \/ Start(c, "now", s, Listed({"open"}), FALSE)

\* tick: CloseStale.
StartStale(c) == Start(c, "tick", AnySession, Listed({"open"}), FALSE)

\* CloseStale closes an idle batch, or one whose timer is due.
StaleTimer(t, at) ==
  /\ ~IsIdle(t[2], at)
  /\ t[2].meaningful >= MinMeaningful
  /\ TimerDue(EventsOf(t[1]), at)
  /\ CooledDown(lastSummary[t[2].session], at)

\* Mutant: the tick forgets batches that are merely idle.
ClosesOnTimer(kind, t, at) == kind = "tick" => StaleTimer(t, at)

Closes(kind, t, at) ==
  kind = "tick" => IsIdle(t[2], at) \/ StaleTimer(t, at)

\* Oldest batch first: Close writes the row read at the start, closed.
CloseNext(c) ==
  /\ closer[c].pc = "closing"
  /\ \E t \in closer[c].todo :
       LET kind == closer[c].kind
           at == closer[c].at
           closes == Closes(kind, t, at)
       IN /\ \A u \in closer[c].todo : t[2].startedAt <= u[2].startedAt
          /\ batches' = IF closes THEN UpdateBatch(t[1], Closed(t[2])) ELSE batches
          /\ closer' = [closer EXCEPT
               ![c].todo = @ \ {t},
               ![c].more = @ /\ Closed(t[2]).status # "pending_summary",
               ![c].session = t[2].session,
               ![c].pc = IF kind = "tick" /\ StaleTimer(t, at) THEN "marking" ELSE @]
          /\ spawned' = IF kind = "end" /\ Closed(t[2]).status = "pending_summary"
                        THEN spawned + 1 ELSE spawned
  /\ UNCHANGED <<now, ran, faults, hook, events, drafts, lastSummary>>

\* SetKV last_summary after a timer close.
CloserMark(c) ==
  /\ closer[c].pc = "marking"
  /\ lastSummary' = [lastSummary EXCEPT ![closer[c].session] = closer[c].at]
  /\ closer' = [closer EXCEPT ![c].pc = "closing"]
  /\ UNCHANGED <<now, ran, faults, hook, spawned, batches, events, drafts>>

\* `now` with nothing pending in this shell lists every open batch instead.
FallBack(c) ==
  /\ closer[c].pc = "closing" /\ closer[c].todo = {} /\ closer[c].more
  /\ closer' = [closer EXCEPT ![c].more = FALSE, ![c].todo = Rows(Listed({"open"}))]
  /\ UNCHANGED <<now, ran, faults, hook, spawned, journalVars>>

FinishClosing(c) ==
  /\ closer[c].pc = "closing" /\ closer[c].todo = {} /\ ~closer[c].more
  /\ closer' = [closer EXCEPT ![c] = IdleCloser]
  /\ UNCHANGED <<now, ran, faults, hook, spawned, journalVars>>

KillCloser(c) ==
  /\ Fault("kill")
  /\ closer[c].pc # "idle"
  /\ closer' = [closer EXCEPT ![c] = IdleCloser]
  /\ UNCHANGED <<now, ran, hook, spawned, journalVars>>

CloserStep(c) == CloseNext(c) \/ CloserMark(c) \/ FallBack(c) \/ FinishClosing(c)

\* The timer starts a tick whenever none is running.
TickDue(c) == "tick" \in Kinds /\ StartStale(c)

Clock ==
  /\ now < MaxTime
  /\ now' = now + 1
  /\ UNCHANGED <<ran, faults, hook, closer, spawned, journalVars>>

----------------------------------------------------------------------------
\* forget and pruning

ForgetSession(s) == DeleteEvents({r \in events : r.ev.session = s})
ForgetSince(t) == DeleteEvents({r \in events : r.ev.start >= t})

Forget ==
  /\ Fault("forget")
  /\ \/ \E s \in Sessions : ForgetSession(s)
     \/ \E t \in 1..now : ForgetSince(t)
     \/ \E n \in 1..2 : DeleteLastEvents(n)
  /\ UNCHANGED <<now, ran, hook, closer, spawned>>

----------------------------------------------------------------------------
\* Specification

vars == <<journalVars, ingestVars>>

Init == JournalInit /\ IngestInit

HookNext ==
  \E h \in Hooks :
    \/ \E s \in Sessions : StartIngest(h, s)
    \/ HookStep(h)
    \/ KillIngest(h)

CloserNext ==
  \E c \in Closers :
    \/ "end" \in Kinds /\ \E s \in Sessions : EndSession(c, s)
    \/ "now" \in Kinds /\ \E s \in Sessions : StartNow(c, s)
    \/ TickDue(c)
    \/ CloserStep(c)
    \/ KillCloser(c)

Next == HookNext \/ CloserNext \/ Clock \/ Forget

Spec == Init /\ [][Next]_vars

----------------------------------------------------------------------------
\* Properties

\* Events of batch id that are stored, or counted in its row and about to be.
InFlight(id) == {hook[h].ev : h \in {g \in Hooks : hook[g].pc = "insert" /\ hook[g].id = id}}
Attributed(id) == EventsOf(id) \cup InFlight(id)

\* A session has at most one open batch: Observe and Close would each work on
\* the newest and leave another open for good.
OneOpenBatch == \A s \in Sessions : Cardinality(OpenOf(s)) <= 1

\* The counters triggers are decided on are those of the stored events, while
\* the batch is open and no process died or event was forgotten.
OpenCountersExact ==
  faults = 0 => \A id \in Listed({"open"}) :
    /\ batches[id].count = Cardinality(Attributed(id))
    /\ batches[id].meaningful = Cardinality(MeaningfulIn(Attributed(id)))

\* Whatever writes are lost, a batch is never credited with work that was not
\* recorded: what is handed to the summarizer holds enough meaningful work.
PendingHoldsWork ==
  faults = 0 => \A id \in Listed({"pending_summary"}) :
    Cardinality(MeaningfulIn(Attributed(id))) >= MinMeaningful

\* "MaxEvents splits a batch that grows past this size."
SizeBound ==
  faults = 0 => \A id \in BatchIds : Cardinality(EventsOf(id)) <= MaxEvents
=============================================================================
