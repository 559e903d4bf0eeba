----------------------------- MODULE Publishing -----------------------------
(***************************************************************************)
(* Drafts on their way to a page (internal/worker Publish and RetryQueue,  *)
(* internal/tui, `codeument drafts`).  The review screen keeps the records *)
(* it loaded and saves them whole; a command reads one record, works on it *)
(* and saves it whole; the timer's tick, of which the worker's lock allows *)
(* one, retries what could not be published.  The docs platform is behind  *)
(* engine.Engine: a page is read and written whole, by document id.        *)
(***************************************************************************)
EXTENDS Integers, FiniteSets, SequencesExt

CONSTANTS
  Drafts,      \* drafts already summarized
  MaxDocs,     \* bound on document ids
  Screens,     \* `codeument review` processes
  Clis,        \* `codeument drafts` processes
  Ticks,       \* the tick, if one runs
  Keys,        \* the screen's keys the user presses
  MaxOps,      \* bound on keys pressed and commands started
  MaxEdits,    \* bound on texts written after the first
  MaxFaults    \* bound on requests that fail, kills and forgets

ASSUME PublishingAssumption ==
  /\ MaxDocs \in Nat \ {0} /\ MaxOps \in Nat /\ MaxEdits \in Nat /\ MaxFaults \in Nat
  /\ Keys \subseteq {"a", "d", "p", "e", "r", "m"}
  /\ Drafts # {}
  /\ Cardinality(Ticks) <= 1 /\ Screens \cap Ticks = {}

VARIABLES
  stored,     \* drafts table
  forgotten,  \* drafts whose batch has no events any more
  pages,      \* the platform: a page's sections by document id, <<>> if none
  docPages,   \* doc_pages: ids of documents published from here
  queue,      \* publish_queue
  queued,     \* its last autoincrement id
  proc,       \* the operation each process is in
  screen,     \* what each review screen has in memory
  todo,       \* the items a tick has read
  minted,     \* document ids handed out
  ops, edits, faults  \* what the bounds count

vars == <<stored, forgotten, pages, docPages, queue, queued, proc, screen,
          todo, minted, ops, edits, faults>>

NoDoc == 0
Docs == 1..MaxDocs

\* DraftRecord: text stands for title and body, ref for page_ref.
Record == [status : {"draft", "accepted", "dismissed", "published", "stale"},
           doc : Docs \cup {NoDoc}, text : 0..MaxEdits, ref : Docs \cup {NoDoc}]
NewDraft == [status |-> "draft", doc |-> NoDoc, text |-> 0, ref |-> NoDoc]

\* The part of a page that one publish wrote; marked while the draft's id is in
\* it.  The drafts a page holds, and those Publish finds on it.
Section == [draft : Drafts, text : 0..MaxEdits, marked : BOOLEAN]
Holds(page) == {section.draft : section \in Range(page)}
On(page) == {section.draft : section \in {x \in Range(page) : x.marked}}

Item == [id : 1..MaxOps, draft : Drafts, due : BOOLEAN]

SomeDraft == CHOOSE d \in Drafts : TRUE

Processes == Screens \cup Clis \cup Ticks

\* pc is the next statement or request, rec the record in memory (kept when
\* the operation is over: reviewModel.current), seen the page as it was read,
\* item the queue item a tick is on.
Operation ==
  [pc : {"idle", "save", "ask", "accept", "look", "put", "record", "map",
         "fail", "drop"},
   draft : Drafts, rec : Record, seen : SeqOf(Section, MaxOps), item : 0..MaxOps]
Idle == [pc |-> "idle", draft |-> SomeDraft, rec |-> NewDraft, seen |-> <<>>,
         item |-> 0]

\* list is the rows the screen shows, docs the documents it offers to merge
\* into, detail whether one draft is open on it.
Closed == [open |-> FALSE, list |-> [d \in {} |-> NewDraft], docs |-> {},
           detail |-> FALSE]

PublishingTypeOK ==
  /\ stored \in [Drafts -> Record]
  /\ forgotten \subseteq Drafts
  /\ \A doc \in Docs : Range(pages[doc]) \subseteq Section
  /\ docPages \subseteq Docs
  /\ queue \subseteq Item /\ queued \in 0..MaxOps
  /\ \A p \in Processes :
       /\ proc[p].rec \in Record
       /\ Range(proc[p].seen) \subseteq Section
       /\ [proc[p] EXCEPT !.seen = <<>>] \in Operation
  /\ \A s \in Screens : \A d \in DOMAIN screen[s].list : screen[s].list[d] \in Record
  /\ \A t \in Ticks : todo[t] \subseteq Item
  /\ minted \in 0..MaxDocs
  /\ ops \in 0..MaxOps /\ edits \in 0..MaxEdits /\ faults \in 0..MaxFaults

\* Some drafts may be out already, the other ones may have been summarized with
\* one of their documents as the related one.
Init ==
  /\ \E out \in {{}, {SomeDraft}} :
       /\ pages = [doc \in Docs |-> IF doc = 1 /\ out # {}
                                   THEN <<[draft |-> SomeDraft, text |-> 0, marked |-> TRUE]>> ELSE <<>>]
       /\ docPages = {doc \in {1} : out # {}}
       /\ minted = Cardinality(out)
       /\ \E related \in docPages \cup {NoDoc} :
            stored = [d \in Drafts |->
              IF d \in out THEN [status |-> "published", doc |-> 1, text |-> 0, ref |-> 1]
                           ELSE [NewDraft EXCEPT !.doc = related]]
  /\ forgotten = {}
  /\ queue = {} /\ queued = 0
  /\ proc = [p \in Processes |-> Idle]
  /\ screen = [s \in Screens |-> Closed]
  /\ todo = [t \in Ticks |-> {}]
  /\ ops = 0 /\ edits = 0 /\ faults = 0

----------------------------------------------------------------------------
\* What can be done with a draft: process p, on the record rec it has of d

Begin(p, d, pc, rec) ==
  proc' = [proc EXCEPT ![p] = [Idle EXCEPT !.pc = pc, !.draft = d, !.rec = rec]]

\* Mutant: Accept gives every draft a new document.
MintAlways(rec) == minted' = minted + 1

\* Worker.Accept gives a draft without a document a new one.
Mint(rec) ==
  IF rec.doc = NoDoc THEN minted < MaxDocs /\ minted' = minted + 1
                     ELSE UNCHANGED minted

Accepted(rec) ==
  [rec EXCEPT !.status = "accepted", !.doc = IF @ = NoDoc THEN minted + 1 ELSE @]

Accept(p, d, rec) ==
  /\ Mint(rec)
  /\ Begin(p, d, "save", Accepted(rec))
  /\ UNCHANGED edits

Dismiss(p, d, rec) ==
  /\ Begin(p, d, "save", [rec EXCEPT !.status = "dismissed"])
  /\ UNCHANGED <<minted, edits>>

\* Worker.Publish: accepts first unless that, or publishing, has happened.
Publish(p, d, rec) ==
  \/ /\ rec.status \in {"accepted", "published"}
     /\ Begin(p, d, "look", rec)
     /\ UNCHANGED <<minted, edits>>
  \/ /\ rec.status \notin {"accepted", "published"}
     /\ Mint(rec)
     /\ Begin(p, d, "accept", Accepted(rec))
     /\ UNCHANGED edits

\* ApplyEditedMarkdown: another text; the header's document id may go.
Edit(p, d, rec) ==
  /\ edits < MaxEdits
  /\ \E doc \in {rec.doc, NoDoc} :
       Begin(p, d, "save", [rec EXCEPT !.text = edits + 1, !.doc = doc])
  /\ edits' = edits + 1
  /\ UNCHANGED minted

\* The screen's "merge into": a document chosen from those it knows.
Merge(p, d, rec, docs) ==
  /\ \E doc \in docs : Begin(p, d, "save", [rec EXCEPT !.doc = doc])
  /\ UNCHANGED <<minted, edits>>

\* Regenerate needs the batch's events.
Regenerate(p, d, rec) ==
  /\ d \notin forgotten
  /\ Begin(p, d, "ask", rec)
  /\ UNCHANGED <<minted, edits>>

----------------------------------------------------------------------------
\* The review screen

\* RecentDocTitles: the documents of accepted and published drafts.
RecentDocs ==
  {stored[d].doc : d \in {e \in Drafts : stored[e].status \in {"accepted", "published"}}}

\* ListDrafts (draft and accepted, or with --all all); knownDocs.
OpenScreen(s) ==
  /\ ~screen[s].open
  /\ \E statuses \in {{"draft", "accepted"}, {r.status : r \in Record}} :
       LET shown == {d \in Drafts : stored[d].status \in statuses}
       IN /\ shown # {}
          /\ screen' = [screen EXCEPT ![s] =
               [open |-> TRUE, list |-> [d \in shown |-> stored[d]], detail |-> FALSE,
                docs |-> docPages \cup (RecentDocs \ {NoDoc})]]
  /\ UNCHANGED <<stored, forgotten, pages, docPages, queue, queued, proc, todo,
                 minted, ops, edits, faults>>

CloseScreen(s) ==
  /\ screen[s].open /\ proc[s].pc = "idle"
  /\ screen' = [screen EXCEPT ![s] = Closed]
  /\ proc' = [proc EXCEPT ![s] = Idle]
  /\ UNCHANGED <<stored, forgotten, pages, docPages, queue, queued, todo, minted,
                 ops, edits, faults>>

\* A row of the list, or the draft that is open as the screen still has it.
OnHand(s, d) ==
  {screen[s].list[d]}
    \cup (IF screen[s].detail /\ proc[s].draft = d THEN {proc[s].rec} ELSE {})

\* What a key does.  A draft is then open on the screen (detail) or not: a
\* confirmation returns to the list, an instruction or a merge to the draft.
Key(s, k, detail, d, rec) ==
  \/ k = "a" /\ Accept(s, d, rec)
  \/ k = "d" /\ ~detail /\ Dismiss(s, d, rec)
  \/ k = "p" /\ Publish(s, d, rec)
  \/ k = "e" /\ Edit(s, d, rec)
  \/ k = "r" /\ detail /\ Regenerate(s, d, rec)
  \/ k = "m" /\ detail /\ Merge(s, d, rec, screen[s].docs)

Press(s) ==
  /\ screen[s].open /\ proc[s].pc = "idle" /\ ops < MaxOps
  /\ \E d \in DOMAIN screen[s].list, detail \in BOOLEAN :
       /\ \E rec \in OnHand(s, d), k \in Keys : Key(s, k, detail, d, rec)
       /\ screen' = [screen EXCEPT ![s].detail = detail]
  /\ ops' = ops + 1
  /\ UNCHANGED <<stored, forgotten, pages, docPages, queue, queued, todo, faults>>

----------------------------------------------------------------------------
\* codeument drafts accept, dismiss, publish, update

Command(c) ==
  /\ proc[c].pc = "idle" /\ ops < MaxOps
  /\ \E d \in Drafts :
       \/ Accept(c, d, stored[d])
       \/ Dismiss(c, d, stored[d])
       \/ Publish(c, d, stored[d])
       \/ Edit(c, d, stored[d])
  /\ ops' = ops + 1
  /\ UNCHANGED <<stored, forgotten, pages, docPages, queue, queued, screen, todo,
                 faults>>

----------------------------------------------------------------------------
\* The statements of an operation

\* What a process keeps of an operation that is over.
AtRest(p) ==
  IF p \in Screens THEN [Idle EXCEPT !.draft = proc[p].draft, !.rec = proc[p].rec] ELSE Idle

\* How an operation that went well ends: the screen replaces its row, a tick
\* takes the item off the queue.
Done(p) ==
  /\ proc' = [proc EXCEPT ![p] = IF p \in Ticks THEN [Idle EXCEPT !.pc = "drop", !.item = proc[p].item]
                                 ELSE AtRest(p)]
  /\ screen' = IF p \in Screens
               THEN [screen EXCEPT ![p].list[proc[p].draft] = proc[p].rec]
               ELSE screen

SaveRecord(p, rec) == stored' = [stored EXCEPT ![proc[p].draft] = rec]

\* SaveDraft: every column of the record in memory.
Save(p) ==
  /\ proc[p].pc = "save"
  /\ SaveRecord(p, proc[p].rec)
  /\ Done(p)
  /\ UNCHANGED <<forgotten, pages, docPages, queue, queued, todo, minted, ops,
                 edits, faults>>

\* The engine writes the draft anew, or fails; the record is a draft again.
Ask(p) ==
  /\ proc[p].pc = "ask"
  /\ \/ /\ edits < MaxEdits
        /\ edits' = edits + 1
        /\ proc' = [proc EXCEPT ![p].pc = "save", ![p].rec.text = edits + 1,
                                ![p].rec.status = "draft"]
     \/ proc' = [proc EXCEPT ![p] = AtRest(p)] /\ UNCHANGED edits
  /\ UNCHANGED <<stored, forgotten, pages, docPages, queue, queued, screen, todo,
                 minted, ops, faults>>

AcceptFirst(p) ==
  /\ proc[p].pc = "accept"
  /\ SaveRecord(p, proc[p].rec)
  /\ proc' = [proc EXCEPT ![p].pc = "look"]
  /\ UNCHANGED <<forgotten, pages, docPages, queue, queued, screen, todo, minted,
                 ops, edits, faults>>

Page(doc) == IF doc = NoDoc THEN <<>> ELSE pages[doc]

\* What Confluence's Get returns of a page whose property it could not read: the
\* stored text, in which no comment is left.
Unmarked(page) == [i \in DOMAIN page |-> [page[i] EXCEPT !.marked = FALSE]]

\* FindDoc and GetDoc: an error counts as no page.
Look(p) ==
  LET page == Page(proc[p].rec.doc)
      read(seen) == proc' = [proc EXCEPT ![p].pc = "put", ![p].seen = seen]
  IN /\ proc[p].pc = "look"
     /\ \/ read(page) /\ UNCHANGED faults
        \/ /\ faults < MaxFaults /\ faults' = faults + 1
           /\ read(<<>>) \/ read(Unmarked(page))
     /\ UNCHANGED <<stored, forgotten, pages, docPages, queue, queued, screen, todo,
                    minted, ops, edits>>

\* Mutants: the draft is appended to a page that has it; it replaces the page.
PageAppended(seen, section) == Append(seen, section)
PageReplaced(seen, section) == <<section>>

\* A section at the end of a page that lacks the draft, or a page of its own.
PageWith(seen, section) ==
  IF seen # <<>> /\ section.draft \notin On(seen) THEN Append(seen, section)
                                                  ELSE <<section>>

\* Mutant: the record in memory says published before the page is.
FailsPublished(p) ==
  proc' = [proc EXCEPT ![p] =
    IF p \in Clis THEN Idle
    ELSE [@ EXCEPT !.pc = "fail", !.seen = <<>>, !.rec.status = "published"]]

\* A command just returns the error.
Fails(p) ==
  proc' = [proc EXCEPT ![p] =
    IF p \in Clis THEN Idle ELSE [@ EXCEPT !.pc = "fail", !.seen = <<>>]]

\* Engine.Publish.  It may fail before the page is written, or its answer may
\* be lost after; without a document id it fails.
Put(p) ==
  LET rec == proc[p].rec
      page == PageWith(proc[p].seen,
                       [draft |-> proc[p].draft, text |-> rec.text, marked |-> TRUE])
  IN /\ proc[p].pc = "put"
     /\ \/ rec.doc = NoDoc /\ Fails(p) /\ UNCHANGED <<pages, faults>>
        \/ /\ rec.doc # NoDoc
           /\ pages' = [pages EXCEPT ![rec.doc] = page]
           /\ proc' = [proc EXCEPT ![p] =
                [@ EXCEPT !.pc = "record", !.seen = <<>>,
                          !.rec = [rec EXCEPT !.status = "published", !.ref = rec.doc]]]
           /\ UNCHANGED faults
        \/ /\ rec.doc # NoDoc /\ faults < MaxFaults
           /\ faults' = faults + 1
           /\ pages' \in {pages, [pages EXCEPT ![rec.doc] = page]}
           /\ Fails(p)
     /\ UNCHANGED <<stored, forgotten, docPages, queue, queued, screen, todo, minted,
                    ops, edits>>

RecordPublished(p) ==
  /\ proc[p].pc = "record"
  /\ SaveRecord(p, proc[p].rec)
  /\ proc' = [proc EXCEPT ![p].pc = "map"]
  /\ UNCHANGED <<forgotten, pages, docPages, queue, queued, screen, todo, minted,
                 ops, edits, faults>>

\* SaveDocPage.
MapPage(p) ==
  /\ proc[p].pc = "map"
  /\ docPages' = docPages \cup {proc[p].rec.doc}
  /\ Done(p)
  /\ UNCHANGED <<stored, forgotten, pages, queue, queued, todo, minted, ops, edits,
                 faults>>

\* The screen queues a publish that failed; the row it shows stays as it was.
QueuePublish(s) ==
  /\ proc[s].pc = "fail"
  /\ queued' = queued + 1
  /\ queue' = queue \cup {[id |-> queued + 1, draft |-> proc[s].draft, due |-> FALSE]}
  /\ proc' = [proc EXCEPT ![s] = AtRest(s)]
  /\ UNCHANGED <<stored, forgotten, pages, docPages, screen, todo, minted, ops,
                 edits, faults>>

----------------------------------------------------------------------------
\* RetryQueue

\* Five minutes, then twice as long after each failure up to 2^6 times.
TimePasses ==
  /\ \E i \in queue : ~i.due /\ queue' = (queue \ {i}) \cup {[i EXCEPT !.due = TRUE]}
  /\ UNCHANGED <<stored, forgotten, pages, docPages, queued, proc, screen, todo,
                 minted, ops, edits, faults>>

DueQueue(t) ==
  /\ proc[t].pc = "idle" /\ todo[t] = {}
  /\ {i \in queue : i.due} # {}
  /\ todo' = [todo EXCEPT ![t] = {i \in queue : i.due}]
  /\ UNCHANGED <<stored, forgotten, pages, docPages, queue, queued, proc, screen,
                 minted, ops, edits, faults>>

\* A draft that was dismissed or published meanwhile is only taken off.
Settles(status) == status \in {"dismissed", "published"}

\* The oldest item: its draft is read again.
TakeItem(t) ==
  /\ proc[t].pc = "idle"
  /\ \E i \in todo[t] :
       LET rec == stored[i.draft]
           go(pc, r) == proc' = [proc EXCEPT ![t] =
             [Idle EXCEPT !.pc = pc, !.draft = i.draft, !.rec = r, !.item = i.id]]
       IN /\ \A j \in todo[t] : i.id <= j.id
          /\ todo' = [todo EXCEPT ![t] = @ \ {i}]
          /\ \/ Settles(rec.status) /\ go("drop", rec) /\ UNCHANGED minted
             \/ ~Settles(rec.status) /\ rec.status = "accepted" /\ go("look", rec)
                /\ UNCHANGED minted
             \/ /\ ~Settles(rec.status) /\ rec.status # "accepted"
                /\ Mint(rec)
                /\ go("accept", Accepted(rec))
  /\ UNCHANGED <<stored, forgotten, pages, docPages, queue, queued, screen, ops,
                 edits, faults>>

\* Mutant: an item is given up after one more failure.
RequeueNever(t) ==
  /\ proc[t].pc = "fail"
  /\ queue' = {i \in queue : i.id # proc[t].item}
  /\ proc' = [proc EXCEPT ![t] = Idle]
  /\ UNCHANGED <<stored, forgotten, pages, docPages, queued, screen, todo, minted,
                 ops, edits, faults>>

Requeue(t) ==
  /\ proc[t].pc = "fail"
  /\ queue' = {IF i.id = proc[t].item THEN [i EXCEPT !.due = FALSE] ELSE i : i \in queue}
  /\ proc' = [proc EXCEPT ![t] = Idle]
  /\ UNCHANGED <<stored, forgotten, pages, docPages, queued, screen, todo, minted,
                 ops, edits, faults>>

Dequeue(t) ==
  /\ proc[t].pc = "drop"
  /\ queue' = {i \in queue : i.id # proc[t].item}
  /\ proc' = [proc EXCEPT ![t] = Idle]
  /\ UNCHANGED <<stored, forgotten, pages, docPages, queued, screen, todo, minted,
                 ops, edits, faults>>

----------------------------------------------------------------------------
\* What comes from outside

\* forget: the events of d's batch go, and it is stale unless it is out.
Forget(d) ==
  /\ faults < MaxFaults /\ faults' = faults + 1
  /\ d \notin forgotten /\ forgotten' = forgotten \cup {d}
  /\ stored' = [stored EXCEPT ![d].status =
                  IF @ \in {"draft", "accepted"} THEN "stale" ELSE @]
  /\ UNCHANGED <<pages, docPages, queue, queued, proc, screen, todo, minted, ops,
                 edits>>

\* A process is killed, or a tick's twenty minutes are over.
Kill(p) ==
  /\ faults < MaxFaults /\ faults' = faults + 1
  /\ proc[p].pc # "idle"
  /\ proc' = [proc EXCEPT ![p] = Idle]
  /\ screen' = IF p \in Screens THEN [screen EXCEPT ![p] = Closed] ELSE screen
  /\ todo' = IF p \in Ticks THEN [todo EXCEPT ![p] = {}] ELSE todo
  /\ UNCHANGED <<stored, forgotten, pages, docPages, queue, queued, minted, ops,
                 edits>>

----------------------------------------------------------------------------
\* Specification

Step(p) ==
  \/ Save(p) \/ Ask(p) \/ AcceptFirst(p) \/ Look(p) \/ Put(p)
  \/ RecordPublished(p) \/ MapPage(p)

TickStep(t) == DueQueue(t) \/ TakeItem(t) \/ Requeue(t) \/ Dequeue(t) \/ Step(t)

Next ==
  \/ \E s \in Screens : OpenScreen(s) \/ CloseScreen(s) \/ Press(s) \/ QueuePublish(s)
  \/ \E c \in Clis : Command(c)
  \/ \E t \in Ticks : TickStep(t)
  \/ \E p \in Screens \cup Clis : Step(p)
  \/ TimePasses
  \/ \E d \in Drafts : Forget(d)
  \/ \E p \in Processes : Kill(p)

Spec == Init /\ [][Next]_vars

\* The timer fires again and again and its tick goes on; the user does not
\* have to do anything.
Fairness ==
  /\ WF_vars(TimePasses)
  /\ \A t \in Ticks : WF_vars(TickStep(t))
  /\ \A p \in Screens \cup Clis : WF_vars(Step(p))
  /\ \A s \in Screens : WF_vars(QueuePublish(s))

FairSpec == Spec /\ Fairness

----------------------------------------------------------------------------
\* Properties

\* A draft is at most once on a page: publishing again, a retry next to the
\* screen, a lost answer do not make a second section of it.  A section that
\* lost its mark does not count: Publish cannot know that text again.
SectionOnce ==
  \A doc \in Docs : \A i, j \in DOMAIN pages[doc] :
    /\ pages[doc][i].draft = pages[doc][j].draft
    /\ pages[doc][i].marked /\ pages[doc][j].marked
    => i = j

\* What is recorded as published, which a retry therefore only takes off the
\* queue, has been written to the page it names: no record in memory, however
\* old, and no publish that failed makes a draft published that never was.
PublishedIsOut ==
  \A d \in Drafts :
    stored[d].status = "published"
      => stored[d].ref # NoDoc /\ pages[stored[d].ref] # <<>>

\* "appended to that page as a dated section instead of replacing it": the text
\* of a draft never goes from a page.
NoSectionLost ==
  [][\A doc \in Docs : Holds(pages[doc]) \subseteq Holds(pages'[doc])]_pages

\* An item of d that the tick is not just taking off.
Waiting(d) ==
  \E i \in queue :
    /\ i.draft = d
    /\ \A t \in Ticks : ~(proc[t].pc = "drop" /\ proc[t].item = i.id)

\* What could not be published is, unless it is dismissed or an edit took the
\* document id out of its header: such a draft is retried for ever.
QueuedIsSettled ==
  \A d \in Drafts :
    Waiting(d)
      ~> \/ stored[d].status \in {"dismissed", "published"} \/ stored[d].doc = NoDoc
         \/ \E doc \in Docs : d \in Holds(pages[doc])

=============================================================================
