------------------------- MODULE PublishingProofs --------------------------
(***************************************************************************)
(* Proofs about Publishing, for any number of drafts, documents, screens,  *)
(* commands, edits, failures and deaths.                                   *)
(***************************************************************************)
EXTENDS Publishing, FiniteSetTheorems, SequenceTheorems, TLAPS

AnyDoc == Docs \cup {NoDoc}
Rec == [status : {"draft", "accepted", "dismissed", "published", "stale"},
        doc : AnyDoc, text : 0..MaxEdits, ref : AnyDoc]
Sect == [draft : Drafts, text : 0..MaxEdits, marked : BOOLEAN]
QueueItem == [id : Nat, draft : Drafts, due : BOOLEAN]
Op == [pc : {"idle", "save", "ask", "accept", "look", "put", "record", "map", "fail", "drop"},
       draft : Drafts, rec : Rec, seen : Seq(Sect), item : Nat]
Listed == UNION {[D -> Rec] : D \in SUBSET Drafts}
OnScreen == [open : BOOLEAN, list : Listed, docs : SUBSET AnyDoc, detail : BOOLEAN]

\* Types, as far as the rest needs them.
TypeInv ==
  /\ stored \in [Drafts -> Rec]
  /\ pages \in [Docs -> Seq(Sect)]
  /\ docPages \subseteq AnyDoc
  /\ queue \subseteq QueueItem /\ queued \in Nat
  /\ proc \in [Processes -> Op]
  /\ screen \in [Screens -> OnScreen]
  /\ todo \in [Ticks -> SUBSET QueueItem]
  /\ minted \in 0..MaxDocs /\ edits \in 0..MaxEdits

\* No draft has two marked sections.
Distinct(page) ==
  \A i, j \in DOMAIN page :
    page[i].draft = page[j].draft /\ page[i].marked /\ page[j].marked => i = j

\* Neither on a page nor in what a process has read of one.
OnceInv ==
  /\ \A doc \in Docs : Distinct(pages[doc])
  /\ \A p \in Processes : Distinct(proc[p].seen)

PInv == TypeInv /\ OnceInv

\* Screens with an operation that has not ended: each was begun by one of the
\* keys that ops counts, and queues at most one item.
Active == {s \in Screens : proc[s].pc # "idle"}

\* What the bounds rest on: every id is one the queue has given out, and it
\* gives one out at the end of an operation; only a document is published.
BoundsInv ==
  /\ forgotten \subseteq Drafts /\ ops \in 0..MaxOps /\ faults \in 0..MaxFaults
  /\ docPages \subseteq Docs
  /\ \A p \in Processes : /\ proc[p].pc \in {"record", "map"} => proc[p].rec.doc # NoDoc
                          /\ proc[p].item \in 0..queued
  /\ \A i \in queue : i.id \in 1..queued
  /\ \A t \in Ticks : \A i \in todo[t] : i.id \in 1..queued
  /\ IsFiniteSet(Active) /\ queued + Cardinality(Active) <= ops

\* A record that says published names a page that has been written.
Out(rec) == rec.status = "published" => rec.ref # NoDoc /\ pages[rec.ref] # <<>>

\* So do the records on their way to the table: those in the hands of a process
\* and the rows a screen shows, any of which may be saved whole later.
OutInv ==
  /\ \A d \in Drafts : Out(stored[d])
  /\ \A p \in Processes : Out(proc[p].rec)
  /\ \A s \in Screens : \A d \in DOMAIN screen[s].list : Out(screen[s].list[d])

----------------------------------------------------------------------------
\* Pages

\* Taking the marks off a page leaves no draft on it.
LEMMA UnmarkedPage ==
  ASSUME NEW page \in Seq(Sect)
  PROVE  Unmarked(page) \in Seq(Sect) /\ Distinct(Unmarked(page))
<1>1. Len(page) \in Nat /\ DOMAIN page = 1..Len(page) /\ \A i \in 1..Len(page) : page[i] \in Sect
  BY LenProperties, ElementOfSeq
<1>2. \A x \in Sect : [x EXCEPT !.marked = FALSE] \in Sect /\ ~[x EXCEPT !.marked = FALSE].marked
  BY DEF Sect
<1>3. /\ Unmarked(page) \in [1..Len(page) -> Sect]
      /\ \A i \in 1..Len(page) : ~Unmarked(page)[i].marked
  BY <1>1, <1>2 DEF Unmarked
<1>4. Unmarked(page) \in Seq(Sect)
  BY <1>1, <1>3, SeqDef
<1>5. DOMAIN Unmarked(page) = 1..Len(page)
  BY <1>3
<1> QED BY <1>3, <1>4, <1>5 DEF Distinct

\* Publish adds a section of a draft only to a page without one, and writes
\* a page on which no draft has two.
LEMMA PageWithDistinct ==
  ASSUME NEW seen \in Seq(Sect), Distinct(seen), NEW section \in Sect
  PROVE  PageWith(seen, section) \in Seq(Sect) /\ Distinct(PageWith(seen, section))
<1>1. CASE seen # <<>> /\ section.draft \notin On(seen)
  <2> DEFINE n == Len(seen)
             page == Append(seen, section)
  <2>1. PageWith(seen, section) = page
    BY <1>1 DEF PageWith
  <2>2. /\ n \in Nat /\ DOMAIN seen = 1..n /\ DOMAIN page = 1..(n + 1) /\ page \in Seq(Sect)
        /\ \A i \in 1..n : page[i] = seen[i]
        /\ page[n + 1] = section
    BY AppendProperties, LenProperties
  <2> HIDE DEF n, page
  <2>3. \A i \in 1..n : seen[i].marked => seen[i].draft # section.draft
    BY <1>1, <2>2 DEF On, Range
  <2>4. Distinct(page)
    BY <2>2, <2>3 DEF Distinct
  <2> QED BY <2>1, <2>2, <2>4
<1>2. CASE ~(seen # <<>> /\ section.draft \notin On(seen))
  <2>1. PageWith(seen, section) = <<section>>
    BY <1>2 DEF PageWith
  <2>2. <<section>> \in Seq(Sect) /\ DOMAIN <<section>> = {1}
    OBVIOUS
  <2> QED BY <2>1, <2>2 DEF Distinct
<1> QED BY <1>1, <1>2

\* A page that was written is not empty.
LEMMA PageWithSomething ==
  ASSUME NEW seen \in Seq(Sect), NEW section \in Sect
  PROVE  PageWith(seen, section) # <<>>
<1>1. Append(seen, section) # <<>>
  BY AppendProperties, LenProperties
<1>2. <<section>> # <<>>
  OBVIOUS
<1> QED BY <1>1, <1>2 DEF PageWith

----------------------------------------------------------------------------
\* Operations

\* An operation that changes one process keeps what is known of the others.
LEMMA ProcChange ==
  ASSUME PInv, NEW p \in Processes, NEW o \in Op, Distinct(o.seen),
         proc' = [proc EXCEPT ![p] = o]
  PROVE  proc' \in [Processes -> Op] /\ \A q \in Processes : Distinct(proc'[q].seen)
BY DEF PInv, TypeInv, OnceInv

\* Nothing is read at the beginning of an operation.
LEMMA BeginOp ==
  ASSUME PInv, NEW d \in Drafts, NEW rec \in Rec,
         NEW pc \in {"save", "ask", "accept", "look", "drop"}
  PROVE  /\ Idle \in Op /\ Distinct(Idle.seen)
         /\ [Idle EXCEPT !.pc = pc, !.draft = d, !.rec = rec] \in Op
         /\ Distinct([Idle EXCEPT !.pc = pc, !.draft = d, !.rec = rec].seen)
         /\ \A item \in Nat :
              /\ [Idle EXCEPT !.pc = pc, !.draft = d, !.rec = rec, !.item = item] \in Op
              /\ Distinct([Idle EXCEPT !.pc = pc, !.draft = d, !.rec = rec, !.item = item].seen)
<1>1. SomeDraft \in Drafts
  BY PublishingAssumption DEF SomeDraft
<1>2. NewDraft \in Rec
  BY PublishingAssumption DEF NewDraft, Rec, AnyDoc
<1>3. Idle \in Op
  BY <1>1, <1>2 DEF Idle, Op
<1>4. \A o \in Op :
        /\ [o EXCEPT !.pc = pc, !.draft = d, !.rec = rec] \in Op
        /\ [o EXCEPT !.pc = pc, !.draft = d, !.rec = rec].seen = o.seen
        /\ \A item \in Nat :
             /\ [o EXCEPT !.pc = pc, !.draft = d, !.rec = rec, !.item = item] \in Op
             /\ [o EXCEPT !.pc = pc, !.draft = d, !.rec = rec, !.item = item].seen = o.seen
  BY DEF Op
<1>5. Distinct(Idle.seen)
  BY DEF Idle, Distinct
<1> QED BY <1>3, <1>4, <1>5

\* The records of an operation that begins.
LEMMA Records ==
  ASSUME NEW rec \in Rec
  PROVE  /\ \A n \in AnyDoc : \A status \in {"draft", "accepted", "dismissed", "published", "stale"} :
              [rec EXCEPT !.status = status, !.doc = n] \in Rec
         /\ \A status \in {"draft", "accepted", "dismissed", "published", "stale"} :
              [rec EXCEPT !.status = status] \in Rec
         /\ \A n \in AnyDoc, text \in 0..MaxEdits : [rec EXCEPT !.text = text, !.doc = n] \in Rec
         /\ \A n \in AnyDoc : [rec EXCEPT !.doc = n] \in Rec
         /\ \A text \in 0..MaxEdits : [rec EXCEPT !.text = text, !.status = "draft"] \in Rec
         /\ \A n \in AnyDoc : [rec EXCEPT !.status = "published", !.ref = n] \in Rec
         /\ rec.doc \in AnyDoc /\ rec.text \in 0..MaxEdits
BY DEF Rec

LEMMA MintedDoc ==
  ASSUME PInv, NEW rec \in Rec, Mint(rec)
  PROVE  Accepted(rec) \in Rec /\ minted' \in 0..MaxDocs
<1>1. minted \in 0..MaxDocs
  BY DEF PInv, TypeInv
<1>2. CASE rec.doc = NoDoc
  <2>1. minted < MaxDocs /\ minted' = minted + 1
    BY <1>2 DEF Mint
  <2>2. minted + 1 \in AnyDoc /\ minted' \in 0..MaxDocs
    BY <1>1, <2>1, PublishingAssumption DEF AnyDoc, Docs
  <2> QED BY <1>2, <2>2, Records DEF Accepted
<1>3. CASE rec.doc # NoDoc
  BY <1>1, <1>3, Records DEF Mint, Accepted
<1> QED BY <1>2, <1>3

\* What a key or a command begins.
LEMMA Beginning ==
  ASSUME PInv, NEW p \in Processes, NEW d \in Drafts, NEW rec \in Rec, NEW docs \in SUBSET AnyDoc,
         \/ Accept(p, d, rec) \/ Dismiss(p, d, rec) \/ Publish(p, d, rec)
         \/ Edit(p, d, rec) \/ Regenerate(p, d, rec) \/ Merge(p, d, rec, docs)
  PROVE  /\ proc' \in [Processes -> Op] /\ \A q \in Processes : Distinct(proc'[q].seen)
         /\ minted' \in 0..MaxDocs /\ edits' \in 0..MaxEdits
<1>1. minted \in 0..MaxDocs /\ edits \in 0..MaxEdits
  BY DEF PInv, TypeInv
<1>2. ASSUME NEW pc \in {"save", "ask", "accept", "look", "drop"}, NEW r \in Rec, Begin(p, d, pc, r)
      PROVE  proc' \in [Processes -> Op] /\ \A q \in Processes : Distinct(proc'[q].seen)
  <2> DEFINE o == [Idle EXCEPT !.pc = pc, !.draft = d, !.rec = r]
  <2>1. o \in Op /\ Distinct(o.seen)
    BY BeginOp
  <2>2. proc' = [proc EXCEPT ![p] = o]
    BY <1>2 DEF Begin
  <2> HIDE DEF o
  <2> QED BY <2>1, <2>2, ProcChange
<1>3. CASE Accept(p, d, rec)
  BY <1>1, <1>2, <1>3, MintedDoc DEF Accept
<1>4. CASE Dismiss(p, d, rec)
  BY <1>1, <1>2, <1>4, Records DEF Dismiss
<1>5. CASE Publish(p, d, rec)
  BY <1>1, <1>2, <1>5, MintedDoc DEF Publish
<1>6. CASE Edit(p, d, rec)
  <2>1. PICK doc \in {rec.doc, NoDoc} :
          Begin(p, d, "save", [rec EXCEPT !.text = edits + 1, !.doc = doc])
    BY <1>6 DEF Edit
  <2>2. doc \in AnyDoc
    BY Records DEF AnyDoc
  <2>3. edits + 1 \in 0..MaxEdits /\ edits' = edits + 1 /\ minted' = minted
    BY <1>1, <1>6, PublishingAssumption DEF Edit
  <2>4. [rec EXCEPT !.text = edits + 1, !.doc = doc] \in Rec
    BY <2>2, <2>3, Records
  <2> QED BY <1>1, <1>2, <2>1, <2>3, <2>4
<1>7. CASE Regenerate(p, d, rec)
  BY <1>1, <1>2, <1>7 DEF Regenerate
<1>8. CASE Merge(p, d, rec, docs)
  BY <1>1, <1>2, <1>8, Records DEF Merge
<1> QED BY <1>3, <1>4, <1>5, <1>6, <1>7, <1>8

\* What a process keeps when its operation is over, and how one ends.
LEMMA Ending ==
  ASSUME PInv, NEW p \in Processes
  PROVE  /\ AtRest(p) \in Op /\ Distinct(AtRest(p).seen)
         /\ Done(p) => /\ proc' \in [Processes -> Op]
                       /\ \A q \in Processes : Distinct(proc'[q].seen)
                       /\ screen' \in [Screens -> OnScreen]
<1>1. proc[p] \in Op
  BY DEF PInv, TypeInv
<1>2. /\ proc[p].draft \in Drafts /\ proc[p].rec \in Rec /\ proc[p].item \in Nat
  BY <1>1 DEF Op
<1>3. Idle \in Op /\ Distinct(Idle.seen)
  BY <1>2, BeginOp
<1>4. \A o \in Op, d \in Drafts, r \in Rec :
        [o EXCEPT !.draft = d, !.rec = r] \in Op /\ [o EXCEPT !.draft = d, !.rec = r].seen = o.seen
  BY DEF Op
<1>5. \A o \in Op, item \in Nat :
        /\ [o EXCEPT !.pc = "drop", !.item = item] \in Op
        /\ [o EXCEPT !.pc = "drop", !.item = item].seen = o.seen
  BY DEF Op
<1>6. AtRest(p) \in Op /\ Distinct(AtRest(p).seen)
  BY <1>2, <1>3, <1>4 DEF AtRest
<1>7. ASSUME Done(p)
      PROVE  proc' \in [Processes -> Op] /\ \A q \in Processes : Distinct(proc'[q].seen)
  <2> DEFINE o == IF p \in Ticks THEN [Idle EXCEPT !.pc = "drop", !.item = proc[p].item]
                                 ELSE AtRest(p)
  <2>1. o \in Op /\ Distinct(o.seen)
    BY <1>2, <1>3, <1>5, <1>6
  <2>2. proc' = [proc EXCEPT ![p] = o]
    BY <1>7 DEF Done
  <2> HIDE DEF o
  <2> QED BY <2>1, <2>2, ProcChange
<1>8. ASSUME Done(p) PROVE screen' \in [Screens -> OnScreen]
  <2>1. screen \in [Screens -> OnScreen]
    BY DEF PInv, TypeInv
  <2>2. CASE p \in Screens
    <3> DEFINE list == [screen[p].list EXCEPT ![proc[p].draft] = proc[p].rec]
               shown == [screen[p] EXCEPT !.list = list]
    <3>1. screen[p] \in OnScreen /\ screen[p].list \in Listed
      BY <2>1, <2>2 DEF OnScreen
    <3>2. list \in Listed
      BY <1>2, <3>1 DEF Listed
    <3>3. \A sc \in OnScreen, l \in Listed : [sc EXCEPT !.list = l] \in OnScreen
      BY DEF OnScreen
    <3>4. shown \in OnScreen
      <4> HIDE DEF list
      <4> QED BY <3>1, <3>2, <3>3
    <3>5. screen' = [screen EXCEPT ![p] = shown]
      BY <1>8, <2>2 DEF Done
    <3> HIDE DEF shown
    <3> QED BY <2>1, <3>4, <3>5
  <2>3. CASE p \notin Screens
    BY <1>8, <2>1, <2>3 DEF Done
  <2> QED BY <2>2, <2>3
<1> QED BY <1>6, <1>7, <1>8

\* An operation that goes on or ends without writing anything.
LEMMA ProcOnly ==
  ASSUME PInv, NEW p \in Processes, NEW o \in Op, Distinct(o.seen), proc' = [proc EXCEPT ![p] = o],
         UNCHANGED <<stored, pages, docPages, queue, queued, screen, todo, minted, edits>>
  PROVE  PInv'
<1>1. proc' \in [Processes -> Op] /\ \A q \in Processes : Distinct(proc'[q].seen)
  BY ProcChange
<1> QED BY <1>1 DEF PInv, TypeInv, OnceInv

\* The statements and requests of an operation.
LEMMA OperationStep ==
  ASSUME PInv, NEW p \in Processes, Step(p)
  PROVE  PInv'
<1>1. TypeInv /\ OnceInv
  BY DEF PInv
<1>2. /\ proc[p] \in Op /\ Distinct(proc[p].seen)
      /\ proc[p].draft \in Drafts /\ proc[p].rec \in Rec /\ proc[p].seen \in Seq(Sect)
      /\ proc[p].rec.doc \in AnyDoc /\ proc[p].rec.text \in 0..MaxEdits
  <2>1. proc[p] \in Op /\ Distinct(proc[p].seen)
    BY <1>1 DEF TypeInv, OnceInv
  <2>2. /\ proc[p].draft \in Drafts /\ proc[p].rec \in Rec /\ proc[p].seen \in Seq(Sect)
    BY <2>1 DEF Op
  <2> QED BY <2>1, <2>2, Records
<1>3. \A pc \in {"put", "look", "map", "record", "fail"} :
        [proc[p] EXCEPT !.pc = pc] \in Op /\ [proc[p] EXCEPT !.pc = pc].seen = proc[p].seen
  BY <1>2 DEF Op
<1>4. \A r \in Rec : [stored EXCEPT ![proc[p].draft] = r] \in [Drafts -> Rec]
  BY <1>1, <1>2 DEF TypeInv
<1>5. Distinct(<<>>) /\ <<>> \in Seq(Sect)
  BY DEF Distinct
<1>6. CASE Save(p)
  <2>1. /\ proc' \in [Processes -> Op] /\ \A q \in Processes : Distinct(proc'[q].seen)
        /\ screen' \in [Screens -> OnScreen]
    BY <1>6, Ending DEF Save
  <2>2. stored' \in [Drafts -> Rec]
    BY <1>2, <1>4, <1>6 DEF Save, SaveRecord
  <2> QED BY <1>1, <1>6, <2>1, <2>2 DEF PInv, TypeInv, OnceInv, Save
<1>7. CASE Ask(p)
  <2>1. CASE /\ edits' = edits + 1
             /\ proc' = [proc EXCEPT ![p].pc = "save", ![p].rec.text = edits + 1,
                                     ![p].rec.status = "draft"]
    <3> DEFINE rec == [proc[p].rec EXCEPT !.text = edits + 1, !.status = "draft"]
               o == [proc[p] EXCEPT !.pc = "save", !.rec = rec]
    <3>1. edits + 1 \in 0..MaxEdits
      BY <1>1, <1>7, <2>1, PublishingAssumption DEF TypeInv, Ask
    <3>2. rec \in Rec
      BY <1>2, <3>1, Records
    <3>3. \A r \in Rec : /\ [proc[p] EXCEPT !.pc = "save", !.rec = r] \in Op
                         /\ [proc[p] EXCEPT !.pc = "save", !.rec = r].seen = proc[p].seen
      BY <1>2 DEF Op
    <3>4. o \in Op /\ Distinct(o.seen)
      <4> HIDE DEF rec
      <4> QED BY <1>2, <3>2, <3>3
    <3>5. proc' = [proc EXCEPT ![p] = o]
      BY <2>1
    <3>6. proc' \in [Processes -> Op] /\ \A q \in Processes : Distinct(proc'[q].seen)
      <4> HIDE DEF o
      <4> QED BY <3>4, <3>5, ProcChange
    <3> QED BY <1>1, <1>7, <2>1, <3>1, <3>6 DEF PInv, TypeInv, OnceInv, Ask
  <2>2. CASE proc' = [proc EXCEPT ![p] = AtRest(p)] /\ UNCHANGED edits
    BY <1>7, <2>2, Ending, ProcOnly DEF Ask
  <2> QED BY <1>7, <2>1, <2>2 DEF Ask
<1>8. CASE AcceptFirst(p)
  <2>1. proc' = [proc EXCEPT ![p] = [proc[p] EXCEPT !.pc = "look"]]
    BY <1>8 DEF AcceptFirst
  <2>2. proc' \in [Processes -> Op] /\ \A q \in Processes : Distinct(proc'[q].seen)
    BY <1>2, <1>3, <2>1, ProcChange
  <2>3. stored' \in [Drafts -> Rec]
    BY <1>2, <1>4, <1>8 DEF AcceptFirst, SaveRecord
  <2> QED BY <1>1, <1>8, <2>2, <2>3 DEF PInv, TypeInv, OnceInv, AcceptFirst
<1>9. CASE Look(p)
  <2>1. \A s \in Seq(Sect) :
          /\ [proc[p] EXCEPT !.pc = "put", !.seen = s] \in Op
          /\ [proc[p] EXCEPT !.pc = "put", !.seen = s].seen = s
    BY <1>2 DEF Op
  <2>2. Page(proc[p].rec.doc) \in Seq(Sect) /\ Distinct(Page(proc[p].rec.doc))
    BY <1>1, <1>2, <1>5 DEF TypeInv, OnceInv, Page, AnyDoc
  <2>3. PICK s \in {Page(proc[p].rec.doc), Unmarked(Page(proc[p].rec.doc)), <<>>} :
          proc' = [proc EXCEPT ![p] = [proc[p] EXCEPT !.pc = "put", !.seen = s]]
    BY <1>9 DEF Look
  <2>4. s \in Seq(Sect) /\ Distinct(s)
    BY <1>5, <2>2, UnmarkedPage
  <2> DEFINE o == [proc[p] EXCEPT !.pc = "put", !.seen = s]
  <2>5. o \in Op /\ Distinct(o.seen) /\ proc' = [proc EXCEPT ![p] = o]
    BY <2>1, <2>3, <2>4
  <2>6. UNCHANGED <<stored, pages, docPages, queue, queued, screen, todo, minted, edits>>
    BY <1>9 DEF Look
  <2> HIDE DEF o
  <2> QED BY <2>5, <2>6, ProcOnly
<1>10. CASE Put(p)
  <2> DEFINE section == [draft |-> proc[p].draft, text |-> proc[p].rec.text, marked |-> TRUE]
             page == PageWith(proc[p].seen, section)
  <2>1. section \in Sect
    BY <1>2 DEF Sect
  <2>2. page \in Seq(Sect) /\ Distinct(page)
    <3> HIDE DEF section
    <3> QED BY <1>2, <2>1, PageWithDistinct
  <2>3. pages' \in {pages, [pages EXCEPT ![proc[p].rec.doc] = page]}
    BY <1>10 DEF Put
  <2>4. pages' \in [Docs -> Seq(Sect)] /\ \A doc \in Docs : Distinct(pages'[doc])
    <3> HIDE DEF page
    <3> QED BY <1>1, <2>2, <2>3 DEF TypeInv, OnceInv
  <2>5. Idle \in Op /\ Distinct(Idle.seen)
    BY <1>2, BeginOp
  <2>6. \A r \in Rec : /\ [proc[p] EXCEPT !.pc = "record", !.seen = <<>>, !.rec = r] \in Op
                       /\ [proc[p] EXCEPT !.pc = "record", !.seen = <<>>, !.rec = r].seen = <<>>
    BY <1>2, <1>5 DEF Op
  <2>7. /\ [proc[p] EXCEPT !.pc = "fail", !.seen = <<>>] \in Op
        /\ [proc[p] EXCEPT !.pc = "fail", !.seen = <<>>].seen = <<>>
    BY <1>2, <1>5 DEF Op
  <2>8. [proc[p].rec EXCEPT !.status = "published", !.ref = proc[p].rec.doc] \in Rec
    BY <1>2, Records
  <2> DEFINE failed == proc' = [proc EXCEPT ![p] =
               IF p \in Clis THEN Idle ELSE [@ EXCEPT !.pc = "fail", !.seen = <<>>]]
             written == proc' = [proc EXCEPT ![p] =
               [@ EXCEPT !.pc = "record", !.seen = <<>>,
                         !.rec = [proc[p].rec EXCEPT !.status = "published",
                                                     !.ref = proc[p].rec.doc]]]
             rec == [proc[p].rec EXCEPT !.status = "published", !.ref = proc[p].rec.doc]
             o == [proc[p] EXCEPT !.pc = "record", !.seen = <<>>, !.rec = rec]
  <2>9. failed \/ written
    BY <1>10 DEF Put, Fails
  <2>12. failed => \/ proc' = [proc EXCEPT ![p] = Idle]
                   \/ proc' = [proc EXCEPT ![p] = [proc[p] EXCEPT !.pc = "fail", !.seen = <<>>]]
    OBVIOUS
  <2>13. written => proc' = [proc EXCEPT ![p] = o]
    OBVIOUS
  <2>10. \E op \in Op : Distinct(op.seen) /\ proc' = [proc EXCEPT ![p] = op]
    <3>1. o \in Op /\ Distinct(o.seen)
      BY <1>5, <2>6, <2>8
    <3> HIDE DEF o, failed, written
    <3> QED BY <1>5, <2>5, <2>7, <2>9, <2>12, <2>13, <3>1
  <2>11. proc' \in [Processes -> Op] /\ \A q \in Processes : Distinct(proc'[q].seen)
    BY <2>10, ProcChange
  <2> QED BY <1>1, <1>10, <2>4, <2>11 DEF PInv, TypeInv, OnceInv, Put
<1>11. CASE RecordPublished(p)
  <2>1. proc' = [proc EXCEPT ![p] = [proc[p] EXCEPT !.pc = "map"]]
    BY <1>11 DEF RecordPublished
  <2>2. proc' \in [Processes -> Op] /\ \A q \in Processes : Distinct(proc'[q].seen)
    BY <1>2, <1>3, <2>1, ProcChange
  <2>3. stored' \in [Drafts -> Rec]
    BY <1>2, <1>4, <1>11 DEF RecordPublished, SaveRecord
  <2> QED BY <1>1, <1>11, <2>2, <2>3 DEF PInv, TypeInv, OnceInv, RecordPublished
<1>12. CASE MapPage(p)
  <2>1. /\ proc' \in [Processes -> Op] /\ \A q \in Processes : Distinct(proc'[q].seen)
        /\ screen' \in [Screens -> OnScreen]
    BY <1>12, Ending DEF MapPage
  <2>2. docPages' \subseteq AnyDoc
    BY <1>1, <1>2, <1>12 DEF TypeInv, MapPage
  <2> QED BY <1>1, <1>12, <2>1, <2>2 DEF PInv, TypeInv, OnceInv, MapPage
<1> QED BY <1>6, <1>7, <1>8, <1>9, <1>10, <1>11, <1>12 DEF Step

----------------------------------------------------------------------------
\* The screen and the commands

\* The screen's other actions.
LEMMA ScreenStep ==
  ASSUME PInv, NEW s \in Screens, OpenScreen(s) \/ CloseScreen(s) \/ QueuePublish(s)
  PROVE  PInv'
<1>1. TypeInv /\ OnceInv /\ s \in Processes /\ screen[s] \in OnScreen
  BY DEF PInv, TypeInv, Processes
<1>2. proc[s] \in Op /\ proc[s].draft \in Drafts /\ proc[s].rec \in Rec
  BY <1>1 DEF TypeInv, Op
<1>3. Idle \in Op /\ Distinct(Idle.seen)
  BY <1>2, BeginOp
<1>4. CASE OpenScreen(s)
  <2>1. PICK shown \in SUBSET Drafts :
          screen' = [screen EXCEPT ![s] =
            [open |-> TRUE, list |-> [d \in shown |-> stored[d]], detail |-> FALSE,
             docs |-> docPages \cup (RecentDocs \ {NoDoc})]]
    BY <1>4 DEF OpenScreen
  <2> DEFINE sc == [open |-> TRUE, list |-> [d \in shown |-> stored[d]], detail |-> FALSE,
                    docs |-> docPages \cup (RecentDocs \ {NoDoc})]
  <2>2. RecentDocs \subseteq AnyDoc
    BY <1>1 DEF RecentDocs, TypeInv, Rec
  <2>3. [d \in shown |-> stored[d]] \in Listed
    BY <1>1 DEF Listed, TypeInv
  <2>4. sc \in OnScreen
    BY <1>1, <2>2, <2>3 DEF OnScreen, TypeInv
  <2>5. screen' \in [Screens -> OnScreen]
    <3> HIDE DEF sc
    <3> QED BY <1>1, <2>1, <2>4 DEF TypeInv, sc
  <2> QED BY <1>1, <1>4, <2>5 DEF PInv, TypeInv, OnceInv, OpenScreen
<1>5. CASE CloseScreen(s)
  <2>1. Closed \in OnScreen
    <3>1. [d \in {} |-> NewDraft] \in Listed
      <4>1. [d \in {} |-> NewDraft] \in [{} -> Rec]
        OBVIOUS
      <4> QED BY <4>1 DEF Listed
    <3> QED BY <3>1 DEF Closed, OnScreen
  <2>2. screen' \in [Screens -> OnScreen]
    BY <1>1, <1>5, <2>1 DEF TypeInv, CloseScreen
  <2>3. proc' \in [Processes -> Op] /\ \A q \in Processes : Distinct(proc'[q].seen)
    BY <1>1, <1>3, <1>5, ProcChange DEF CloseScreen
  <2> QED BY <1>1, <1>5, <2>2, <2>3 DEF PInv, TypeInv, OnceInv, CloseScreen
<1>6. CASE QueuePublish(s)
  <2>1. proc' \in [Processes -> Op] /\ \A q \in Processes : Distinct(proc'[q].seen)
    BY <1>1, <1>6, Ending, ProcChange DEF QueuePublish
  <2>2. queued + 1 \in Nat
    BY <1>1 DEF TypeInv
  <2>3. [id |-> queued + 1, draft |-> proc[s].draft, due |-> FALSE] \in QueueItem
    BY <1>2, <2>2 DEF QueueItem
  <2>4. queue' \subseteq QueueItem /\ queued' \in Nat
    BY <1>1, <1>6, <2>2, <2>3 DEF TypeInv, QueuePublish
  <2> QED BY <1>1, <1>6, <2>1, <2>4 DEF PInv, TypeInv, OnceInv, QueuePublish
<1> QED BY <1>4, <1>5, <1>6

\* A key begins an operation on the row the screen shows or on the record it
\* still has of the draft that is open.
LEMMA PressStep ==
  ASSUME PInv, NEW s \in Screens, Press(s)
  PROVE  PInv'
<1>1. TypeInv /\ OnceInv /\ s \in Processes /\ screen[s] \in OnScreen /\ proc[s].rec \in Rec
  BY DEF PInv, TypeInv, Processes, Op
<1>2. PICK d \in DOMAIN screen[s].list, detail \in BOOLEAN :
        /\ \E rec \in OnHand(s, d), k \in Keys : Key(s, k, detail, d, rec)
        /\ screen' = [screen EXCEPT ![s].detail = detail]
  BY DEF Press
<1>3. d \in Drafts /\ screen[s].list[d] \in Rec /\ screen[s].docs \in SUBSET AnyDoc
  BY <1>1 DEF OnScreen, Listed
<1>4. /\ proc' \in [Processes -> Op] /\ \A q \in Processes : Distinct(proc'[q].seen)
      /\ minted' \in 0..MaxDocs /\ edits' \in 0..MaxEdits
  <2>1. PICK rec \in OnHand(s, d), k \in Keys : Key(s, k, detail, d, rec)
    BY <1>2
  <2>2. rec \in Rec
    BY <1>1, <1>3 DEF OnHand
  <2> QED BY <1>1, <1>3, <2>1, <2>2, Beginning DEF Key
<1>5. screen' \in [Screens -> OnScreen]
  <2>1. screen' = [screen EXCEPT ![s] = [screen[s] EXCEPT !.detail = detail]]
    BY <1>2
  <2>2. [screen[s] EXCEPT !.detail = detail] \in OnScreen
    BY <1>1 DEF OnScreen
  <2> QED BY <1>1, <2>1, <2>2 DEF TypeInv
<1>6. UNCHANGED <<stored, pages, docPages, queue, queued, todo>>
  BY DEF Press
<1> QED BY <1>1, <1>4, <1>5, <1>6 DEF PInv, TypeInv, OnceInv

LEMMA CommandStep ==
  ASSUME PInv, NEW c \in Clis, Command(c)
  PROVE  PInv'
<1>1. TypeInv /\ OnceInv /\ c \in Processes
  BY DEF PInv, Processes
<1>2. PICK d \in Drafts : \/ Accept(c, d, stored[d]) \/ Dismiss(c, d, stored[d])
                          \/ Publish(c, d, stored[d]) \/ Edit(c, d, stored[d])
  BY DEF Command
<1>3. stored[d] \in Rec
  BY <1>1 DEF TypeInv
<1>4. /\ proc' \in [Processes -> Op] /\ \A q \in Processes : Distinct(proc'[q].seen)
      /\ minted' \in 0..MaxDocs /\ edits' \in 0..MaxEdits
  BY <1>1, <1>2, <1>3, Beginning
<1>5. UNCHANGED <<stored, pages, docPages, queue, queued, screen, todo>>
  BY DEF Command
<1> QED BY <1>1, <1>4, <1>5 DEF PInv, TypeInv, OnceInv

----------------------------------------------------------------------------
\* The tick

\* A tick takes an item and begins what its draft needs.
LEMMA TakeStep ==
  ASSUME PInv, NEW t \in Ticks, TakeItem(t)
  PROVE  PInv'
<1>1. TypeInv /\ OnceInv /\ t \in Processes /\ todo[t] \subseteq QueueItem
  BY DEF PInv, TypeInv, Processes
<1>2. PICK i \in todo[t] :
        /\ todo' = [todo EXCEPT ![t] = @ \ {i}]
        /\ \E pc \in {"drop", "look", "accept"} :
             /\ \E r \in {stored[i.draft], Accepted(stored[i.draft])} :
                  /\ proc' = [proc EXCEPT ![t] =
                       [Idle EXCEPT !.pc = pc, !.draft = i.draft, !.rec = r, !.item = i.id]]
                  /\ \/ r = stored[i.draft] /\ UNCHANGED minted
                     \/ r = Accepted(stored[i.draft]) /\ Mint(stored[i.draft])
  BY DEF TakeItem
<1>3. i.draft \in Drafts /\ i.id \in Nat /\ stored[i.draft] \in Rec
  BY <1>1 DEF TypeInv, QueueItem
<1>4. PICK pc \in {"drop", "look", "accept"}, r \in {stored[i.draft], Accepted(stored[i.draft])} :
        /\ proc' = [proc EXCEPT ![t] =
             [Idle EXCEPT !.pc = pc, !.draft = i.draft, !.rec = r, !.item = i.id]]
        /\ \/ r = stored[i.draft] /\ UNCHANGED minted
           \/ r = Accepted(stored[i.draft]) /\ Mint(stored[i.draft])
  BY <1>2
<1>5. r \in Rec /\ minted' \in 0..MaxDocs
  BY <1>1, <1>3, <1>4, MintedDoc DEF TypeInv
<1> DEFINE o == [Idle EXCEPT !.pc = pc, !.draft = i.draft, !.rec = r, !.item = i.id]
<1>6. o \in Op /\ Distinct(o.seen)
  BY <1>3, <1>5, BeginOp
<1>7. proc' = [proc EXCEPT ![t] = o]
  BY <1>4
<1>8. proc' \in [Processes -> Op] /\ \A q \in Processes : Distinct(proc'[q].seen)
  <2> HIDE DEF o
  <2> QED BY <1>1, <1>6, <1>7, ProcChange
<1>9. todo' \in [Ticks -> SUBSET QueueItem]
  BY <1>1, <1>2 DEF TypeInv
<1>10. UNCHANGED <<stored, pages, docPages, queue, queued, screen, edits>>
  BY DEF TakeItem
<1> QED BY <1>1, <1>5, <1>8, <1>9, <1>10 DEF PInv, TypeInv, OnceInv

LEMMA QueueStep ==
  ASSUME PInv, NEW t \in Ticks, DueQueue(t) \/ Requeue(t) \/ Dequeue(t)
  PROVE  PInv'
<1>1. TypeInv /\ OnceInv /\ t \in Processes
  BY DEF PInv, Processes
<1>2. Idle \in Op /\ Distinct(Idle.seen)
  BY <1>1, BeginOp DEF TypeInv, Op
<1>3. CASE DueQueue(t)
  <2>1. todo' \in [Ticks -> SUBSET QueueItem]
    BY <1>1, <1>3 DEF TypeInv, DueQueue
  <2> QED BY <1>1, <1>3, <2>1 DEF PInv, TypeInv, OnceInv, DueQueue
<1>4. CASE Requeue(t) \/ Dequeue(t)
  <2>1. proc' \in [Processes -> Op] /\ \A q \in Processes : Distinct(proc'[q].seen)
    BY <1>1, <1>2, <1>4, ProcChange DEF Requeue, Dequeue
  <2>2. \A i \in QueueItem : [i EXCEPT !.due = FALSE] \in QueueItem
    BY DEF QueueItem
  <2>3. queue' \subseteq QueueItem
    BY <1>1, <1>4, <2>2 DEF TypeInv, Requeue, Dequeue
  <2>4. UNCHANGED <<stored, pages, docPages, queued, screen, todo, minted, edits>>
    BY <1>4 DEF Requeue, Dequeue
  <2> QED BY <1>1, <2>1, <2>3, <2>4 DEF PInv, TypeInv, OnceInv
<1> QED BY <1>3, <1>4

----------------------------------------------------------------------------
\* What comes from outside

LEMMA OutsideStep ==
  ASSUME PInv, TimePasses \/ (\E d \in Drafts : Forget(d)) \/ (\E p \in Processes : Kill(p))
  PROVE  PInv'
<1>1. TypeInv /\ OnceInv
  BY DEF PInv
<1>2. CASE TimePasses
  <2>1. \A i \in QueueItem : [i EXCEPT !.due = TRUE] \in QueueItem
    BY DEF QueueItem
  <2>2. queue' \subseteq QueueItem
    BY <1>1, <1>2, <2>1 DEF TypeInv, TimePasses
  <2> QED BY <1>1, <1>2, <2>2 DEF PInv, TypeInv, OnceInv, TimePasses
<1>3. ASSUME NEW d \in Drafts, Forget(d) PROVE PInv'
  <2>1. \E status \in {"draft", "accepted", "dismissed", "published", "stale"} :
          stored' = [stored EXCEPT ![d] = [stored[d] EXCEPT !.status = status]]
    <3>1. stored[d].status \in {"draft", "accepted", "dismissed", "published", "stale"}
      BY <1>1 DEF TypeInv, Rec
    <3> QED BY <1>3, <3>1 DEF Forget
  <2>2. stored[d] \in Rec
    BY <1>1 DEF TypeInv
  <2>3. PICK rec \in Rec : stored' = [stored EXCEPT ![d] = rec]
    BY <2>1, <2>2, Records
  <2>4. stored' \in [Drafts -> Rec]
    BY <1>1, <2>3 DEF TypeInv
  <2> QED BY <1>1, <1>3, <2>4 DEF PInv, TypeInv, OnceInv, Forget
<1>4. ASSUME NEW p \in Processes, Kill(p) PROVE PInv'
  <2>1. proc[p] \in Op /\ proc[p].draft \in Drafts /\ proc[p].rec \in Rec
    BY <1>1 DEF TypeInv, Op
  <2>2. Idle \in Op /\ Distinct(Idle.seen)
    BY <2>1, BeginOp
  <2>3. proc' \in [Processes -> Op] /\ \A q \in Processes : Distinct(proc'[q].seen)
    BY <1>4, <2>2, ProcChange DEF Kill
  <2>4. Closed \in OnScreen
    <3>1. [d \in {} |-> NewDraft] \in Listed
      <4>1. [d \in {} |-> NewDraft] \in [{} -> Rec]
        OBVIOUS
      <4> QED BY <4>1 DEF Listed
    <3> QED BY <3>1 DEF Closed, OnScreen
  <2>5. screen' \in [Screens -> OnScreen] /\ todo' \in [Ticks -> SUBSET QueueItem]
    BY <1>1, <1>4, <2>4 DEF TypeInv, Kill
  <2> QED BY <1>1, <1>4, <2>3, <2>5 DEF PInv, TypeInv, OnceInv, Kill
<1> QED BY <1>2, <1>3, <1>4

----------------------------------------------------------------------------
\* Bounds

\* How an operation is left: with a document if it has written a page, and on
\* an item that was queued.
Sound(o) == (o.pc \in {"record", "map"} => o.rec.doc # NoDoc) /\ o.item \in 0..queued

\* Operations end.
LEMMA FewerActive ==
  ASSUME IsFiniteSet(Active), Active' \subseteq Active, queued \in Nat, ops \in Nat,
         queued + Cardinality(Active) <= ops
  PROVE  IsFiniteSet(Active') /\ queued + Cardinality(Active') <= ops
<1>1. /\ IsFiniteSet(Active') /\ Cardinality(Active') <= Cardinality(Active)
      /\ Cardinality(Active) \in Nat /\ Cardinality(Active') \in Nat
  BY FS_Subset, FS_CardinalityType
<1> QED BY <1>1

\* One ends and queues an item.
LEMMA OneQueued ==
  ASSUME IsFiniteSet(Active), NEW s \in Active, Active' \subseteq Active \ {s},
         queued \in Nat, ops \in Nat, queued + Cardinality(Active) <= ops
  PROVE  IsFiniteSet(Active') /\ queued + 1 + Cardinality(Active') <= ops
<1> DEFINE rest == Active \ {s}
<1>1. IsFiniteSet(rest) /\ Cardinality(rest) = Cardinality(Active) - 1
  BY FS_RemoveElement
<1>2. /\ IsFiniteSet(Active') /\ Cardinality(Active') <= Cardinality(rest)
      /\ Cardinality(Active) \in Nat /\ Cardinality(Active') \in Nat
  BY <1>1, FS_Subset, FS_CardinalityType
<1> QED BY <1>1, <1>2

\* A key or a command begins one.
LEMMA OneBegun ==
  ASSUME IsFiniteSet(Active), NEW p, Active' \subseteq Active \cup {p},
         queued \in Nat, ops \in Nat, queued + Cardinality(Active) <= ops
  PROVE  IsFiniteSet(Active') /\ queued + Cardinality(Active') <= ops + 1
<1> DEFINE more == Active \cup {p}
<1>1. /\ IsFiniteSet(more) /\ Cardinality(Active) \in Nat
      /\ Cardinality(more) = Cardinality(Active) \/ Cardinality(more) = Cardinality(Active) + 1
  BY FS_AddElement, FS_CardinalityType
<1>2. /\ IsFiniteSet(Active') /\ Cardinality(Active') <= Cardinality(more)
      /\ Cardinality(more) \in Nat /\ Cardinality(Active') \in Nat
  BY <1>1, FS_Subset, FS_CardinalityType
<1> QED BY <1>1, <1>2

\* A step that changes one process, and begins no operation of a screen.
LEMMA OneGoesOn ==
  ASSUME PInv, BoundsInv, NEW p \in Processes, NEW o, proc' = [proc EXCEPT ![p] = o], Sound(o),
         p \in Screens => proc[p].pc # "idle" \/ o.pc = "idle", queued' = queued
  PROVE  /\ \A q \in Processes : Sound(proc'[q])
         /\ IsFiniteSet(Active') /\ queued' + Cardinality(Active') <= ops
<1>1. proc \in [Processes -> Op] /\ queued \in Nat
  BY DEF PInv, TypeInv
<1>2. ops \in Nat
  BY PublishingAssumption DEF BoundsInv
<1>3. \A q \in Processes : Sound(proc[q])
  BY DEF BoundsInv, Sound
<1>4. \A q \in Processes : proc'[q] = IF q = p THEN o ELSE proc[q]
  BY <1>1
<1>5. Active' \subseteq Active
  BY <1>4 DEF Active, Processes
<1>6. \A q \in Processes : Sound(proc'[q])
  BY <1>3, <1>4
<1>7. IsFiniteSet(Active) /\ queued + Cardinality(Active) <= ops
  BY DEF BoundsInv
<1> QED BY <1>1, <1>2, <1>5, <1>6, <1>7, FewerActive

\* What a process keeps is sound, and so is an operation that begins.
LEMMA SoundStarts ==
  ASSUME PInv, BoundsInv
  PROVE  /\ Sound(Idle) /\ Idle.pc = "idle"
         /\ \A p \in Processes : Sound(AtRest(p)) /\ AtRest(p).pc = "idle"
         /\ \A pc \in {"save", "ask", "accept", "look", "drop"}, d \in Drafts, rec \in Rec :
              /\ Sound([Idle EXCEPT !.pc = pc, !.draft = d, !.rec = rec])
              /\ \A item \in 0..queued :
                   /\ Sound([Idle EXCEPT !.pc = pc, !.draft = d, !.rec = rec, !.item = item])
                   /\ Sound([Idle EXCEPT !.pc = "drop", !.item = item])
<1>1. queued \in Nat
  BY DEF PInv, TypeInv
<1> QED BY <1>1 DEF Sound, Idle, AtRest

\* Whatever is asked for, it begins with one of these.
LEMMA WhatBegins ==
  ASSUME PInv, NEW p \in Processes, NEW d \in Drafts, NEW rec \in Rec, NEW docs \in SUBSET AnyDoc,
         \/ Accept(p, d, rec) \/ Dismiss(p, d, rec) \/ Publish(p, d, rec)
         \/ Edit(p, d, rec) \/ Regenerate(p, d, rec) \/ Merge(p, d, rec, docs)
  PROVE  \E pc \in {"save", "ask", "accept", "look"}, r \in Rec : Begin(p, d, pc, r)
<1>1. CASE Edit(p, d, rec)
  <2>1. PICK doc \in {rec.doc, NoDoc} :
          Begin(p, d, "save", [rec EXCEPT !.text = edits + 1, !.doc = doc])
    BY <1>1 DEF Edit
  <2>2. doc \in AnyDoc
    BY Records DEF AnyDoc
  <2>3. edits + 1 \in 0..MaxEdits
    BY <1>1, PublishingAssumption DEF PInv, TypeInv, Edit
  <2>4. [rec EXCEPT !.text = edits + 1, !.doc = doc] \in Rec
    BY <2>2, <2>3, Records
  <2> QED BY <2>1, <2>4
<1>2. CASE Accept(p, d, rec) \/ Dismiss(p, d, rec) \/ Publish(p, d, rec) \/ Regenerate(p, d, rec)
  BY <1>2, Records, MintedDoc DEF Accept, Dismiss, Publish, Regenerate
<1>3. CASE Merge(p, d, rec, docs)
  BY <1>3, Records DEF Merge
<1> QED BY <1>1, <1>2, <1>3

\* A key or a command.
LEMMA BoundsBegin ==
  ASSUME PInv, BoundsInv, NEW p \in Processes, ops < MaxOps, ops' = ops + 1,
         NEW pc \in {"save", "ask", "accept", "look"}, NEW d \in Drafts, NEW rec \in Rec,
         Begin(p, d, pc, rec),
         UNCHANGED <<forgotten, docPages, queue, queued, todo, faults>>
  PROVE  BoundsInv'
<1>1. proc \in [Processes -> Op] /\ queued \in Nat
  BY DEF PInv, TypeInv
<1>2. /\ forgotten \subseteq Drafts /\ ops \in 0..MaxOps /\ faults \in 0..MaxFaults
      /\ docPages \subseteq Docs
      /\ \A i \in queue : i.id \in 1..queued
      /\ \A t \in Ticks : \A i \in todo[t] : i.id \in 1..queued
      /\ IsFiniteSet(Active) /\ queued + Cardinality(Active) <= ops
      /\ \A q \in Processes : Sound(proc[q])
  BY DEF BoundsInv, Sound
<1>3. ops \in Nat /\ ops' \in 0..MaxOps
  BY <1>2, PublishingAssumption
<1> DEFINE o == [Idle EXCEPT !.pc = pc, !.draft = d, !.rec = rec]
<1>4. Sound(o)
  BY SoundStarts
<1>5. proc' = [proc EXCEPT ![p] = o]
  BY DEF Begin
<1> HIDE DEF o
<1>6. \A q \in Processes : proc'[q] = IF q = p THEN o ELSE proc[q]
  BY <1>1, <1>5
<1>7. Active' \subseteq Active \cup {p}
  BY <1>6 DEF Active, Processes
<1>8. IsFiniteSet(Active') /\ queued + Cardinality(Active') <= ops + 1
  BY <1>1, <1>2, <1>3, <1>7, OneBegun
<1>9. \A q \in Processes : Sound(proc'[q])
  BY <1>2, <1>4, <1>6
<1> QED BY <1>2, <1>3, <1>8, <1>9 DEF BoundsInv, Sound

\* What a step that begins nothing and queues nothing has to show.
LEMMA BoundsKept ==
  ASSUME PInv, BoundsInv, NEW p \in Processes, NEW o, proc' = [proc EXCEPT ![p] = o], Sound(o),
         p \in Screens => proc[p].pc # "idle" \/ o.pc = "idle",
         docPages' \subseteq Docs, faults' \in 0..MaxFaults,
         \A i \in queue' : \E j \in queue : i.id = j.id,
         \A t \in Ticks : todo'[t] \subseteq todo[t],
         UNCHANGED <<forgotten, queued, ops>>
  PROVE  BoundsInv'
<1>1. /\ \A q \in Processes : Sound(proc'[q])
      /\ IsFiniteSet(Active') /\ queued' + Cardinality(Active') <= ops
  BY OneGoesOn
<1>2. /\ forgotten \subseteq Drafts /\ ops \in 0..MaxOps
      /\ \A i \in queue : i.id \in 1..queued
      /\ \A t \in Ticks : \A i \in todo[t] : i.id \in 1..queued
  BY DEF BoundsInv
<1>3. \A i \in queue' : i.id \in 1..queued
  BY <1>2
<1> QED BY <1>1, <1>2, <1>3 DEF BoundsInv, Sound

\* The statements and requests of an operation.
LEMMA BoundsOperation ==
  ASSUME PInv, BoundsInv, NEW p \in Processes, Step(p)
  PROVE  BoundsInv'
<1>1. /\ proc[p] \in Op /\ proc[p].rec \in Rec /\ proc[p].item \in 0..queued
      /\ proc[p].pc \in {"record", "map"} => proc[p].rec.doc # NoDoc
      /\ docPages \subseteq Docs /\ faults \in 0..MaxFaults /\ edits \in 0..MaxEdits
      /\ proc \in [Processes -> Op]
  BY DEF PInv, TypeInv, BoundsInv, Op
<1>2. faults < MaxFaults => faults + 1 \in 0..MaxFaults
  BY <1>1, PublishingAssumption
<1>3. proc[p].pc # "idle" /\ UNCHANGED <<forgotten, queue, queued, todo, ops>>
  BY DEF Step, Save, Ask, AcceptFirst, Look, Put, RecordPublished, MapPage
<1>4. docPages' \subseteq Docs
  <2>1. CASE MapPage(p)
    <3>1. proc[p].rec.doc \in Docs
      BY <1>1, <2>1 DEF MapPage, Rec, AnyDoc
    <3> QED BY <1>1, <2>1, <3>1 DEF MapPage
  <2>2. CASE ~MapPage(p)
    BY <1>1, <2>2 DEF Step, Save, Ask, AcceptFirst, Look, Put, RecordPublished
  <2> QED BY <2>1, <2>2
<1>5. faults' \in 0..MaxFaults
  BY <1>1, <1>2 DEF Step, Save, Ask, AcceptFirst, Look, Put, RecordPublished, MapPage
<1>6. \E o : proc' = [proc EXCEPT ![p] = o] /\ Sound(o)
  <2>1. CASE Save(p) \/ MapPage(p)
    <3> DEFINE o == IF p \in Ticks THEN [Idle EXCEPT !.pc = "drop", !.item = proc[p].item]
                                   ELSE AtRest(p)
    <3>1. proc' = [proc EXCEPT ![p] = o]
      BY <2>1 DEF Save, MapPage, Done
    <3>2. PICK d \in Drafts : TRUE
      BY PublishingAssumption
    <3>3. Sound(o)
      BY <1>1, <3>2, SoundStarts
    <3> QED BY <3>1, <3>3
  <2>2. CASE Ask(p)
    <3> DEFINE rec == [proc[p].rec EXCEPT !.text = edits + 1, !.status = "draft"]
               o == [proc[p] EXCEPT !.pc = "save", !.rec = rec]
    <3>1. o.pc = "save" /\ o.item = proc[p].item
      BY <1>1 DEF Op
    <3>2. Sound(o)
      BY <1>1, <3>1 DEF Sound
    <3>3. CASE proc' = [proc EXCEPT ![p].pc = "save", ![p].rec.text = edits + 1,
                                    ![p].rec.status = "draft"]
      <4>1. proc' = [proc EXCEPT ![p] = o]
        BY <3>3
      <4> QED BY <3>2, <4>1
    <3>4. CASE proc' = [proc EXCEPT ![p] = AtRest(p)]
      BY <3>4, SoundStarts
    <3> QED BY <2>2, <3>3, <3>4 DEF Ask
  <2>3. CASE AcceptFirst(p) \/ RecordPublished(p)
    <3>1. PICK pc \in {"look", "map"} :
            /\ proc' = [proc EXCEPT ![p] = [proc[p] EXCEPT !.pc = pc]]
            /\ pc = "map" => proc[p].pc = "record"
      BY <2>3 DEF AcceptFirst, RecordPublished
    <3>2. /\ [proc[p] EXCEPT !.pc = pc].pc = pc /\ [proc[p] EXCEPT !.pc = pc].rec = proc[p].rec
          /\ [proc[p] EXCEPT !.pc = pc].item = proc[p].item
      BY <1>1 DEF Op
    <3>3. Sound([proc[p] EXCEPT !.pc = pc])
      BY <1>1, <3>1, <3>2 DEF Sound
    <3> QED BY <3>1, <3>3
  <2>4. CASE Look(p)
    <3>1. PICK s \in {Page(proc[p].rec.doc), Unmarked(Page(proc[p].rec.doc)), <<>>} :
            proc' = [proc EXCEPT ![p] = [proc[p] EXCEPT !.pc = "put", !.seen = s]]
      BY <2>4 DEF Look
    <3> DEFINE o == [proc[p] EXCEPT !.pc = "put", !.seen = s]
    <3>2. o.pc = "put" /\ o.item = proc[p].item
      BY <1>1 DEF Op
    <3>3. Sound(o)
      BY <1>1, <3>2 DEF Sound
    <3> QED BY <3>1, <3>3
  <2>5. CASE Put(p)
    <3> DEFINE rec == [proc[p].rec EXCEPT !.status = "published", !.ref = proc[p].rec.doc]
               written == [proc[p] EXCEPT !.pc = "record", !.seen = <<>>, !.rec = rec]
               failed == [proc[p] EXCEPT !.pc = "fail", !.seen = <<>>]
    <3>1. \/ proc' = [proc EXCEPT ![p] = Idle]
          \/ proc' = [proc EXCEPT ![p] = failed]
          \/ proc[p].rec.doc # NoDoc /\ proc' = [proc EXCEPT ![p] = written]
      <4> DEFINE over == proc' = [proc EXCEPT ![p] =
                   IF p \in Clis THEN Idle ELSE [@ EXCEPT !.pc = "fail", !.seen = <<>>]]
                 done == proc' = [proc EXCEPT ![p] =
                   [@ EXCEPT !.pc = "record", !.seen = <<>>,
                             !.rec = [proc[p].rec EXCEPT !.status = "published",
                                                         !.ref = proc[p].rec.doc]]]
      <4>1. over \/ (done /\ proc[p].rec.doc # NoDoc)
        BY <2>5 DEF Put, Fails
      <4>2. over => proc' = [proc EXCEPT ![p] = Idle] \/ proc' = [proc EXCEPT ![p] = failed]
        OBVIOUS
      <4>3. done => proc' = [proc EXCEPT ![p] = written]
        OBVIOUS
      <4> HIDE DEF over, done, failed, written
      <4> QED BY <4>1, <4>2, <4>3
    <3>2. failed.pc = "fail" /\ failed.item = proc[p].item
      BY <1>1 DEF Op
    <3>3. rec.doc = proc[p].rec.doc
      BY <1>1 DEF Rec
    <3>4. written.rec = rec /\ written.item = proc[p].item
      <4> HIDE DEF rec
      <4> QED BY <1>1 DEF Op
    <3>5. Sound(Idle)
      BY SoundStarts
    <3>6. Sound(failed) /\ (proc[p].rec.doc # NoDoc => Sound(written))
      <4> HIDE DEF failed, written, rec
      <4> QED BY <1>1, <3>2, <3>3, <3>4 DEF Sound
    <3> HIDE DEF failed, written
    <3> QED BY <3>1, <3>5, <3>6
  <2> QED BY <2>1, <2>2, <2>3, <2>4, <2>5 DEF Step
<1>7. PICK o : proc' = [proc EXCEPT ![p] = o] /\ Sound(o)
  BY <1>6
<1>8. (\A i \in queue' : \E j \in queue : i.id = j.id) /\ \A t \in Ticks : todo'[t] \subseteq todo[t]
  BY <1>3
<1> QED BY <1>3, <1>4, <1>5, <1>7, <1>8, BoundsKept

\* The screen's other actions.
LEMMA BoundsScreen ==
  ASSUME PInv, BoundsInv, NEW s \in Screens, OpenScreen(s) \/ CloseScreen(s) \/ QueuePublish(s)
  PROVE  BoundsInv'
<1>1. /\ proc \in [Processes -> Op] /\ queued \in Nat /\ s \in Processes
      /\ docPages \subseteq Docs /\ faults \in 0..MaxFaults /\ ops \in Nat
  BY PublishingAssumption DEF PInv, TypeInv, BoundsInv, Processes
<1>2. CASE OpenScreen(s)
  BY <1>2 DEF OpenScreen, BoundsInv, Active
<1>3. CASE CloseScreen(s)
  <2>1. /\ proc' = [proc EXCEPT ![s] = Idle]
        /\ UNCHANGED <<forgotten, docPages, queue, queued, todo, ops, faults>>
    BY <1>3 DEF CloseScreen
  <2> QED BY <1>1, <2>1, BoundsKept, SoundStarts
<1>4. CASE QueuePublish(s)
  <2> DEFINE item == [id |-> queued + 1, draft |-> proc[s].draft, due |-> FALSE]
  <2>1. /\ proc[s].pc = "fail" /\ proc' = [proc EXCEPT ![s] = AtRest(s)]
        /\ queued' = queued + 1 /\ queue' = queue \cup {item}
        /\ UNCHANGED <<forgotten, docPages, todo, ops, faults>>
    BY <1>4 DEF QueuePublish
  <2>2. /\ forgotten \subseteq Drafts /\ ops \in 0..MaxOps
        /\ \A i \in queue : i.id \in 1..queued
        /\ \A t \in Ticks : \A i \in todo[t] : i.id \in 1..queued
        /\ IsFiniteSet(Active) /\ queued + Cardinality(Active) <= ops
        /\ \A q \in Processes : Sound(proc[q])
    BY DEF BoundsInv, Sound
  <2>3. \A q \in Processes : proc'[q] = IF q = s THEN AtRest(s) ELSE proc[q]
    BY <1>1, <2>1
  <2>4. Sound(AtRest(s)) /\ AtRest(s).pc = "idle"
    BY <1>1, SoundStarts
  <2>5. s \in Active /\ Active' \subseteq Active \ {s}
    BY <2>1, <2>3, <2>4 DEF Active, Processes
  <2>6. IsFiniteSet(Active') /\ queued' + Cardinality(Active') <= ops
    BY <1>1, <2>1, <2>2, <2>5, OneQueued
  <2>7. \A n \in 0..queued : n \in 0..queued'
    BY <1>1, <2>1
  <2>8. \A q \in Processes : /\ proc'[q].pc \in {"record", "map"} => proc'[q].rec.doc # NoDoc
                             /\ proc'[q].item \in 0..queued'
    <3>1. \A q \in Processes : /\ proc'[q].pc \in {"record", "map"} => proc'[q].rec.doc # NoDoc
                               /\ proc'[q].item \in 0..queued
      BY <2>2, <2>3, <2>4 DEF Sound
    <3> QED BY <2>7, <3>1
  <2>9. \A i \in queue' : i.id \in 1..queued'
    BY <1>1, <2>1, <2>2
  <2>10. \A t \in Ticks : \A i \in todo'[t] : i.id \in 1..queued'
    BY <1>1, <2>1, <2>2
  <2> QED BY <1>1, <2>1, <2>2, <2>6, <2>8, <2>9, <2>10 DEF BoundsInv
<1> QED BY <1>2, <1>3, <1>4

\* Keys, commands and the tick.
LEMMA BoundsPress ==
  ASSUME PInv, BoundsInv, NEW s \in Screens, Press(s)
  PROVE  BoundsInv'
<1>1. s \in Processes /\ screen[s] \in OnScreen /\ proc[s].rec \in Rec
  BY DEF PInv, TypeInv, Processes, Op
<1>2. PICK d \in DOMAIN screen[s].list, detail \in BOOLEAN :
        \E rec \in OnHand(s, d), k \in Keys : Key(s, k, detail, d, rec)
  BY DEF Press
<1>3. d \in Drafts /\ screen[s].list[d] \in Rec /\ screen[s].docs \in SUBSET AnyDoc
  BY <1>1 DEF OnScreen, Listed
<1>4. PICK rec \in OnHand(s, d), k \in Keys : Key(s, k, detail, d, rec)
  BY <1>2
<1>5. rec \in Rec
  BY <1>1, <1>3 DEF OnHand
<1>6. \E pc \in {"save", "ask", "accept", "look"}, r \in Rec : Begin(s, d, pc, r)
  BY <1>1, <1>3, <1>4, <1>5, WhatBegins DEF Key
<1>7. /\ ops < MaxOps /\ ops' = ops + 1
      /\ UNCHANGED <<forgotten, docPages, queue, queued, todo, faults>>
  BY DEF Press
<1> QED BY <1>1, <1>3, <1>6, <1>7, BoundsBegin

LEMMA BoundsCommand ==
  ASSUME PInv, BoundsInv, NEW c \in Clis, Command(c)
  PROVE  BoundsInv'
<1>1. c \in Processes
  BY DEF Processes
<1>2. PICK d \in Drafts : \/ Accept(c, d, stored[d]) \/ Dismiss(c, d, stored[d])
                          \/ Publish(c, d, stored[d]) \/ Edit(c, d, stored[d])
  BY DEF Command
<1>3. stored[d] \in Rec
  BY DEF PInv, TypeInv
<1>4. \E pc \in {"save", "ask", "accept", "look"}, r \in Rec : Begin(c, d, pc, r)
  BY <1>1, <1>2, <1>3, WhatBegins
<1>5. /\ ops < MaxOps /\ ops' = ops + 1
      /\ UNCHANGED <<forgotten, docPages, queue, queued, todo, faults>>
  BY DEF Command
<1> QED BY <1>1, <1>4, <1>5, BoundsBegin

LEMMA BoundsTick ==
  ASSUME PInv, BoundsInv, NEW t \in Ticks,
         DueQueue(t) \/ TakeItem(t) \/ Requeue(t) \/ Dequeue(t)
  PROVE  BoundsInv'
<1>1. /\ t \in Processes /\ t \notin Screens /\ faults \in 0..MaxFaults /\ docPages \subseteq Docs
      /\ todo \in [Ticks -> SUBSET QueueItem] /\ queue \subseteq QueueItem
      /\ \A i \in queue : i.id \in 1..queued
      /\ \A i \in todo[t] : i.id \in 1..queued
      /\ queued \in Nat
  BY PublishingAssumption DEF PInv, TypeInv, BoundsInv, Processes
<1>2. CASE DueQueue(t)
  <2>1. /\ \A u \in Ticks : \A i \in todo'[u] : i \in queue \/ i \in todo[u]
        /\ UNCHANGED <<forgotten, docPages, queue, queued, proc, ops, faults>>
    BY <1>1, <1>2 DEF DueQueue
  <2>2. \A u \in Ticks : \A i \in todo'[u] : i.id \in 1..queued
    BY <2>1 DEF BoundsInv
  <2> QED BY <2>1, <2>2 DEF BoundsInv, Active
<1>3. CASE TakeItem(t)
  <2>1. PICK i \in todo[t] :
          /\ todo' = [todo EXCEPT ![t] = @ \ {i}]
          /\ \E pc \in {"drop", "look", "accept"}, r \in {stored[i.draft], Accepted(stored[i.draft])} :
               /\ proc' = [proc EXCEPT ![t] =
                    [Idle EXCEPT !.pc = pc, !.draft = i.draft, !.rec = r, !.item = i.id]]
               /\ r = stored[i.draft] \/ Mint(stored[i.draft])
    BY <1>3 DEF TakeItem
  <2>2. i.draft \in Drafts /\ i.id \in 0..queued /\ stored[i.draft] \in Rec
    BY <1>1 DEF PInv, TypeInv, QueueItem
  <2>3. PICK pc \in {"drop", "look", "accept"}, r \in {stored[i.draft], Accepted(stored[i.draft])} :
          /\ proc' = [proc EXCEPT ![t] =
               [Idle EXCEPT !.pc = pc, !.draft = i.draft, !.rec = r, !.item = i.id]]
          /\ r = stored[i.draft] \/ Mint(stored[i.draft])
    BY <2>1
  <2>4. r \in Rec
    BY <2>2, <2>3, MintedDoc
  <2> DEFINE o == [Idle EXCEPT !.pc = pc, !.draft = i.draft, !.rec = r, !.item = i.id]
  <2>5. Sound(o)
    BY <2>2, <2>4, SoundStarts
  <2>6. proc' = [proc EXCEPT ![t] = o]
    BY <2>3
  <2>7. \A u \in Ticks : todo'[u] \subseteq todo[u]
    BY <1>1, <2>1
  <2>8. UNCHANGED <<forgotten, docPages, queue, queued, ops, faults>>
    BY <1>3 DEF TakeItem
  <2> HIDE DEF o
  <2> QED BY <1>1, <2>5, <2>6, <2>7, <2>8, BoundsKept
<1>4. CASE Requeue(t) \/ Dequeue(t)
  <2>1. /\ proc' = [proc EXCEPT ![t] = Idle]
        /\ UNCHANGED <<forgotten, docPages, queued, todo, ops, faults>>
    BY <1>4 DEF Requeue, Dequeue
  <2>2. \A i \in QueueItem : [i EXCEPT !.due = FALSE].id = i.id
    BY DEF QueueItem
  <2>3. \A i \in queue' : \E j \in queue : i.id = j.id
    <3>1. CASE Requeue(t)
      <4>1. queue' = {IF i.id = proc[t].item THEN [i EXCEPT !.due = FALSE] ELSE i : i \in queue}
        BY <3>1 DEF Requeue
      <4>2. ASSUME NEW i \in queue' PROVE \E j \in queue : i.id = j.id
        <5>1. PICK j \in queue : i = j \/ i = [j EXCEPT !.due = FALSE]
          BY <4>1
        <5> QED BY <1>1, <2>2, <5>1
      <4> QED BY <4>2
    <3>2. CASE Dequeue(t)
      BY <3>2 DEF Dequeue
    <3> QED BY <1>4, <3>1, <3>2
  <2> QED BY <1>1, <2>1, <2>3, BoundsKept, SoundStarts
<1> QED BY <1>2, <1>3, <1>4

LEMMA BoundsOutside ==
  ASSUME PInv, BoundsInv, TimePasses \/ (\E d \in Drafts : Forget(d)) \/ (\E p \in Processes : Kill(p))
  PROVE  BoundsInv'
<1>1. /\ faults \in 0..MaxFaults /\ docPages \subseteq Docs /\ queue \subseteq QueueItem
      /\ todo \in [Ticks -> SUBSET QueueItem]
  BY DEF PInv, TypeInv, BoundsInv
<1>2. faults < MaxFaults => faults + 1 \in 0..MaxFaults
  BY <1>1, PublishingAssumption
<1>3. CASE TimePasses
  <2>1. \A i \in QueueItem : [i EXCEPT !.due = TRUE].id = i.id
    BY DEF QueueItem
  <2>2. \A i \in queue' : \E j \in queue : i.id = j.id
    BY <1>1, <1>3, <2>1 DEF TimePasses
  <2>3. \A i \in queue' : i.id \in 1..queued
    BY <2>2 DEF BoundsInv
  <2> QED BY <1>3, <2>3 DEF BoundsInv, Active, TimePasses
<1>4. ASSUME NEW d \in Drafts, Forget(d) PROVE BoundsInv'
  BY <1>1, <1>2, <1>4 DEF BoundsInv, Active, Forget
<1>5. ASSUME NEW p \in Processes, Kill(p) PROVE BoundsInv'
  <2>1. /\ proc[p].pc # "idle" /\ proc' = [proc EXCEPT ![p] = Idle] /\ faults' \in 0..MaxFaults
        /\ UNCHANGED <<forgotten, docPages, queue, queued, ops>>
    BY <1>2, <1>5 DEF Kill
  <2>2. \A u \in Ticks : todo'[u] \subseteq todo[u]
    BY <1>1, <1>5 DEF Kill
  <2> QED BY <1>1, <2>1, <2>2, BoundsKept, SoundStarts
<1> QED BY <1>3, <1>4, <1>5

----------------------------------------------------------------------------
\* Theorems

LEMMA PublishingInit == Init => PInv
<1> SUFFICES ASSUME Init PROVE PInv
  OBVIOUS
<1>1. SomeDraft \in Drafts
  BY PublishingAssumption DEF SomeDraft
<1>2. PICK out \in {{}, {SomeDraft}} :
        /\ pages = [doc \in Docs |-> IF doc = 1 /\ out # {}
                                    THEN <<[draft |-> SomeDraft, text |-> 0, marked |-> TRUE]>> ELSE <<>>]
        /\ docPages = {doc \in {1} : out # {}}
        /\ minted = Cardinality(out)
        /\ \E related \in docPages \cup {NoDoc} :
             stored = [d \in Drafts |->
               IF d \in out THEN [status |-> "published", doc |-> 1, text |-> 0, ref |-> 1]
                            ELSE [NewDraft EXCEPT !.doc = related]]
  BY DEF Init
<1>3. docPages \in SUBSET {1} /\ docPages \subseteq AnyDoc /\ 1 \in Docs
  BY <1>2, PublishingAssumption DEF AnyDoc, Docs
<1>4. minted \in 0..MaxDocs
  <2>1. Cardinality({}) = 0 /\ Cardinality({SomeDraft}) = 1
    BY FS_EmptySet, FS_Singleton
  <2>2. minted = Cardinality(out) /\ out \in {{}, {SomeDraft}}
    BY <1>2
  <2> QED BY <2>1, <2>2, PublishingAssumption
<1>5. stored \in [Drafts -> Rec]
  <2>1. PICK related \in docPages \cup {NoDoc} :
          stored = [d \in Drafts |->
            IF d \in out THEN [status |-> "published", doc |-> 1, text |-> 0, ref |-> 1]
                         ELSE [NewDraft EXCEPT !.doc = related]]
    BY <1>2
  <2>2. NewDraft \in Rec /\ related \in AnyDoc
    BY <1>3, PublishingAssumption DEF NewDraft, Rec, AnyDoc
  <2>3. [NewDraft EXCEPT !.doc = related] \in Rec
    BY <2>2, Records
  <2>4. [status |-> "published", doc |-> 1, text |-> 0, ref |-> 1] \in Rec
    BY <1>3, PublishingAssumption DEF Rec, AnyDoc
  <2> QED BY <2>1, <2>3, <2>4
<1>6. pages \in [Docs -> Seq(Sect)] /\ \A doc \in Docs : Distinct(pages[doc])
  <2> DEFINE first == [draft |-> SomeDraft, text |-> 0, marked |-> TRUE]
  <2>1. first \in Sect
    BY <1>1, PublishingAssumption DEF Sect
  <2>2. \A x \in Sect : <<x>> \in Seq(Sect) /\ Distinct(<<x>>)
    BY DEF Distinct
  <2>3. <<>> \in Seq(Sect) /\ Distinct(<<>>)
    BY DEF Distinct
  <2>4. pages = [doc \in Docs |-> IF doc = 1 /\ out # {} THEN <<first>> ELSE <<>>]
    BY <1>2
  <2> HIDE DEF first
  <2> QED BY <2>1, <2>2, <2>3, <2>4
<1>7. Idle \in Op /\ Distinct(Idle.seen)
  <2>1. NewDraft \in Rec
    BY PublishingAssumption DEF NewDraft, Rec, AnyDoc
  <2> QED BY <1>1, <2>1 DEF Idle, Op, Distinct
<1>8. Closed \in OnScreen
  <2>1. [d \in {} |-> NewDraft] \in Listed
    BY DEF Listed
  <2> QED BY <2>1 DEF Closed, OnScreen
<1>9. /\ proc \in [Processes -> Op] /\ \A p \in Processes : Distinct(proc[p].seen)
      /\ screen \in [Screens -> OnScreen] /\ todo \in [Ticks -> SUBSET QueueItem]
  BY <1>7, <1>8 DEF Init
<1>10. queue \subseteq QueueItem /\ queued \in Nat /\ edits \in 0..MaxEdits
  BY PublishingAssumption DEF Init
<1> QED BY <1>3, <1>4, <1>5, <1>6, <1>9, <1>10 DEF PInv, TypeInv, OnceInv

LEMMA PublishingNext == PInv /\ [Next]_vars => PInv'
<1> SUFFICES ASSUME PInv, [Next]_vars PROVE PInv'
  OBVIOUS
<1>1. ASSUME NEW s \in Screens, OpenScreen(s) \/ CloseScreen(s) \/ Press(s) \/ QueuePublish(s)
      PROVE  PInv'
  BY <1>1, ScreenStep, PressStep
<1>2. ASSUME NEW c \in Clis, Command(c) PROVE PInv'
  BY <1>2, CommandStep
<1>3. ASSUME NEW t \in Ticks, TickStep(t) PROVE PInv'
  BY <1>3, TakeStep, QueueStep, OperationStep DEF TickStep, Processes
<1>4. ASSUME NEW p \in Screens \cup Clis, Step(p) PROVE PInv'
  BY <1>4, OperationStep DEF Processes
<1>5. CASE TimePasses \/ (\E d \in Drafts : Forget(d)) \/ (\E p \in Processes : Kill(p))
  BY <1>5, OutsideStep
<1>6. CASE UNCHANGED vars
  BY <1>6 DEF vars, PInv, TypeInv, OnceInv
<1> QED BY <1>1, <1>2, <1>3, <1>4, <1>5, <1>6 DEF Next

\* Whatever is pressed, started, retried or killed, no page and no page that
\* a process has read has two sections of a draft.
THEOREM PublishingInvariant == Spec => []PInv
BY PublishingInit, PublishingNext, PTL DEF Spec

LEMMA BoundsInit == Init => BoundsInv
<1> SUFFICES ASSUME Init PROVE BoundsInv
  OBVIOUS
<1>1. docPages \subseteq Docs
  BY PublishingAssumption DEF Init, Docs
<1>2. Active = {}
  BY DEF Init, Active, Processes, Idle
<1>3. IsFiniteSet(Active) /\ Cardinality(Active) = 0
  BY <1>2, FS_EmptySet
<1>4. \A p \in Processes : proc[p].pc = "idle" /\ proc[p].item = 0
  BY DEF Init, Idle
<1> QED BY <1>1, <1>3, <1>4, PublishingAssumption DEF Init, BoundsInv

LEMMA BoundsNext == PInv /\ BoundsInv /\ [Next]_vars => BoundsInv'
<1> SUFFICES ASSUME PInv, BoundsInv, [Next]_vars PROVE BoundsInv'
  OBVIOUS
<1>1. ASSUME NEW s \in Screens, OpenScreen(s) \/ CloseScreen(s) \/ Press(s) \/ QueuePublish(s)
      PROVE  BoundsInv'
  BY <1>1, BoundsScreen, BoundsPress
<1>2. ASSUME NEW c \in Clis, Command(c) PROVE BoundsInv'
  BY <1>2, BoundsCommand
<1>3. ASSUME NEW t \in Ticks, TickStep(t) PROVE BoundsInv'
  BY <1>3, BoundsTick, BoundsOperation DEF TickStep, Processes
<1>4. ASSUME NEW p \in Screens \cup Clis, Step(p) PROVE BoundsInv'
  BY <1>4, BoundsOperation DEF Processes
<1>5. CASE TimePasses \/ (\E d \in Drafts : Forget(d)) \/ (\E p \in Processes : Kill(p))
  BY <1>5, BoundsOutside
<1>6. CASE UNCHANGED vars
  BY <1>6 DEF vars, BoundsInv, Active
<1> QED BY <1>1, <1>2, <1>3, <1>4, <1>5, <1>6 DEF Next

\* Whatever fails, dies or is forgotten, no more items were ever put in the retry
\* queue than keys were pressed (worker.go QueuePublish, one Enqueue for a publish
\* that failed), a retried item goes back under its own id (RequeueItem), and a
\* page is only recorded and mapped for a draft with a document id.
THEOREM PublishingBounds == Spec => []BoundsInv
<1>1. PInv /\ BoundsInv /\ [Next]_vars => BoundsInv'
  BY BoundsNext
<1> QED BY <1>1, BoundsInit, PublishingInvariant, PTL DEF Spec

\* The types of Publishing: among them that a document which pages are mapped
\* to exists (SaveDocPage follows a publish that had an id), and that no more
\* items are queued than keys were pressed (QueuePublish, one Enqueue for a
\* publish that failed).
THEOREM PublishingTyped == Spec => []PublishingTypeOK
<1>1. PInv /\ BoundsInv => PublishingTypeOK
  <2> SUFFICES ASSUME PInv, BoundsInv PROVE PublishingTypeOK
    OBVIOUS
  <2>1. Rec = Record /\ Sect = Section
    BY DEF Rec, Record, Sect, Section, AnyDoc
  <2>2. queued \in Nat /\ Cardinality(Active) \in Nat /\ queued + Cardinality(Active) <= ops
        /\ ops \in 0..MaxOps
    BY FS_CardinalityType DEF PInv, TypeInv, BoundsInv
  <2>3. queued \in 0..MaxOps
    BY <2>2, PublishingAssumption
  <2>4. (\A n \in 1..queued : n \in 1..MaxOps) /\ \A n \in 0..queued : n \in 0..MaxOps
    BY <2>3, PublishingAssumption
  <2>5. \A page \in Seq(Sect) : Range(page) \subseteq Section
    BY <2>1 DEF Range
  <2>6. \A i \in QueueItem : i.id \in 1..queued => i \in Item
    BY <2>4 DEF QueueItem, Item
  <2>7. queue \subseteq Item /\ \A t \in Ticks : todo[t] \subseteq Item
    BY <2>6 DEF PInv, TypeInv, BoundsInv
  <2>8. <<>> \in SeqOf(Section, MaxOps)
    <3>1. <<>> \in [1..0 -> Section] /\ 0 \in 0..MaxOps
      BY PublishingAssumption
    <3> QED BY <3>1 DEF SeqOf
  <2>9. ASSUME NEW p \in Processes
        PROVE  /\ proc[p].rec \in Record
               /\ Range(proc[p].seen) \subseteq Section
               /\ [proc[p] EXCEPT !.seen = <<>>] \in Operation
    <3>1. proc[p] \in Op /\ proc[p].item \in 0..MaxOps
      BY <2>4 DEF PInv, TypeInv, BoundsInv
    <3>2. proc[p].rec \in Record /\ proc[p].seen \in Seq(Sect)
      BY <2>1, <3>1 DEF Op
    <3>3. [proc[p] EXCEPT !.seen = <<>>] \in Operation
      BY <2>1, <2>8, <3>1 DEF Op, Operation
    <3> QED BY <2>5, <3>2, <3>3
  <2>10. ASSUME NEW s \in Screens, NEW d \in DOMAIN screen[s].list
         PROVE  screen[s].list[d] \in Record
    BY <2>1 DEF PInv, TypeInv, OnScreen, Listed
  <2>11. \A doc \in Docs : Range(pages[doc]) \subseteq Section
    BY <2>5 DEF PInv, TypeInv
  <2> QED BY <2>1, <2>2, <2>3, <2>7, <2>9, <2>10, <2>11
       DEF PublishingTypeOK, PInv, TypeInv, BoundsInv
<1> QED BY <1>1, PublishingInvariant, PublishingBounds, PTL

\* However often a draft is published, queued and retried, by however many
\* processes at once, a page has one section of it (worker.go Publish, the
\* id it looks for in the text), as long as that id could be read.
THEOREM PublishedOnce == Spec => []SectionOnce
<1>1. PInv => SectionOnce
  BY DEF PInv, TypeInv, OnceInv, Distinct, SectionOnce
<1> QED BY <1>1, PublishingInvariant, PTL

----------------------------------------------------------------------------
\* What is recorded as published

LEMMA PutWrites ==
  ASSUME PInv, NEW p \in Processes, Put(p)
  PROVE  /\ \A doc \in Docs : pages[doc] # <<>> => pages'[doc] # <<>>
         /\ \/ proc' = [proc EXCEPT ![p] = Idle]
            \/ proc' = [proc EXCEPT ![p] = [proc[p] EXCEPT !.pc = "fail", !.seen = <<>>]]
            \/ \E rec \in Rec :
                 /\ proc' = [proc EXCEPT ![p] = [proc[p] EXCEPT !.pc = "record", !.seen = <<>>, !.rec = rec]]
                 /\ rec.ref \in Docs /\ pages'[rec.ref] # <<>>
<1>1. /\ proc[p] \in Op /\ proc[p].draft \in Drafts /\ proc[p].rec \in Rec
      /\ proc[p].seen \in Seq(Sect) /\ pages \in [Docs -> Seq(Sect)]
  BY DEF PInv, TypeInv, Op
<1> DEFINE section == [draft |-> proc[p].draft, text |-> proc[p].rec.text, marked |-> TRUE]
           page == PageWith(proc[p].seen, section)
           rec == [proc[p].rec EXCEPT !.status = "published", !.ref = proc[p].rec.doc]
<1>2. section \in Sect
  BY <1>1, Records DEF Sect
<1>3. page # <<>>
  <2> HIDE DEF section
  <2> QED BY <1>1, <1>2, PageWithSomething
<1>4. /\ rec \in Rec /\ rec.ref = proc[p].rec.doc /\ proc[p].rec.doc \in AnyDoc
  BY <1>1 DEF Rec
<1> DEFINE over == proc' = [proc EXCEPT ![p] =
             IF p \in Clis THEN Idle ELSE [@ EXCEPT !.pc = "fail", !.seen = <<>>]]
           written == [pages EXCEPT ![proc[p].rec.doc] = page]
           done == proc' = [proc EXCEPT ![p] =
             [@ EXCEPT !.pc = "record", !.seen = <<>>,
                       !.rec = [proc[p].rec EXCEPT !.status = "published",
                                                   !.ref = proc[p].rec.doc]]]
<1>5. \/ over /\ pages' \in {pages, written}
      \/ done /\ proc[p].rec.doc # NoDoc /\ pages' = written
  BY DEF Put, Fails
<1>6. over => \/ proc' = [proc EXCEPT ![p] = Idle]
              \/ proc' = [proc EXCEPT ![p] = [proc[p] EXCEPT !.pc = "fail", !.seen = <<>>]]
  OBVIOUS
<1>7. done => proc' = [proc EXCEPT ![p] = [proc[p] EXCEPT !.pc = "record", !.seen = <<>>, !.rec = rec]]
  OBVIOUS
<1>8. \A doc \in Docs : pages[doc] # <<>> => written[doc] # <<>>
  <2> HIDE DEF page
  <2> QED BY <1>1, <1>3
<1>9. proc[p].rec.doc \in Docs => written[proc[p].rec.doc] # <<>>
  <2> HIDE DEF page
  <2> QED BY <1>1, <1>3
<1>10. \A doc \in Docs : pages[doc] # <<>> => pages'[doc] # <<>>
  <2> HIDE DEF over, done, written
  <2> QED BY <1>5, <1>8
<1>11. CASE over
  <2> HIDE DEF over, done
  <2> QED BY <1>6, <1>10, <1>11
<1>12. CASE done /\ proc[p].rec.doc # NoDoc /\ pages' = written
  <2>1. rec.ref \in Docs
    BY <1>4, <1>12 DEF AnyDoc
  <2>2. pages'[rec.ref] # <<>>
    <3> HIDE DEF rec, done, written
    <3> QED BY <1>4, <1>9, <1>12, <2>1
  <2> HIDE DEF rec, done
  <2> QED BY <1>4, <1>7, <1>10, <1>12, <2>1, <2>2
<1> HIDE DEF over, done, written
<1> QED BY <1>5, <1>11, <1>12

\* A page once written is never empty again.
LEMMA PagesStay ==
  ASSUME PInv, [Next]_vars
  PROVE  \A doc \in Docs : pages[doc] # <<>> => pages'[doc] # <<>>
<1>1. pages' = pages \/ \E p \in Processes : Put(p)
  BY DEF Next, vars, OpenScreen, CloseScreen, Press, QueuePublish, Command, TickStep, DueQueue,
         TakeItem, Requeue, Dequeue, Step, Save, Ask, AcceptFirst, Look, RecordPublished,
         MapPage, TimePasses, Forget, Kill, Processes
<1> QED BY <1>1, PutWrites

LEMMA StaysOut ==
  ASSUME PInv, [Next]_vars, NEW rec \in Rec, Out(rec)
  PROVE  Out(rec)'
<1>1. rec.ref \in AnyDoc
  BY DEF Rec
<1>2. rec.ref # NoDoc => rec.ref \in Docs
  BY <1>1 DEF AnyDoc
<1> QED BY <1>2, PagesStay DEF Out

\* What may be done to a record that is out.
LEMMA OutRecords ==
  ASSUME NEW rec \in Rec, Out(rec)
  PROVE  /\ Out(NewDraft) /\ Out(Accepted(rec))
         /\ Out([rec EXCEPT !.status = "dismissed"])
         /\ \A text, doc : Out([rec EXCEPT !.text = text, !.doc = doc])
         /\ \A doc : Out([rec EXCEPT !.doc = doc])
         /\ \A text : Out([rec EXCEPT !.text = text, !.status = "draft"])
         /\ Out([rec EXCEPT !.status = IF @ \in {"draft", "accepted"} THEN "stale" ELSE @])
BY DEF Out, Rec, NewDraft, Accepted

\* The kinds of steps, by who takes them.
LEMMA StepKinds ==
  ASSUME [Next]_vars
  PROVE  \/ UNCHANGED vars \/ TimePasses
         \/ \E d \in Drafts : Forget(d)
         \/ \E s \in Screens : OpenScreen(s) \/ CloseScreen(s) \/ Press(s) \/ QueuePublish(s)
         \/ \E c \in Clis : Command(c)
         \/ \E t \in Ticks : DueQueue(t) \/ TakeItem(t) \/ Requeue(t) \/ Dequeue(t)
         \/ \E p \in Processes : Step(p) \/ Kill(p)
BY DEF Next, TickStep, Processes

\* Only records that are out are saved.
LEMMA StoredOut ==
  ASSUME PInv, PInv', OutInv, [Next]_vars
  PROVE  \A d \in Drafts : Out(stored[d])'
<1>1. /\ stored \in [Drafts -> Rec] /\ \A d \in Drafts : Out(stored[d])
      /\ \A p \in Processes : proc[p].rec \in Rec /\ Out(proc[p].rec) /\ proc[p].draft \in Drafts
  BY DEF PInv, TypeInv, Op, OutInv
<1>2. \/ stored' = stored
      \/ \E p \in Processes : SaveRecord(p, proc[p].rec)
      \/ \E d \in Drafts : Forget(d)
  <2>1. ASSUME NEW s \in Screens, OpenScreen(s) \/ CloseScreen(s) \/ Press(s) \/ QueuePublish(s)
        PROVE  stored' = stored
    BY <2>1 DEF OpenScreen, CloseScreen, Press, QueuePublish
  <2>2. ASSUME NEW t \in Ticks, DueQueue(t) \/ TakeItem(t) \/ Requeue(t) \/ Dequeue(t)
        PROVE  stored' = stored
    BY <2>2 DEF DueQueue, TakeItem, Requeue, Dequeue
  <2>3. ASSUME NEW p \in Processes, Step(p)
        PROVE  stored' = stored \/ SaveRecord(p, proc[p].rec)
    <3>1. CASE Ask(p) \/ Look(p) \/ Put(p) \/ MapPage(p)
      BY <3>1 DEF Ask, Look, Put, MapPage
    <3>2. CASE Save(p) \/ AcceptFirst(p) \/ RecordPublished(p)
      BY <3>2 DEF Save, AcceptFirst, RecordPublished
    <3> QED BY <2>3, <3>1, <3>2 DEF Step
  <2>4. \/ UNCHANGED vars \/ TimePasses \/ (\E c \in Clis : Command(c))
        \/ (\E p \in Processes : Kill(p))
        => stored' = stored
    BY DEF vars, TimePasses, Command, Kill
  <2> QED BY <2>1, <2>2, <2>3, <2>4, StepKinds
<1>3. SUFFICES ASSUME NEW d \in Drafts PROVE Out(stored'[d]) /\ stored'[d] \in Rec
  <2>1. \A d \in Drafts : stored'[d] \in Rec
    BY DEF PInv, TypeInv
  <2>2. \A rec \in Rec : Out(rec) => (rec.status = "published" => rec.ref # NoDoc /\ pages'[rec.ref] # <<>>)
    BY StaysOut DEF Out
  <2> QED BY <1>3, <2>1, <2>2 DEF Out
<1>4. stored'[d] \in Rec
  BY DEF PInv, TypeInv
<1>5. CASE stored' = stored
  BY <1>1, <1>5
<1>6. ASSUME NEW p \in Processes, SaveRecord(p, proc[p].rec) PROVE Out(stored'[d])
  <2>1. stored'[d] \in {stored[d], proc[p].rec}
    BY <1>1, <1>6 DEF SaveRecord
  <2> QED BY <1>1, <2>1
<1>7. ASSUME NEW e \in Drafts, Forget(e) PROVE Out(stored'[d])
  <2> DEFINE stale == [stored[d] EXCEPT !.status = IF @ \in {"draft", "accepted"} THEN "stale" ELSE @]
  <2>1. stored'[d] \in {stored[d], stale}
    BY <1>1, <1>7 DEF Forget
  <2>2. Out(stale)
    BY <1>1, OutRecords
  <2> HIDE DEF stale
  <2> QED BY <1>1, <2>1, <2>2
<1> QED BY <1>2, <1>4, <1>5, <1>6, <1>7

\* One process changes: the record it then has is out.
LEMMA HeldOne ==
  ASSUME PInv, OutInv, [Next]_vars, NEW p \in Processes, NEW o,
         proc' = [proc EXCEPT ![p] = o], o.rec \in Rec, Out(o.rec)
  PROVE  \A q \in Processes : Out(proc[q].rec)'
<1> SUFFICES ASSUME NEW q \in Processes PROVE Out(proc[q].rec)'
  OBVIOUS
<1>1. \A r \in Rec : Out(r) => (r.status = "published" => r.ref # NoDoc /\ pages'[r.ref] # <<>>)
  BY StaysOut DEF Out
<1>2. proc \in [Processes -> Op] /\ proc[q].rec \in Rec /\ Out(proc[q].rec)
  BY DEF PInv, TypeInv, Op, OutInv
<1>3. proc'[q].rec \in Rec /\ Out(proc'[q].rec)
  BY <1>2
<1> QED BY <1>1, <1>3 DEF Out

\* The record of an operation that begins is the one it is begun with.
LEMMA BegunWith ==
  ASSUME NEW pc, NEW d, NEW rec, NEW item
  PROVE  /\ [Idle EXCEPT !.pc = pc, !.draft = d, !.rec = rec].rec = rec
         /\ [Idle EXCEPT !.pc = pc, !.draft = d, !.rec = rec, !.item = item].rec = rec
         /\ [Idle EXCEPT !.draft = d, !.rec = rec].rec = rec
         /\ [Idle EXCEPT !.pc = pc, !.item = item].rec = NewDraft
         /\ Idle.rec = NewDraft
BY DEF Idle

LEMMA FreshOut == NewDraft \in Rec /\ Out(NewDraft) /\ Idle.rec = NewDraft
BY PublishingAssumption DEF NewDraft, Rec, AnyDoc, Out, Idle

\* A key or a command begins an operation with a record that is out.
LEMMA HeldBegun ==
  ASSUME PInv, OutInv, [Next]_vars, NEW p \in Processes, NEW d \in Drafts,
         NEW rec \in Rec, Out(rec), NEW docs \in SUBSET AnyDoc,
         \/ Accept(p, d, rec) \/ Dismiss(p, d, rec) \/ Publish(p, d, rec)
         \/ Edit(p, d, rec) \/ Regenerate(p, d, rec) \/ Merge(p, d, rec, docs)
  PROVE  \A q \in Processes : Out(proc[q].rec)'
<1>1. ASSUME NEW pc, NEW r \in Rec, Out(r), Begin(p, d, pc, r)
      PROVE  \A q \in Processes : Out(proc[q].rec)'
  <2> DEFINE o == [Idle EXCEPT !.pc = pc, !.draft = d, !.rec = r]
  <2>1. o.rec = r
    BY BegunWith
  <2>2. proc' = [proc EXCEPT ![p] = o]
    BY <1>1 DEF Begin
  <2> HIDE DEF o
  <2> QED BY <1>1, <2>1, <2>2, HeldOne
<1>2. Mint(rec) => Accepted(rec) \in Rec /\ Out(Accepted(rec))
  BY MintedDoc, OutRecords
<1>3. CASE Accept(p, d, rec)
  BY <1>1, <1>2, <1>3 DEF Accept
<1>4. CASE Dismiss(p, d, rec)
  BY <1>1, <1>4, Records, OutRecords DEF Dismiss
<1>5. CASE Publish(p, d, rec)
  BY <1>1, <1>2, <1>5 DEF Publish
<1>6. CASE Edit(p, d, rec)
  <2>1. PICK doc \in {rec.doc, NoDoc} :
          Begin(p, d, "save", [rec EXCEPT !.text = edits + 1, !.doc = doc])
    BY <1>6 DEF Edit
  <2>2. doc \in AnyDoc /\ edits + 1 \in 0..MaxEdits
    <3>1. doc \in AnyDoc
      BY <2>1, Records DEF AnyDoc
    <3>2. edits \in 0..MaxEdits /\ edits < MaxEdits
      BY <1>6 DEF PInv, TypeInv, Edit
    <3> QED BY <3>1, <3>2, PublishingAssumption
  <2>3. [rec EXCEPT !.text = edits + 1, !.doc = doc] \in Rec
    BY <2>2, Records
  <2>4. Out([rec EXCEPT !.text = edits + 1, !.doc = doc])
    BY OutRecords
  <2> QED BY <1>1, <2>1, <2>3, <2>4
<1>7. CASE Regenerate(p, d, rec)
  BY <1>1, <1>7 DEF Regenerate
<1>8. CASE Merge(p, d, rec, docs)
  <2>1. PICK doc \in docs : Begin(p, d, "save", [rec EXCEPT !.doc = doc])
    BY <1>8 DEF Merge
  <2>2. [rec EXCEPT !.doc = doc] \in Rec /\ Out([rec EXCEPT !.doc = doc])
    BY Records, OutRecords
  <2> QED BY <1>1, <2>1, <2>2
<1> QED BY <1>3, <1>4, <1>5, <1>6, <1>7, <1>8

\* What an operation leaves in memory.
LEMMA RestOut ==
  ASSUME PInv, OutInv, NEW p \in Processes
  PROVE  /\ AtRest(p).rec \in Rec /\ Out(AtRest(p).rec)
         /\ proc[p].rec \in Rec /\ Out(proc[p].rec)
<1>1. proc[p].rec \in Rec /\ Out(proc[p].rec)
  BY DEF PInv, TypeInv, Op, OutInv
<1> QED BY <1>1, FreshOut, BegunWith DEF AtRest

LEMMA HeldStep ==
  ASSUME PInv, OutInv, [Next]_vars, NEW p \in Processes, Step(p)
  PROVE  \A q \in Processes : Out(proc[q].rec)'
<1>1. proc[p] \in Op /\ proc[p].rec \in Rec /\ Out(proc[p].rec)
  BY DEF PInv, TypeInv, Op, OutInv
<1>2. \A pc, seen : /\ [proc[p] EXCEPT !.pc = pc].rec = proc[p].rec
                    /\ [proc[p] EXCEPT !.pc = pc, !.seen = seen].rec = proc[p].rec
  BY <1>1 DEF Op
<1>3. CASE Save(p) \/ MapPage(p)
  <2> DEFINE o == IF p \in Ticks THEN [Idle EXCEPT !.pc = "drop", !.item = proc[p].item]
                                 ELSE AtRest(p)
  <2>1. o.rec \in Rec /\ Out(o.rec)
    BY RestOut, FreshOut, BegunWith
  <2>2. proc' = [proc EXCEPT ![p] = o]
    BY <1>3 DEF Save, MapPage, Done
  <2> HIDE DEF o
  <2> QED BY <2>1, <2>2, HeldOne
<1>4. CASE Ask(p)
  <2>1. CASE proc' = [proc EXCEPT ![p] = AtRest(p)]
    BY <2>1, RestOut, HeldOne
  <2>2. CASE /\ edits < MaxEdits
             /\ proc' = [proc EXCEPT ![p].pc = "save", ![p].rec.text = edits + 1,
                                     ![p].rec.status = "draft"]
    <3> DEFINE rec == [proc[p].rec EXCEPT !.text = edits + 1, !.status = "draft"]
               o == [proc[p] EXCEPT !.pc = "save", !.rec = rec]
    <3>1. edits + 1 \in 0..MaxEdits
      BY <2>2, PublishingAssumption DEF PInv, TypeInv
    <3>2. rec \in Rec /\ Out(rec)
      BY <1>1, <3>1, Records, OutRecords
    <3>3. \A r : [proc[p] EXCEPT !.pc = "save", !.rec = r].rec = r
      BY <1>1 DEF Op
    <3>4. proc \in [Processes -> Op] /\ DOMAIN proc[p].rec = DOMAIN rec
      BY <1>1 DEF PInv, TypeInv
    <3>5. proc'[p] = o
      BY <2>2, <3>4, <1>1 DEF Op
    <3>6. proc' = [proc EXCEPT ![p] = proc'[p]]
      BY <2>2, <3>4
    <3>7. o.rec = rec /\ proc' = [proc EXCEPT ![p] = o]
      BY <3>3, <3>5, <3>6
    <3> HIDE DEF o, rec
    <3> QED BY <3>2, <3>7, HeldOne
  <2> QED BY <1>4, <2>1, <2>2 DEF Ask
<1>5. CASE AcceptFirst(p) \/ RecordPublished(p)
  <2>1. PICK pc \in {"look", "map"} : proc' = [proc EXCEPT ![p] = [proc[p] EXCEPT !.pc = pc]]
    BY <1>5 DEF AcceptFirst, RecordPublished
  <2> QED BY <1>1, <1>2, <2>1, HeldOne
<1>6. CASE Look(p)
  <2>1. PICK seen \in {Page(proc[p].rec.doc), Unmarked(Page(proc[p].rec.doc)), <<>>} :
          proc' = [proc EXCEPT ![p] = [proc[p] EXCEPT !.pc = "put", !.seen = seen]]
    BY <1>6 DEF Look
  <2> DEFINE o == [proc[p] EXCEPT !.pc = "put", !.seen = seen]
  <2>2. o.rec = proc[p].rec
    BY <1>2
  <2> HIDE DEF o
  <2> QED BY <1>1, <2>1, <2>2, HeldOne DEF o
<1>7. CASE Put(p)
  <2>1. CASE proc' = [proc EXCEPT ![p] = Idle]
    BY <2>1, FreshOut, HeldOne
  <2>2. CASE proc' = [proc EXCEPT ![p] = [proc[p] EXCEPT !.pc = "fail", !.seen = <<>>]]
    BY <1>1, <1>2, <2>2, HeldOne
  <2>3. ASSUME NEW rec \in Rec,
               proc' = [proc EXCEPT ![p] = [proc[p] EXCEPT !.pc = "record", !.seen = <<>>, !.rec = rec]],
               rec.ref \in Docs, pages'[rec.ref] # <<>>
        PROVE  \A q \in Processes : Out(proc[q].rec)'
    <3> SUFFICES ASSUME NEW q \in Processes PROVE Out(proc[q].rec)'
      OBVIOUS
    <3>1. \A r \in Rec : Out(r) => (r.status = "published" => r.ref # NoDoc /\ pages'[r.ref] # <<>>)
      BY StaysOut DEF Out
    <3>2. proc \in [Processes -> Op] /\ proc[q].rec \in Rec /\ Out(proc[q].rec)
      BY DEF PInv, TypeInv, Op, OutInv
    <3>3. \A r : [proc[p] EXCEPT !.pc = "record", !.seen = <<>>, !.rec = r].rec = r
      BY <1>1 DEF Op
    <3>4. proc'[q].rec = IF q = p THEN rec ELSE proc[q].rec
      BY <2>3, <3>2, <3>3
    <3>5. rec.ref # NoDoc
      BY <2>3, PublishingAssumption DEF Docs, NoDoc
    <3> QED BY <2>3, <3>1, <3>2, <3>4, <3>5 DEF Out
  <2> QED BY <1>7, <2>1, <2>2, <2>3, PutWrites
<1> QED BY <1>3, <1>4, <1>5, <1>6, <1>7 DEF Step

LEMMA HeldOut ==
  ASSUME PInv, OutInv, [Next]_vars
  PROVE  \A q \in Processes : Out(proc[q].rec)'
<1>1. ASSUME NEW p \in Processes, Step(p) PROVE \A q \in Processes : Out(proc[q].rec)'
  BY <1>1, HeldStep
<1>2. CASE UNCHANGED proc
  <2>1. \A q \in Processes : proc[q].rec \in Rec /\ Out(proc[q].rec)
    BY RestOut
  <2>2. \A r \in Rec : Out(r) => (r.status = "published" => r.ref # NoDoc /\ pages'[r.ref] # <<>>)
    BY StaysOut DEF Out
  <2> QED BY <1>2, <2>1, <2>2 DEF Out
<1>3. ASSUME NEW s \in Screens, CloseScreen(s) \/ QueuePublish(s)
      PROVE  \A q \in Processes : Out(proc[q].rec)'
  <2>1. s \in Processes
    BY DEF Processes
  <2>2. CASE proc' = [proc EXCEPT ![s] = Idle]
    BY <2>1, <2>2, FreshOut, HeldOne
  <2>3. CASE proc' = [proc EXCEPT ![s] = AtRest(s)]
    BY <2>1, <2>3, RestOut, HeldOne
  <2> QED BY <1>3, <2>2, <2>3 DEF CloseScreen, QueuePublish
<1>4. ASSUME NEW s \in Screens, Press(s) PROVE \A q \in Processes : Out(proc[q].rec)'
  <2>5. PICK d \in DOMAIN screen[s].list, detail \in BOOLEAN :
          \E rec \in OnHand(s, d), k \in Keys : Key(s, k, detail, d, rec)
    BY <1>4 DEF Press
  <2>1. PICK rec \in OnHand(s, d), k \in Keys : Key(s, k, detail, d, rec)
    BY <2>5
  <2>2. s \in Processes /\ screen[s] \in OnScreen
    BY DEF PInv, TypeInv, Processes
  <2>3. d \in Drafts /\ screen[s].list[d] \in Rec /\ screen[s].docs \in SUBSET AnyDoc
    BY <2>2 DEF OnScreen, Listed
  <2>4. rec \in Rec /\ Out(rec)
    <3>1. Out(screen[s].list[d])
      BY DEF OutInv
    <3>2. proc[s].rec \in Rec /\ Out(proc[s].rec)
      BY <2>2, RestOut
    <3> QED BY <2>3, <3>1, <3>2 DEF OnHand
  <2> QED BY <2>1, <2>2, <2>3, <2>4, HeldBegun DEF Key
<1>5. ASSUME NEW c \in Clis, Command(c) PROVE \A q \in Processes : Out(proc[q].rec)'
  <2>1. PICK d \in Drafts : \/ Accept(c, d, stored[d]) \/ Dismiss(c, d, stored[d])
                            \/ Publish(c, d, stored[d]) \/ Edit(c, d, stored[d])
    BY <1>5 DEF Command
  <2>2. stored[d] \in Rec /\ Out(stored[d]) /\ c \in Processes
    BY DEF PInv, TypeInv, OutInv, Processes
  <2> QED BY <2>1, <2>2, HeldBegun
<1>6. ASSUME NEW t \in Ticks, TakeItem(t) PROVE \A q \in Processes : Out(proc[q].rec)'
  <2> DEFINE Goes(i, pc, rec) == proc' = [proc EXCEPT ![t] =
               [Idle EXCEPT !.pc = pc, !.draft = i.draft, !.rec = rec, !.item = i.id]]
  <2>1. PICK i \in todo[t] :
          \/ Goes(i, "drop", stored[i.draft]) \/ Goes(i, "look", stored[i.draft])
          \/ Goes(i, "accept", Accepted(stored[i.draft])) /\ Mint(stored[i.draft])
    BY <1>6 DEF TakeItem
  <2>2. PICK pc, rec :
          /\ Goes(i, pc, rec)
          /\ \/ rec = stored[i.draft]
             \/ rec = Accepted(stored[i.draft]) /\ Mint(stored[i.draft])
    <3> HIDE DEF Goes
    <3> QED BY <2>1
  <2>3. t \in Processes /\ i.draft \in Drafts
    BY DEF PInv, TypeInv, Processes, QueueItem
  <2>4. stored[i.draft] \in Rec /\ Out(stored[i.draft])
    BY <2>3 DEF PInv, TypeInv, OutInv
  <2>5. rec \in Rec /\ Out(rec)
    BY <2>2, <2>4, MintedDoc, OutRecords
  <2> DEFINE o == [Idle EXCEPT !.pc = pc, !.draft = i.draft, !.rec = rec, !.item = i.id]
  <2>6. o.rec = rec /\ proc' = [proc EXCEPT ![t] = o]
    BY <2>2, BegunWith
  <2> HIDE DEF o
  <2> QED BY <2>3, <2>5, <2>6, HeldOne
<1>7. ASSUME NEW p \in Processes, proc' = [proc EXCEPT ![p] = Idle]
      PROVE  \A q \in Processes : Out(proc[q].rec)'
  BY <1>7, FreshOut, HeldOne
<1>8. ASSUME NEW t \in Ticks, TickStep(t) PROVE \A q \in Processes : Out(proc[q].rec)'
  BY <1>1, <1>2, <1>6, <1>7, <1>8 DEF TickStep, DueQueue, Requeue, Dequeue, Processes
<1>9. ASSUME NEW s \in Screens, OpenScreen(s) PROVE UNCHANGED proc
  BY <1>9 DEF OpenScreen
<1>10. TimePasses \/ (\E d \in Drafts : Forget(d)) \/ UNCHANGED vars => UNCHANGED proc
  BY DEF TimePasses, Forget, vars
<1>11. ASSUME NEW p \in Processes, Kill(p) PROVE proc' = [proc EXCEPT ![p] = Idle]
  BY <1>11 DEF Kill
<1> QED BY <1>1, <1>2, <1>3, <1>4, <1>5, <1>7, <1>8, <1>9, <1>10, <1>11 DEF Next, Processes

\* A screen shows rows as they were stored, and puts back the records of
\* operations that ended.
LEMMA ShownOut ==
  ASSUME PInv, PInv', OutInv, [Next]_vars
  PROVE  (\A s \in Screens : \A d \in DOMAIN screen[s].list : Out(screen[s].list[d]))'
<1> DEFINE Fine(shown) ==
      \A d \in DOMAIN shown : shown[d] \in Rec /\ Out(shown[d])
<1>1. /\ screen \in [Screens -> OnScreen] /\ screen' \in [Screens -> OnScreen]
      /\ \A s \in Screens : Fine(screen[s].list)
  BY DEF PInv, TypeInv, OnScreen, Listed, OutInv
<1>2. SUFFICES ASSUME NEW s \in Screens PROVE Fine(screen'[s].list)
  <2>1. \A r \in Rec : Out(r) => (r.status = "published" => r.ref # NoDoc /\ pages'[r.ref] # <<>>)
    BY StaysOut DEF Out
  <2>2. \A s \in Screens : \A d \in DOMAIN screen'[s].list :
          screen'[s].list[d] \in Rec /\ Out(screen'[s].list[d])
    BY <1>2
  <2> QED BY <2>1, <2>2 DEF Out
<1>3. /\ stored \in [Drafts -> Rec] /\ \A d \in Drafts : Out(stored[d])
      /\ \A p \in Processes : proc[p].rec \in Rec /\ Out(proc[p].rec)
  BY RestOut DEF PInv, TypeInv, OutInv
<1>4. Fine(screen[s].list)
  BY <1>1
<1>5. ASSUME screen'[s].list = screen[s].list PROVE Fine(screen'[s].list)
  BY <1>4, <1>5
<1>6. ASSUME NEW u \in Screens, OpenScreen(u) PROVE Fine(screen'[s].list)
  <2>1. PICK shown \in SUBSET Drafts :
          screen' = [screen EXCEPT ![u] =
            [open |-> TRUE, list |-> [d \in shown |-> stored[d]], detail |-> FALSE,
             docs |-> docPages \cup (RecentDocs \ {NoDoc})]]
    BY <1>6 DEF OpenScreen
  <2> DEFINE list == [d \in shown |-> stored[d]]
  <2>2. Fine(list)
    BY <1>3
  <2>3. screen'[s].list = list \/ screen'[s].list = screen[s].list
    BY <1>1, <2>1
  <2> HIDE DEF list, Fine
  <2> QED BY <1>4, <2>2, <2>3
<1>7. ASSUME NEW p \in Processes, Done(p) PROVE Fine(screen'[s].list)
  <2>1. CASE p \in Screens
    <3> DEFINE list == [screen[p].list EXCEPT ![proc[p].draft] = proc[p].rec]
    <3>1. screen' = [screen EXCEPT ![p] = [screen[p] EXCEPT !.list = list]]
      BY <1>7, <2>1 DEF Done
    <3>2. Fine(list)
      BY <1>1, <1>3, <2>1
    <3>3. \A x : [screen[p] EXCEPT !.list = x].list = x
      BY <1>1, <2>1 DEF OnScreen
    <3>4. screen'[s].list = list \/ screen'[s].list = screen[s].list
      <4> HIDE DEF list
      <4> QED BY <1>1, <3>1, <3>3
    <3> HIDE DEF list, Fine
    <3> QED BY <1>4, <3>2, <3>4
  <2>2. CASE p \notin Screens
    BY <1>5, <1>7, <2>2 DEF Done
  <2> QED BY <2>1, <2>2
<1>8. ASSUME NEW u \in Screens, screen' = [screen EXCEPT ![u] = Closed] PROVE Fine(screen'[s].list)
  <2>1. Fine(Closed.list)
    BY DEF Closed
  <2>2. screen'[s].list = Closed.list \/ screen'[s].list = screen[s].list
    BY <1>1, <1>8
  <2> HIDE DEF Fine
  <2> QED BY <1>4, <2>1, <2>2
<1>9. ASSUME NEW u \in Screens, Press(u) PROVE screen'[s].list = screen[s].list
  <2>1. PICK detail \in BOOLEAN : screen' = [screen EXCEPT ![u] = [screen[u] EXCEPT !.detail = detail]]
    BY <1>9 DEF Press
  <2>2. [screen[u] EXCEPT !.detail = detail].list = screen[u].list
    BY <1>1 DEF OnScreen
  <2> QED BY <1>1, <2>1, <2>2
<1>10. \/ UNCHANGED screen \/ (\E u \in Screens : OpenScreen(u) \/ Press(u))
       \/ (\E p \in Processes : Done(p)) \/ (\E u \in Screens : screen' = [screen EXCEPT ![u] = Closed])
  <2>1. ASSUME NEW u \in Screens, CloseScreen(u) \/ QueuePublish(u)
        PROVE  screen' = [screen EXCEPT ![u] = Closed] \/ UNCHANGED screen
    BY <2>1 DEF CloseScreen, QueuePublish
  <2>2. ASSUME NEW t \in Ticks, DueQueue(t) \/ TakeItem(t) \/ Requeue(t) \/ Dequeue(t)
        PROVE  UNCHANGED screen
    BY <2>2 DEF DueQueue, TakeItem, Requeue, Dequeue
  <2>3. ASSUME NEW p \in Processes, Step(p) PROVE UNCHANGED screen \/ Done(p)
    <3>1. CASE AcceptFirst(p) \/ Look(p) \/ Put(p) \/ RecordPublished(p)
      BY <3>1 DEF AcceptFirst, Look, Put, RecordPublished
    <3>2. CASE Save(p) \/ Ask(p) \/ MapPage(p)
      BY <3>2 DEF Save, Ask, MapPage
    <3> QED BY <2>3, <3>1, <3>2 DEF Step
  <2>4. ASSUME NEW p \in Processes, Kill(p)
        PROVE  UNCHANGED screen \/ \E u \in Screens : screen' = [screen EXCEPT ![u] = Closed]
    BY <2>4 DEF Kill
  <2>5. \/ UNCHANGED vars \/ TimePasses \/ (\E d \in Drafts : Forget(d))
        \/ (\E c \in Clis : Command(c))
        => UNCHANGED screen
    BY DEF vars, TimePasses, Forget, Command
  <2> HIDE DEF Fine
  <2>6. Screens \subseteq Processes
    BY DEF Processes
  <2> QED BY <2>1, <2>2, <2>3, <2>4, <2>5, <2>6, StepKinds
<1> HIDE DEF Fine
<1> QED BY <1>5, <1>6, <1>7, <1>8, <1>9, <1>10

LEMMA OutFirst == Init => OutInv
<1> SUFFICES ASSUME Init PROVE OutInv
  OBVIOUS
<1>1. PICK out \in {{}, {SomeDraft}} :
        /\ pages = [doc \in Docs |-> IF doc = 1 /\ out # {}
                                    THEN <<[draft |-> SomeDraft, text |-> 0, marked |-> TRUE]>> ELSE <<>>]
        /\ \E related \in docPages \cup {NoDoc} :
             stored = [d \in Drafts |->
               IF d \in out THEN [status |-> "published", doc |-> 1, text |-> 0, ref |-> 1]
                            ELSE [NewDraft EXCEPT !.doc = related]]
  BY DEF Init
<1>2. 1 \in Docs /\ NoDoc # 1
  BY PublishingAssumption DEF Docs, NoDoc
<1>3. ASSUME NEW d \in Drafts PROVE Out(stored[d])
  <2> DEFINE first == <<[draft |-> SomeDraft, text |-> 0, marked |-> TRUE]>>
  <2>1. CASE d \in out
    <3>1. stored[d].ref = 1 /\ out # {}
      BY <1>1, <2>1
    <3>2. pages[1] = first
      BY <1>1, <1>2, <3>1
    <3> QED BY <1>2, <3>1, <3>2 DEF Out
  <2>2. CASE d \notin out
    <3>1. stored[d].status = "draft"
      BY <1>1, <2>2 DEF NewDraft
    <3> QED BY <3>1 DEF Out
  <2> QED BY <2>1, <2>2
<1>4. \A p \in Processes : Out(proc[p].rec)
  BY FreshOut DEF Init
<1>5. \A s \in Screens : DOMAIN screen[s].list = {}
  BY DEF Init, Closed
<1> QED BY <1>3, <1>4, <1>5 DEF OutInv

\* Whatever is pressed, started, retried, lost or killed, and however old the
\* record that is saved whole, a draft recorded as published (which RetryQueue
\* only takes off the queue) has been written to the page its record names.
THEOREM PublishedAreOut == Spec => []PublishedIsOut
<1>1. PInv /\ PInv' /\ OutInv /\ [Next]_vars => OutInv'
  <2> SUFFICES ASSUME PInv, PInv', OutInv, [Next]_vars PROVE OutInv'
    OBVIOUS
  <2>1. \A d \in Drafts : Out(stored[d])'
    BY StoredOut
  <2>2. \A p \in Processes : Out(proc[p].rec)'
    BY HeldOut
  <2>3. (\A s \in Screens : \A d \in DOMAIN screen[s].list : Out(screen[s].list[d]))'
    BY ShownOut
  <2> QED BY <2>1, <2>2, <2>3 DEF OutInv
<1>2. OutInv => PublishedIsOut
  BY DEF OutInv, Out, PublishedIsOut
<1> QED BY <1>1, <1>2, OutFirst, PublishingInvariant, PTL DEF Spec
=============================================================================
