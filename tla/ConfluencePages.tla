-------------------------- MODULE ConfluencePages --------------------------
(***************************************************************************)
(* The Confluence provider (internal/docs/confluence).  A page carries a   *)
(* document when a content property of it says so; the property, set by a  *)
(* request after the one that wrote the page, also holds the Markdown Get  *)
(* returns.  One action per request; Confluence refuses a title that is    *)
(* taken and an update with a stale version number.                        *)
(***************************************************************************)
EXTENDS Provider

CONSTANTS
  Title,        \* the title of a document; documents may share one
  MaxPages,     \* bound on pages
  SearchFails   \* a search, or reading the page it found, may fail

ASSUME ConfluenceAssumption == MaxPages \in Nat \ {0} /\ SearchFails \in BOOLEAN

VARIABLES
  page,      \* the space, by page id
  made,      \* page ids handed out
  section,   \* whether the page the documents are placed under exists
  cache,     \* pageIDs: the page a provider remembers for a document
  docPage,   \* doc_pages, which the cache of a new process is filled from
  job,       \* the publish each process is in
  published, faults, readers  \* what the bounds count

cvars == <<page, made, section, cache, docPage, job, published, faults, readers>>

PageIds == 1..MaxPages
Tries == 1..4
Names == {Title[d] : d \in Docs}
NoPage == [title |-> <<None, None>>]
NoProp == [doc |-> None, text |-> None, ver |-> 0, of |-> 0]

\* shown is the text of the page (None for a reader's own) and whose footer it
\* has; prop is the content property: its own version, and the version of the
\* page it was written for.
Shown == [doc : Docs \cup {None}, text : Texts \cup {None}]
Page == [title : Names \X Tries, ver : Nat, shown : Shown, limited : BOOLEAN,
         prop : [doc : Docs \cup {None}, text : Texts \cup {None}, ver : Nat, of : Nat]]

NoJob == [pc |-> "idle"]

ConfluenceTypeOK ==
  /\ \A i \in PageIds : page[i] # NoPage => page[i] \in Page /\ page[i].prop.of <= page[i].ver
  /\ made \in 0..MaxPages /\ section \in BOOLEAN
  /\ cache \in [Publishers -> [Docs -> PageIds \cup {None}]]
  /\ docPage \in [Docs -> PageIds \cup {None}]
  /\ \A p \in Publishers :
       job[p] = NoJob \/
         /\ job[p].pc \in {"parent", "mkparent", "find", "search", "read",
                           "update", "create", "row", "prop", "restrict", "done",
                           "failed"}
         /\ job[p].doc \in Docs /\ job[p].text \in Texts
         /\ job[p].at \in PageIds \cup {None} /\ job[p].try \in Tries
         /\ job[p].looked \in BOOLEAN /\ job[p].again \in BOOLEAN

\* The space may hold a page of a reader's with a document's title, which
\* names that document's id in its text.
ConfluenceInit ==
  /\ \E own \in {{}} \cup {{d} : d \in Docs} :
       /\ page = [i \in PageIds |->
            IF i = 1 /\ own # {}
            THEN [title |-> <<Title[CHOOSE d \in own : TRUE], 1>>, ver |-> 1,
                  shown |-> [doc |-> None, text |-> None], prop |-> NoProp,
                  limited |-> FALSE]
            ELSE NoPage]
       /\ made = Cardinality(own)
  /\ section = FALSE
  /\ cache = [p \in Publishers |-> [d \in Docs |-> None]]
  /\ docPage = [d \in Docs |-> None]
  /\ job = [p \in Publishers |-> NoJob]
  /\ published = 0 /\ faults = 0 /\ readers = 0

Carries(i, d) == page[i] # NoPage /\ page[i].prop.doc = d
Taken(title, except) == \E i \in PageIds \ except : page[i].title = title

----------------------------------------------------------------------------
\* Requests

Goto(p, pc) == job' = [job EXCEPT ![p].pc = pc]
Fail(p) == Goto(p, "failed")

Faulty == faults < MaxFaults /\ faults' = faults + 1

\* A request that only reads: it is answered, or fails after its retries.
Reads(answered, failed) ==
  \/ answered /\ UNCHANGED faults
  \/ failed /\ Faulty

\* A request that writes is answered; or fails and had its effect or had not.
\* (do sends it again after a 429 or a 5xx, which may come after the effect:
\* then refused tells what the second one gets.)
Writes(p, effect, answered, refused) ==
  \/ effect /\ answered /\ UNCHANGED faults
  \/ effect /\ Fail(p) /\ Faulty
  \/ UNCHANGED page /\ UNCHANGED made /\ Fail(p) /\ Faulty
  \/ effect /\ refused /\ Faulty

----------------------------------------------------------------------------
\* Publish: EnsureHierarchy, then Upsert

CStart(p) ==
  /\ job[p] = NoJob /\ published < MaxPublishes
  /\ \E d \in Docs, t \in Texts :
       /\ Apart => \A q \in Publishers : job[q] # NoJob => job[q].doc # d
       /\ job' = [job EXCEPT ![p] = [pc |-> "parent", doc |-> d, text |-> t,
                    at |-> None, ver |-> 0, wrote |-> 0, try |-> 1, looked |-> FALSE,
                    again |-> FALSE]]
  /\ published' = published + 1
  /\ UNCHANGED <<page, made, section, cache, docPage, faults, readers>>

\* Before looking for the document's page, and again before making one.
AfterParent(p) == IF job[p].looked THEN "create" ELSE "find"

LookParent(p) ==
  /\ job[p].pc = "parent"
  /\ Reads(Goto(p, IF section THEN AfterParent(p) ELSE "mkparent"), Fail(p))
  /\ UNCHANGED <<page, made, section, cache, docPage, published, readers>>

\* The title may be taken by now.
MakeParent(p) ==
  /\ job[p].pc = "mkparent"
  /\ \/ section /\ Fail(p) /\ UNCHANGED <<section, faults>>
     \/ ~section /\ section' = TRUE /\ Goto(p, AfterParent(p)) /\ UNCHANGED faults
     \/ section' \in {section, TRUE} /\ Fail(p) /\ Faulty
  /\ UNCHANGED <<page, made, cache, docPage, published, readers>>

\* Find asks the page it remembers, if any, whether it still carries the
\* document, and forgets the page otherwise.
AskRemembered(p) ==
  LET d == job[p].doc
      i == cache[p][d]
      forget == /\ Goto(p, "search")
                /\ cache' = [cache EXCEPT ![p][d] = None]
  IN /\ job[p].pc = "find"
     /\ \/ i = None /\ Goto(p, "search") /\ UNCHANGED <<cache, faults>>
        \/ /\ i # None
           /\ Reads(IF Carries(i, d)
                    THEN job' = [job EXCEPT ![p].pc = "read", ![p].at = i] /\ UNCHANGED cache
                    ELSE forget, forget)
     /\ UNCHANGED <<page, made, section, docPage, published, readers>>

\* Mutants: a page with the id in its text will do; only the cache is asked.
HitsByText(d) == {i \in PageIds : page[i] # NoPage}
HitsNone(d) == {}

\* The searches find pages by the property and by the text; of those, the ones
\* whose property names the document.
Hits(d) == {i \in PageIds : Carries(i, d)}

\* A search that failed has found nothing, and so has one of whose hits the
\* property or the page could not be read.
Search(p) ==
  LET none == /\ job' = [job EXCEPT ![p].pc = "parent", ![p].looked = TRUE]
              /\ UNCHANGED cache
  IN /\ job[p].pc = "search"
     /\ \/ /\ Hits(job[p].doc) # {}
           /\ \E i \in Hits(job[p].doc) :
                /\ job' = [job EXCEPT ![p].pc = "read", ![p].at = i]
                /\ cache' = [cache EXCEPT ![p][job[p].doc] = i]
           /\ UNCHANGED faults
        \/ Hits(job[p].doc) = {} /\ none /\ UNCHANGED faults
        \/ SearchFails /\ none /\ Faulty
     /\ UNCHANGED <<page, made, section, docPage, published, readers>>

ReadVersion(p) ==
  /\ job[p].pc = "read"
  /\ Reads(IF page[job[p].at] = NoPage THEN Fail(p)
           ELSE job' = [job EXCEPT ![p].pc = "update", ![p].ver = page[job[p].at].ver],
           Fail(p))
  /\ UNCHANGED <<page, made, section, cache, docPage, published, readers>>

\* Mutant: the version the page will have next.
WroteNext(p, i, ver) ==
  job' = [job EXCEPT ![p].pc = "row", ![p].at = i, ![p].wrote = ver + 1]
Wrote(p, i, ver) ==
  job' = [job EXCEPT ![p].pc = "row", ![p].at = i, ![p].wrote = ver]

\* Once more after a conflict, with the version the page has then.
Conflict(p) ==
  IF job[p].again THEN Fail(p)
                  ELSE job' = [job EXCEPT ![p].pc = "read", ![p].again = TRUE]

\* The page is written under the title it is given.
Update(p, i, title) ==
  LET effect == /\ page' = [page EXCEPT ![i].title = title, ![i].ver = @ + 1,
                              ![i].shown = [doc |-> job[p].doc, text |-> job[p].text]]
                /\ UNCHANGED made
  IN \/ /\ page[i] = NoPage \/ Taken(title, {i})
        /\ Fail(p) /\ UNCHANGED <<page, made, faults>>
     \/ /\ page[i] # NoPage /\ ~Taken(title, {i})
        /\ page[i].ver # job[p].ver
        /\ Conflict(p) /\ UNCHANGED <<page, made, faults>>
     \/ /\ page[i] # NoPage /\ ~Taken(title, {i})
        /\ page[i].ver = job[p].ver
        /\ Writes(p, effect, Wrote(p, i, page[i].ver + 1), Conflict(p))

\* The document's title, or, when a draft was appended, the one the page has.
UpdatePage(p) ==
  LET i == job[p].at
  IN /\ job[p].pc = "update"
     /\ \E title \in {<<Title[job[p].doc], 1>>, page[i].title} : Update(p, i, title)
     /\ UNCHANGED <<section, cache, docPage, published, readers>>

\* "T", "T (2)", "T (3)", "T (4)".
NextTitle(p) ==
  IF job[p].try < 4 THEN job' = [job EXCEPT ![p].try = @ + 1] ELSE Fail(p)

CreatePage(p) ==
  LET i == made + 1
      title == <<Title[job[p].doc], job[p].try>>
      effect ==
        /\ made < MaxPages /\ made' = i
        /\ page' = [page EXCEPT ![i] = [title |-> title, ver |-> 1,
             shown |-> [doc |-> job[p].doc, text |-> job[p].text],
             prop |-> NoProp, limited |-> FALSE]]
  IN /\ job[p].pc = "create"
     /\ \/ Taken(title, {}) /\ NextTitle(p) /\ UNCHANGED <<page, made, faults>>
        \/ /\ ~Taken(title, {})
           /\ Writes(p, effect, Wrote(p, i, 1), NextTitle(p))
     /\ UNCHANGED <<section, cache, docPage, published, readers>>

\* The version the property has; 0, to be created.
ReadProperty(p) ==
  /\ job[p].pc = "row"
  /\ Reads(IF page[job[p].at] = NoPage THEN Fail(p)
           ELSE job' = [job EXCEPT ![p].pc = "prop", ![p].ver = page[job[p].at].prop.ver],
           Fail(p))
  /\ UNCHANGED <<page, made, section, cache, docPage, published, readers>>

\* Mutant: the page is left open to everyone.
AfterPropertyDone(d) == "done"

AfterProperty(d) == IF d \in Restricted THEN "restrict" ELSE "done"

\* Mutants: the property keeps the Markdown it had; it names the version the page
\* has by now.
PropertyKept(p, i) ==
  [doc |-> job[p].doc, ver |-> page[i].prop.ver + 1, of |-> job[p].wrote,
   text |-> IF page[i].prop.doc = None THEN job[p].text ELSE page[i].prop.text]
PropertyOfNow(p, i) ==
  [doc |-> job[p].doc, text |-> job[p].text, ver |-> page[i].prop.ver + 1, of |-> page[i].ver]

Property(p, i) ==
  [doc |-> job[p].doc, text |-> job[p].text, ver |-> page[i].prop.ver + 1, of |-> job[p].wrote]

SetProperty(p) ==
  LET i == job[p].at
      current == page[i] # NoPage /\ page[i].prop.ver = job[p].ver
      effect == page' = [page EXCEPT ![i].prop = Property(p, i)] /\ UNCHANGED made
  IN /\ job[p].pc = "prop"
     /\ \/ ~current /\ Fail(p) /\ UNCHANGED <<page, made, faults>>
        \/ /\ current
           /\ Writes(p, effect, Goto(p, AfterProperty(job[p].doc)), Fail(p))
     /\ UNCHANGED <<section, cache, docPage, published, readers>>

\* The same for every request, so sending it twice does no harm.
RestrictRead(p) ==
  LET i == job[p].at
      effect == page' = [page EXCEPT ![i].limited = TRUE] /\ UNCHANGED made
  IN /\ job[p].pc = "restrict"
     /\ \/ page[i] = NoPage /\ Fail(p) /\ UNCHANGED <<page, made, faults>>
        \/ page[i] # NoPage /\ Writes(p, effect, Goto(p, "done"), Goto(p, "done"))
     /\ UNCHANGED <<section, cache, docPage, published, readers>>

\* The provider remembers the page and the caller its id; or gets the error.
CAnswer(p) ==
  /\ job[p].pc \in {"done", "failed"}
  /\ \/ /\ job[p].pc = "done"
        /\ cache' = [cache EXCEPT ![p][job[p].doc] = job[p].at]
        /\ docPage' = [docPage EXCEPT ![job[p].doc] = job[p].at]
     \/ job[p].pc = "failed" /\ UNCHANGED <<cache, docPage>>
  /\ job' = [job EXCEPT ![p] = NoJob]
  /\ UNCHANGED <<page, made, section, published, faults, readers>>

\* The process ends, at any point; the next one remembers doc_pages.
CRestart(p) ==
  /\ \/ job[p] = NoJob /\ UNCHANGED faults
     \/ job[p] # NoJob /\ Faulty
  /\ job' = [job EXCEPT ![p] = NoJob]
  /\ cache' = [cache EXCEPT ![p] = docPage]
  /\ UNCHANGED <<page, made, section, docPage, published, readers>>

\* Someone edits a page in the browser, or deletes it.
ReaderEdits(i) ==
  /\ readers < MaxReaders /\ readers' = readers + 1
  /\ page[i] # NoPage
  /\ \/ page' = [page EXCEPT ![i].ver = @ + 1, ![i].shown = [doc |-> None, text |-> None]]
     \/ page' = [page EXCEPT ![i] = NoPage]
  /\ UNCHANGED <<made, section, cache, docPage, job, published, faults>>

CStep(p) ==
  \/ LookParent(p) \/ MakeParent(p) \/ AskRemembered(p) \/ Search(p)
  \/ ReadVersion(p) \/ UpdatePage(p) \/ CreatePage(p) \/ ReadProperty(p)
  \/ SetProperty(p) \/ RestrictRead(p) \/ CAnswer(p)

ConfluenceNext ==
  \/ \E p \in Publishers : CStart(p) \/ CStep(p) \/ CRestart(p)
  \/ \E i \in PageIds : ReaderEdits(i)

ConfluenceSpec == ConfluenceInit /\ [][ConfluenceNext]_cvars

----------------------------------------------------------------------------
\* Properties

\* Find and Get see one page, whatever failed: at most one carries a document
\* (publishes of a document apart, no failed search).  A page that never got its
\* property carries none, and is not counted.
OnePageCarries ==
  \A d \in Docs : Cardinality({i \in PageIds : Carries(i, d)}) <= 1

\* A page that is a reader's own, or another document's, is not written.
WritesOwnPage ==
  \A i \in PageIds :
    /\ page[i] # NoPage /\ page'[i] # NoPage
    /\ page'[i].shown # page[i].shown /\ page'[i].shown.doc # None
    => Carries(i, page'[i].shown.doc)

\* Whatever a document's readers share a title or a text with, a publish writes no
\* page but the document's own (there, it does write over what a reader edited).
OnlyOwnPages == [][WritesOwnPage]_page

\* The page that a publish has written and marked has its text for Get, and shows
\* it, or what a reader made of it since.
ShowsPublished(j) ==
  j.pc \in {"restrict", "done"} /\ page[j.at] # NoPage =>
    /\ page[j.at].prop.doc = j.doc /\ page[j.at].prop.text = j.text
    /\ page[j.at].shown \in {[doc |-> j.doc, text |-> j.text], [doc |-> None, text |-> None]}

\* "a page round-trips exactly": Get returns what a publish that succeeds wrote
\* (publishes of a document apart), and the version in the property is never that
\* of an edit: while the page has it, it shows the Markdown that Get returns.
RoundTrips ==
  /\ Apart => \A p \in Publishers : ShowsPublished(job[p])
  /\ \A i \in PageIds :
       page[i] # NoPage /\ page[i].prop.doc # None /\ page[i].prop.of = page[i].ver
         => page[i].shown = [doc |-> page[i].prop.doc, text |-> page[i].prop.text]

\* Pages that show, or carry, a document that is for some groups only, and that
\* everyone may read.
Exposed ==
  {i \in PageIds : /\ page[i] # NoPage /\ ~page[i].limited
                   /\ {page[i].shown.doc, page[i].prop.doc} \cap Restricted # {}}

\* Each of them is the page of a publish that goes on, or was left, for good if
\* it never got its property, by a request that failed or a process killed.
ExposedByFailures ==
  Cardinality(Exposed)
    <= faults + Cardinality({p \in Publishers : job[p] # NoJob /\ job[p].at \in Exposed})
=============================================================================
