---------------------------- MODULE PagesProofs ----------------------------
(***************************************************************************)
(* Proofs about Pages, for any documents, texts, processes and pages, any  *)
(* failed requests, deaths, and anything readers do.                       *)
(***************************************************************************)
EXTENDS Pages, FiniteSetTheorems, TLAPS

----------------------------------------------------------------------------
\* Confluence: types

Asking == {"parent", "mkparent", "find", "search", "create"}
\* With a page of its own.
Working == {"read", "update", "row", "prop", "restrict"}

CJob ==
  [pc : Asking \cup Working \cup {"done", "failed"}, doc : Docs, text : Texts,
   at : PageIds \cup {None}, ver : Nat, wrote : Nat, try : Tries, looked : BOOLEAN,
   again : BOOLEAN]

CTypes ==
  /\ page \in [PageIds -> Page \cup {NoPage}]
  /\ made \in 0..MaxPages /\ section \in BOOLEAN
  /\ cache \in [Publishers -> [Docs -> PageIds \cup {None}]]
  /\ docPage \in [Docs -> PageIds \cup {None}]
  /\ job \in [Publishers -> CJob \cup {NoJob}]

----------------------------------------------------------------------------
\* Confluence: what each step does to a job and to its page

\* A job goes on as j, with the document and text it has.
Goes(p, j) ==
  /\ job[p] \in CJob /\ j \in CJob /\ job' = [job EXCEPT ![p] = j]
  /\ j.doc = job[p].doc /\ j.text = job[p].text

\* No page but i changes.
Changes(i) ==
  /\ page' \in [PageIds -> Page \cup {NoPage}]
  /\ \A k \in PageIds : k # i => page'[k] = page[k]

\* A page gets a new version.
Rewritten(i, shown) ==
  /\ Changes(i) /\ UNCHANGED made
  /\ page[i] # NoPage /\ page'[i] # NoPage
  /\ page'[i].ver = page[i].ver + 1 /\ page'[i].shown = shown
  /\ page'[i].prop = page[i].prop /\ page'[i].limited = page[i].limited

ShownBy(j) == [doc |-> j.doc, text |-> j.text]

\* A job knows that no page carries its document.
NoneCarries(j) == j.pc = "create" \/ (j.pc \in {"parent", "mkparent"} /\ j.looked)

GivesUp(p, j) ==
  /\ Goes(p, j) /\ UNCHANGED <<page, made>>
  /\ job[p].pc \in Asking \cup Working /\ j.pc = "failed"

Prepares(p, j) ==
  /\ Goes(p, j) /\ UNCHANGED <<page, made>>
  /\ job[p].pc \in Asking /\ j.pc \in Asking
  /\ NoneCarries(j) => NoneCarries(job[p]) \/ Hits(j.doc) = {} \/ SearchFails

Finds(p, j) ==
  /\ Goes(p, j) /\ UNCHANGED <<page, made>>
  /\ job[p].pc \in Asking /\ j.pc = "read" /\ j.at \in PageIds /\ Carries(j.at, j.doc)

Versions(p, j) ==
  /\ Goes(p, j) /\ UNCHANGED <<page, made>>
  /\ job[p].pc \in {"read", "update"} /\ j.pc \in {"read", "update"} /\ j.at = job[p].at

Rewrites(p, j) ==
  /\ Goes(p, j) /\ job[p].pc = "update" /\ j.at = job[p].at
  /\ Rewritten(j.at, ShownBy(j))
  /\ \/ j.pc \in {"failed", "read"}
     \/ j.pc = "row" /\ j.wrote = page[j.at].ver + 1

Creates(p, j) ==
  /\ Goes(p, j) /\ job[p].pc = "create"
  /\ made < MaxPages /\ made' = made + 1 /\ Changes(made + 1)
  /\ page'[made + 1] # NoPage /\ page'[made + 1].ver = 1
  /\ page'[made + 1].shown = ShownBy(j) /\ page'[made + 1].prop = NoProp
  /\ \/ j.pc \in {"failed", "create"}
     \/ j.pc = "row" /\ j.at = made + 1 /\ j.wrote = 1

AsksProperty(p, j) ==
  /\ Goes(p, j) /\ UNCHANGED <<page, made>>
  /\ job[p].pc = "row" /\ j.pc = "prop" /\ j.at = job[p].at /\ j.wrote = job[p].wrote

Marks(p, j) ==
  /\ Goes(p, j) /\ job[p].pc = "prop" /\ j.at = job[p].at
  /\ Changes(j.at) /\ UNCHANGED made
  /\ page[j.at] # NoPage /\ page'[j.at] # NoPage
  /\ page'[j.at].prop.doc = j.doc /\ page'[j.at].prop.text = j.text
  /\ page'[j.at].prop.of = job[p].wrote
  /\ page'[j.at].ver = page[j.at].ver /\ page'[j.at].shown = page[j.at].shown
  /\ j.pc \in {"failed", AfterProperty(j.doc)}

Limits(p, j) ==
  /\ Goes(p, j) /\ job[p].pc = "restrict" /\ j.at = job[p].at
  /\ Changes(j.at) /\ UNCHANGED made
  /\ page[j.at] # NoPage /\ page'[j.at] # NoPage /\ page'[j.at].limited
  /\ page'[j.at].prop = page[j.at].prop
  /\ page'[j.at].ver = page[j.at].ver /\ page'[j.at].shown = page[j.at].shown
  /\ j.pc \in {"failed", "done"}

Moves(p, j) ==
  \/ GivesUp(p, j) \/ Prepares(p, j) \/ Finds(p, j) \/ Versions(p, j) \/ Rewrites(p, j)
  \/ Creates(p, j) \/ AsksProperty(p, j) \/ Marks(p, j) \/ Limits(p, j)

\* Where a job is tells that there is one.
LEMMA IsJob ==
  ASSUME CTypes, NEW p \in Publishers, job[p].pc # "idle"
  PROVE  job[p] \in CJob
BY DEF CTypes, NoJob

\* A page is a page.
LEMMA IsPage ==
  ASSUME CTypes, NEW i \in PageIds, page[i] # NoPage
  PROVE  page[i] \in Page
BY DEF CTypes

\* What stands for no page is none.
LEMMA PageIsNotNone == NoPage \notin Page
<1>1. \A e \in Page : e.title[2] \in Tries BY DEF Page
<1>2. NoPage.title[2] \notin Tries BY DEF NoPage, Tries, None
<1> QED BY <1>1, <1>2

\* A job that goes to another request is the same job.
LEMMA JobGoes ==
  ASSUME NEW j \in CJob, NEW pc \in Asking \cup Working \cup {"done", "failed"}
  PROVE  LET k == [j EXCEPT !.pc = pc]
         IN  /\ k \in CJob /\ k.pc = pc /\ k.doc = j.doc /\ k.text = j.text
             /\ k.at = j.at /\ k.wrote = j.wrote /\ k.looked = j.looked
BY DEF CJob

\* So with a step that only takes it there.
LEMMA GotoGoes ==
  ASSUME NEW p \in Publishers, job[p] \in CJob,
         NEW pc \in Asking \cup Working \cup {"done", "failed"}, Goto(p, pc)
  PROVE  \E j : /\ Goes(p, j) /\ j.pc = pc /\ j.at = job[p].at /\ j.wrote = job[p].wrote
                /\ j.looked = job[p].looked
<1>1. PICK j : j = [job[p] EXCEPT !.pc = pc]
  OBVIOUS
<1>2. /\ j \in CJob /\ j.pc = pc /\ j.doc = job[p].doc /\ j.text = job[p].text
      /\ j.at = job[p].at /\ j.wrote = job[p].wrote /\ j.looked = job[p].looked
  BY <1>1, JobGoes
<1>3. job' = [job EXCEPT ![p] = j]
  BY <1>1 DEF Goto
<1> QED BY <1>2, <1>3 DEF Goes

\* A job that wrote a page goes on to set its property.
LEMMA WroteGoes ==
  ASSUME NEW p \in Publishers, job[p] \in CJob, NEW i \in PageIds, NEW ver \in Nat,
         Wrote(p, i, ver)
  PROVE  \E j : Goes(p, j) /\ j.pc = "row" /\ j.at = i /\ j.wrote = ver
<1>1. PICK j : j = [job[p] EXCEPT !.pc = "row", !.at = i, !.wrote = ver]
  OBVIOUS
<1>2. /\ j \in CJob /\ j.pc = "row" /\ j.at = i /\ j.wrote = ver
      /\ j.doc = job[p].doc /\ j.text = job[p].text
  BY <1>1 DEF CJob, Working
<1>3. job' = [job EXCEPT ![p] = j]
  BY <1>1 DEF Wrote
<1> QED BY <1>2, <1>3 DEF Goes

\* What a page may be called.
TitlesOfPages == Names \X Tries

\* A job that fails without a trace gives up.
LEMMA FailGivesUp ==
  ASSUME NEW p \in Publishers, job[p] \in CJob, job[p].pc \in Asking \cup Working, Fail(p),
         UNCHANGED <<page, made>>
  PROVE  \E j : Moves(p, j)
<1>1. \E j : Goes(p, j) /\ j.pc = "failed"
  BY GotoGoes DEF Fail
<1> QED BY <1>1 DEF Moves, GivesUp

\* What looking for the parent page, or making it, does.
LEMMA LookParentMoves ==
  ASSUME CTypes, NEW p \in Publishers, LookParent(p)
  PROVE  \E j : Moves(p, j)
<1>1. job[p] \in CJob /\ job[p].pc = "parent" /\ UNCHANGED <<page, made>>
  BY IsJob DEF LookParent
<1>2. CASE Fail(p)
  BY <1>1, <1>2, FailGivesUp DEF Asking, Working
<1>3. ASSUME NEW pc \in {"mkparent", "find", "create"}, Goto(p, pc), pc = "create" => job[p].looked,
             pc = "find" \/ pc = "create" \/ pc = "mkparent"
      PROVE  \E j : Moves(p, j)
  <2>1. pc \in Asking
    BY DEF Asking
  <2>2. PICK j : Goes(p, j) /\ j.pc = pc /\ j.looked = job[p].looked
    BY <1>1, <1>3, <2>1, GotoGoes
  <2>3. NoneCarries(j) => NoneCarries(job[p])
    BY <1>1, <1>3, <2>2 DEF NoneCarries
  <2> QED BY <1>1, <2>1, <2>2, <2>3 DEF Moves, Prepares, Asking
<1>4. Fail(p) \/ Goto(p, IF section THEN AfterParent(p) ELSE "mkparent")
  BY DEF LookParent, Reads
<1> QED BY <1>2, <1>3, <1>4 DEF AfterParent

\* Making the parent page.
LEMMA MakeParentMoves ==
  ASSUME CTypes, NEW p \in Publishers, MakeParent(p)
  PROVE  \E j : Moves(p, j)
<1>1. job[p] \in CJob /\ job[p].pc = "mkparent" /\ UNCHANGED <<page, made>>
  BY IsJob DEF MakeParent
<1>2. CASE Fail(p)
  BY <1>1, <1>2, FailGivesUp DEF Asking, Working
<1>3. CASE Goto(p, AfterParent(p))
  <2> DEFINE pc == AfterParent(p)
  <2>1. pc \in Asking /\ (pc = "create" => job[p].looked) /\ pc \in {"find", "create"}
    BY DEF Asking, AfterParent
  <2> HIDE DEF pc
  <2>2. PICK j : Goes(p, j) /\ j.pc = pc /\ j.looked = job[p].looked
    BY <1>1, <1>3, <2>1, GotoGoes DEF pc
  <2>3. NoneCarries(j) => NoneCarries(job[p])
    BY <1>1, <2>1, <2>2 DEF NoneCarries
  <2> QED BY <1>1, <2>1, <2>2, <2>3 DEF Moves, Prepares, Asking
<1> QED BY <1>2, <1>3 DEF MakeParent

\* Finding the document's page, or that there is none.
LEMMA FindMoves ==
  ASSUME CTypes, NEW p \in Publishers, AskRemembered(p) \/ Search(p)
  PROVE  \E j : Moves(p, j)
<1>1. /\ job[p] \in CJob /\ job[p].pc \in {"find", "search"} /\ job[p].pc \in Asking
      /\ UNCHANGED <<page, made>>
  BY IsJob DEF AskRemembered, Search, Asking
<1>2. CASE Goto(p, "search")
  <2>1. PICK j : Goes(p, j) /\ j.pc = "search"
    BY <1>1, <1>2, GotoGoes DEF Asking
  <2> QED BY <1>1, <2>1 DEF Moves, Prepares, Asking, NoneCarries
<1>3. ASSUME NEW i \in PageIds, Carries(i, job[p].doc),
             job' = [job EXCEPT ![p] = [job[p] EXCEPT !.pc = "read", !.at = i]]
      PROVE  \E j : Moves(p, j)
  <2>1. \A e \in CJob : LET k == [e EXCEPT !.pc = "read", !.at = i]
                        IN  /\ k \in CJob /\ k.pc = "read" /\ k.at = i
                            /\ k.doc = e.doc /\ k.text = e.text
    BY DEF CJob, Working
  <2>2. PICK j : /\ j \in CJob /\ j.pc = "read" /\ j.at = i
                 /\ j.doc = job[p].doc /\ j.text = job[p].text
                 /\ job' = [job EXCEPT ![p] = j]
    BY <1>1, <1>3, <2>1
  <2> QED BY <1>1, <1>3, <2>2 DEF Moves, Finds, Goes
<1>4. ASSUME Hits(job[p].doc) = {} \/ SearchFails,
             job' = [job EXCEPT ![p] = [job[p] EXCEPT !.pc = "parent", !.looked = TRUE]]
      PROVE  \E j : Moves(p, j)
  <2>1. \A e \in CJob : LET k == [e EXCEPT !.pc = "parent", !.looked = TRUE]
                        IN  /\ k \in CJob /\ k.pc = "parent"
                            /\ k.doc = e.doc /\ k.text = e.text
    BY DEF CJob, Asking
  <2>2. PICK j : /\ j \in CJob /\ j.pc = "parent"
                 /\ j.doc = job[p].doc /\ j.text = job[p].text
                 /\ job' = [job EXCEPT ![p] = j]
    BY <1>1, <1>4, <2>1
  <2> QED BY <1>1, <1>4, <2>2 DEF Moves, Prepares, Goes, Asking
<1>5. CASE AskRemembered(p)
  <2>1. cache[p][job[p].doc] \in PageIds \cup {None}
    <3>1. job[p].doc \in Docs BY <1>1 DEF CJob
    <3> QED BY <3>1 DEF CTypes
  <2>2. \/ Goto(p, "search")
        \/ /\ cache[p][job[p].doc] # None /\ Carries(cache[p][job[p].doc], job[p].doc)
           /\ job' = [job EXCEPT ![p] = [job[p] EXCEPT !.pc = "read", !.at = cache[p][job[p].doc]]]
    BY <1>5 DEF AskRemembered, Reads
  <2> QED BY <1>2, <1>3, <2>1, <2>2
<1>6. CASE Search(p)
  <2>1. \/ \E i \in Hits(job[p].doc) :
             job' = [job EXCEPT ![p] = [job[p] EXCEPT !.pc = "read", !.at = i]]
        \/ /\ Hits(job[p].doc) = {} \/ SearchFails
           /\ job' = [job EXCEPT ![p] = [job[p] EXCEPT !.pc = "parent", !.looked = TRUE]]
    BY <1>6 DEF Search
  <2> QED BY <1>3, <1>4, <2>1 DEF Hits
<1> QED BY <1>5, <1>6

\* The request before a write: the version of the page, or of its property.
LEMMA ReadMoves ==
  ASSUME CTypes, NEW p \in Publishers, job[p].at \in PageIds, ReadVersion(p) \/ ReadProperty(p)
  PROVE  \E j : Moves(p, j)
<1>1. /\ job[p] \in CJob /\ job[p].pc \in {"read", "row"} /\ UNCHANGED <<page, made>>
  BY IsJob DEF ReadVersion, ReadProperty
<1>2. CASE Fail(p)
  BY <1>1, <1>2, FailGivesUp DEF Asking, Working
<1>3. \A e \in CJob, pc \in {"update", "prop"}, v \in Nat :
        LET k == [e EXCEPT !.pc = pc, !.ver = v]
        IN  /\ k \in CJob /\ k.pc = pc /\ k.at = e.at /\ k.wrote = e.wrote
            /\ k.doc = e.doc /\ k.text = e.text
  <2> SUFFICES ASSUME NEW e \in CJob, NEW pc \in {"update", "prop"}, NEW v \in Nat
               PROVE  LET k == [e EXCEPT !.pc = pc, !.ver = v]
                      IN  /\ k \in CJob /\ k.pc = pc /\ k.at = e.at /\ k.wrote = e.wrote
                          /\ k.doc = e.doc /\ k.text = e.text
    OBVIOUS
  <2> DEFINE named == [e EXCEPT !.pc = pc]
             k == [named EXCEPT !.ver = v]
  <2>1. pc \in Asking \cup Working \cup {"done", "failed"}
    BY DEF Working
  <2>2. /\ named \in CJob /\ named.pc = pc /\ named.at = e.at /\ named.wrote = e.wrote
        /\ named.doc = e.doc /\ named.text = e.text
    BY <2>1 DEF CJob
  <2> HIDE DEF named
  <2>3. /\ k \in CJob /\ k.pc = named.pc /\ k.at = named.at /\ k.wrote = named.wrote
        /\ k.doc = named.doc /\ k.text = named.text
    BY <2>2 DEF CJob
  <2> QED BY <2>2, <2>3 DEF named
<1>4. ASSUME page[job[p].at] # NoPage
      PROVE  page[job[p].at].ver \in Nat /\ page[job[p].at].prop.ver \in Nat
  <2>1. \A e \in Page : e.ver \in Nat /\ e.prop.ver \in Nat
    BY DEF Page
  <2> QED BY <1>4, <2>1, IsPage
<1>5. CASE ReadVersion(p)
  <2>1. CASE /\ page[job[p].at] # NoPage
             /\ job' = [job EXCEPT ![p] = [job[p] EXCEPT !.pc = "update", !.ver = page[job[p].at].ver]]
    <3>1. PICK j : /\ j \in CJob /\ j.pc = "update" /\ j.at = job[p].at
                   /\ j.doc = job[p].doc /\ j.text = job[p].text
                   /\ job' = [job EXCEPT ![p] = j]
      BY <1>1, <1>3, <1>4, <2>1
    <3>2. job[p].pc = "read"
      BY <1>5 DEF ReadVersion
    <3> QED BY <1>1, <3>1, <3>2 DEF Moves, Versions, Goes
  <2> QED BY <1>2, <1>5, <2>1 DEF ReadVersion, Reads
<1>6. CASE ReadProperty(p)
  <2>1. CASE /\ page[job[p].at] # NoPage
             /\ job' = [job EXCEPT ![p] = [job[p] EXCEPT !.pc = "prop", !.ver = page[job[p].at].prop.ver]]
    <3>1. PICK j : /\ j \in CJob /\ j.pc = "prop" /\ j.at = job[p].at /\ j.wrote = job[p].wrote
                   /\ j.doc = job[p].doc /\ j.text = job[p].text
                   /\ job' = [job EXCEPT ![p] = j]
      <4>1. PICK v \in Nat : v = page[job[p].at].prop.ver
        BY <1>4, <2>1
      <4>2. job' = [job EXCEPT ![p] = [job[p] EXCEPT !.pc = "prop", !.ver = v]]
        BY <2>1, <4>1
      <4> QED BY <1>1, <1>3, <4>2
    <3>2. job[p].pc = "row"
      BY <1>6 DEF ReadProperty
    <3> QED BY <1>1, <3>1, <3>2 DEF Moves, AsksProperty, Goes
  <2> QED BY <1>2, <1>6, <2>1 DEF ReadProperty, Reads
<1> QED BY <1>5, <1>6

\* Writing a page that is there.
LEMMA UpdateMoves ==
  ASSUME CTypes, NEW p \in Publishers, job[p].at \in PageIds, UpdatePage(p)
  PROVE  \E j : Moves(p, j)
<1>0. PICK title \in {<<Title[job[p].doc], 1>>, page[job[p].at].title} : Update(p, job[p].at, title)
  BY DEF UpdatePage
<1> DEFINE i == job[p].at
           effect == /\ page' = [page EXCEPT ![i].title = title, ![i].ver = @ + 1,
                              ![i].shown = [doc |-> job[p].doc, text |-> job[p].text]]
                     /\ UNCHANGED made
<1>1. job[p] \in CJob /\ job[p].pc = "update" /\ job[p].doc \in Docs /\ job[p].text \in Texts
  BY IsJob DEF UpdatePage, CJob
<1>2. ASSUME Conflict(p)
      PROVE  \E j : Goes(p, j) /\ j.pc \in {"failed", "read"} /\ j.at = i
  <2>1. CASE Fail(p)
    BY <1>1, <2>1, GotoGoes DEF Fail
  <2>2. CASE job' = [job EXCEPT ![p] = [job[p] EXCEPT !.pc = "read", !.again = TRUE]]
    <3>1. \A e \in CJob : LET k == [e EXCEPT !.pc = "read", !.again = TRUE]
                          IN  /\ k \in CJob /\ k.pc = "read" /\ k.at = e.at
                              /\ k.doc = e.doc /\ k.text = e.text
      BY DEF CJob, Working
    <3> QED BY <1>1, <2>2, <3>1 DEF Goes
  <2> QED BY <1>2, <2>1, <2>2 DEF Conflict
<1>3. ASSUME page[i] # NoPage, effect
      PROVE  Rewritten(i, [doc |-> job[p].doc, text |-> job[p].text])
  <2>1. page[i] \in Page
    BY <1>3, IsPage
  <2>2. title \in TitlesOfPages /\ [doc |-> job[p].doc, text |-> job[p].text] \in Shown
    <3>1. <<Title[job[p].doc], 1>> \in TitlesOfPages
      BY <1>1 DEF TitlesOfPages, Names, Tries
    <3>2. \A e \in Page : e.title \in TitlesOfPages
      BY DEF Page, TitlesOfPages
    <3>3. [doc |-> job[p].doc, text |-> job[p].text] \in Shown
      BY <1>1 DEF Shown
    <3> QED BY <1>0, <2>1, <3>1, <3>2, <3>3
  <2>3. PICK v \in Nat : v = page[i].ver + 1
    <3>1. \A e \in Page : e.ver \in Nat BY DEF Page
    <3> QED BY <2>1, <3>1
  <2>4. PICK shown \in Shown : shown = [doc |-> job[p].doc, text |-> job[p].text]
    BY <2>2
  <2>5. PICK k : k = [page[i] EXCEPT !.title = title, !.ver = v, !.shown = shown]
    OBVIOUS
  <2>6. /\ k \in Page /\ k.ver = v /\ k.shown = shown /\ k.prop = page[i].prop
        /\ k.limited = page[i].limited
    <3>1. PICK e \in Page : e = page[i]
      BY <2>1
    <3>2. PICK t \in TitlesOfPages : t = title
      BY <2>2
    <3>3. k = [e EXCEPT !.title = t, !.ver = v, !.shown = shown]
      BY <2>5, <3>1, <3>2
    <3>4. k \in Page /\ k.ver = v /\ k.shown = shown /\ k.prop = e.prop /\ k.limited = e.limited
      <4> DEFINE Props == [doc : Docs \cup {None}, text : Texts \cup {None}, ver : Nat, of : Nat]
      <4>1. Page = [title : TitlesOfPages, ver : Nat, shown : Shown, limited : BOOLEAN, prop : Props]
        BY DEF Page, TitlesOfPages
      <4>2. v \in Nat /\ shown \in Shown /\ e \in Page /\ t \in TitlesOfPages
        BY <2>3, <2>4, <3>1, <3>2
      <4> HIDE DEF effect, i, Props
      <4> QED BY <3>3, <4>1, <4>2
    <3> QED BY <3>1, <3>4
  <2>7. k # NoPage
    BY <2>6, PageIsNotNone
  <2>8. page' = [page EXCEPT ![i] = k] /\ UNCHANGED made /\ i \in PageIds
    BY <1>3, <2>3, <2>4, <2>5
  <2> HIDE DEF i
  <2>9. Changes(i) /\ page'[i] = k
    BY <2>6, <2>8 DEF Changes, CTypes
  <2> QED BY <1>3, <2>3, <2>4, <2>6, <2>7, <2>8, <2>9 DEF Rewritten
<1>4. \/ UNCHANGED <<page, made>> /\ Fail(p)
      \/ UNCHANGED <<page, made>> /\ Conflict(p)
      \/ page[i] # NoPage /\ effect /\ (Fail(p) \/ Conflict(p))
      \/ page[i] # NoPage /\ effect /\ Wrote(p, i, page[i].ver + 1)
  BY <1>0 DEF Update, Writes
<1>5. CASE UNCHANGED <<page, made>> /\ (Fail(p) \/ Conflict(p))
  <2>1. CASE Fail(p)
    BY <1>1, <1>5, <2>1, FailGivesUp DEF Asking, Working
  <2>2. CASE Conflict(p)
    BY <1>1, <1>2, <1>5, <2>2 DEF Moves, GivesUp, Versions, Working
  <2> QED BY <1>5, <2>1, <2>2
<1>6. CASE page[i] # NoPage /\ effect /\ (Fail(p) \/ Conflict(p))
  <2>1. PICK j : Goes(p, j) /\ j.pc \in {"failed", "read"} /\ j.at = i
    <3>1. CASE Fail(p)
      BY <1>1, <3>1, GotoGoes DEF Fail
    <3>2. CASE Conflict(p)
      BY <1>2, <3>2
    <3> QED BY <1>6, <3>1, <3>2
  <2>2. Rewritten(i, [doc |-> job[p].doc, text |-> job[p].text])
    BY <1>3, <1>6
  <2>3. Rewritten(j.at, ShownBy(j))
    BY <2>1, <2>2 DEF Goes, ShownBy
  <2> QED BY <1>1, <2>1, <2>3 DEF Moves, Rewrites
<1>7. CASE page[i] # NoPage /\ effect /\ Wrote(p, i, page[i].ver + 1)
  <2>1. page[i].ver + 1 \in Nat
    <3>1. \A e \in Page : e.ver \in Nat BY DEF Page
    <3>2. page[i] # NoPage BY <1>7
    <3>3. page[i] \in Page BY <1>1, <3>2, IsPage
    <3> HIDE DEF i
    <3> QED BY <3>1, <3>3
  <2>2. Wrote(p, i, page[i].ver + 1)
    BY <1>7
  <2>3. PICK j : Goes(p, j) /\ j.pc = "row" /\ j.at = i /\ j.wrote = page[i].ver + 1
    BY <1>1, <2>1, <2>2, WroteGoes
  <2>4. Rewritten(i, [doc |-> job[p].doc, text |-> job[p].text])
    BY <1>3, <1>7
  <2>5. Rewritten(j.at, ShownBy(j))
    BY <2>3, <2>4 DEF ShownBy, Goes
  <2> QED BY <1>1, <2>3, <2>5 DEF Moves, Rewrites
<1> QED BY <1>4, <1>5, <1>6, <1>7

\* Making one.
LEMMA CreateMoves ==
  ASSUME CTypes, NEW p \in Publishers, CreatePage(p)
  PROVE  \E j : Moves(p, j)
<1> DEFINE i == made + 1
           title == <<Title[job[p].doc], job[p].try>>
           new == [title |-> title, ver |-> 1, shown |-> [doc |-> job[p].doc, text |-> job[p].text],
                   prop |-> NoProp, limited |-> FALSE]
           effect == made < MaxPages /\ made' = i /\ page' = [page EXCEPT ![i] = new]
<1>1. /\ job[p] \in CJob /\ job[p].pc = "create" /\ job[p].doc \in Docs /\ job[p].text \in Texts
      /\ job[p].try \in Tries
  BY IsJob DEF CreatePage, CJob
<1>2. ASSUME NextTitle(p)
      PROVE  \E j : Goes(p, j) /\ j.pc \in {"failed", "create"}
  <2>1. CASE Fail(p)
    BY <1>1, <2>1, GotoGoes DEF Fail
  <2>2. CASE job[p].try < 4 /\ job' = [job EXCEPT ![p] = [job[p] EXCEPT !.try = job[p].try + 1]]
    <3>1. \A e \in CJob, n \in Tries :
            LET k == [e EXCEPT !.try = n]
            IN  k \in CJob /\ k.pc = e.pc /\ k.doc = e.doc /\ k.text = e.text
      BY DEF CJob
    <3>2. job[p].try + 1 \in Tries
      BY <1>1, <2>2 DEF Tries
    <3>3. PICK k \in CJob : /\ job' = [job EXCEPT ![p] = k]
                            /\ k.pc = job[p].pc /\ k.doc = job[p].doc /\ k.text = job[p].text
      BY <1>1, <2>2, <3>1, <3>2
    <3> QED BY <1>1, <3>3 DEF Goes
  <2> QED BY <1>2, <2>1, <2>2 DEF NextTitle
<1>3. ASSUME effect
      PROVE  /\ made < MaxPages /\ made' = made + 1 /\ Changes(made + 1)
             /\ page'[made + 1] # NoPage /\ page'[made + 1].ver = 1
             /\ page'[made + 1].shown = [doc |-> job[p].doc, text |-> job[p].text]
             /\ page'[made + 1].prop = NoProp /\ made + 1 \in PageIds
  <2>1. made + 1 \in PageIds
    BY <1>3, ConfluenceAssumption DEF CTypes, PageIds
  <2>2. new \in Page
    BY <1>1 DEF Page, Names, Shown, NoProp
  <2>3. new # NoPage
    BY <2>2, PageIsNotNone
  <2>4. new.ver = 1 /\ new.shown = [doc |-> job[p].doc, text |-> job[p].text] /\ new.prop = NoProp
    OBVIOUS
  <2> HIDE DEF new
  <2> QED BY <1>3, <2>1, <2>2, <2>3, <2>4 DEF Changes, CTypes
<1>4. \/ UNCHANGED <<page, made>> /\ (Fail(p) \/ NextTitle(p))
      \/ effect /\ (Fail(p) \/ NextTitle(p))
      \/ effect /\ Wrote(p, i, 1)
  BY DEF CreatePage, Writes
<1> HIDE DEF effect
<1>5. CASE UNCHANGED <<page, made>> /\ (Fail(p) \/ NextTitle(p))
  <2>1. CASE Fail(p)
    BY <1>1, <1>5, <2>1, FailGivesUp DEF Asking, Working
  <2>2. CASE NextTitle(p)
    BY <1>1, <1>2, <1>5, <2>2 DEF Moves, GivesUp, Prepares, Asking, NoneCarries
  <2> QED BY <1>5, <2>1, <2>2
<1>6. CASE effect /\ (Fail(p) \/ NextTitle(p))
  <2>1. PICK j : Goes(p, j) /\ j.pc \in {"failed", "create"}
    BY <1>1, <1>2, <1>6, GotoGoes DEF Fail
  <2> QED BY <1>1, <1>3, <1>6, <2>1 DEF Moves, Creates, Goes, ShownBy
<1>7. CASE effect /\ Wrote(p, i, 1)
  <2>1. made + 1 \in PageIds /\ 1 \in Nat
    BY <1>3, <1>7
  <2>2. PICK j : Goes(p, j) /\ j.pc = "row" /\ j.at = made + 1 /\ j.wrote = 1
    BY <1>1, <1>7, <2>1, WroteGoes
  <2> QED BY <1>1, <1>3, <1>7, <2>2 DEF Moves, Creates, Goes, ShownBy
<1> QED BY <1>4, <1>5, <1>6, <1>7

\* Setting the property.
LEMMA PropertyMoves ==
  ASSUME CTypes, NEW p \in Publishers, job[p].at \in PageIds, SetProperty(p)
  PROVE  \E j : Moves(p, j)
<1> DEFINE i == job[p].at
           effect == page' = [page EXCEPT ![i].prop = Property(p, i)] /\ UNCHANGED made
<1>1. /\ job[p] \in CJob /\ job[p].pc = "prop" /\ job[p].doc \in Docs /\ job[p].text \in Texts
      /\ job[p].wrote \in Nat
  BY IsJob DEF SetProperty, CJob
<1>2. ASSUME page[i] # NoPage, effect
      PROVE  /\ Changes(i) /\ UNCHANGED made /\ page'[i] # NoPage
             /\ page'[i].prop.doc = job[p].doc /\ page'[i].prop.text = job[p].text
             /\ page'[i].prop.of = job[p].wrote
             /\ page'[i].ver = page[i].ver /\ page'[i].shown = page[i].shown
  <2>1. page[i] \in Page
    BY <1>2, IsPage
  <2>2. PICK r : r = Property(p, i)
    OBVIOUS
  <2>3. /\ r \in [doc : Docs \cup {None}, text : Texts \cup {None}, ver : Nat, of : Nat]
        /\ r.doc = job[p].doc /\ r.text = job[p].text /\ r.of = job[p].wrote
    <3>1. \A e \in Page : e.prop.ver + 1 \in Nat BY DEF Page
    <3> QED BY <1>1, <2>1, <2>2, <3>1 DEF Property
  <2>4. \A e \in Page, s \in [doc : Docs \cup {None}, text : Texts \cup {None}, ver : Nat, of : Nat] :
          LET k == [e EXCEPT !.prop = s]
          IN  k \in Page /\ k.prop = s /\ k.ver = e.ver /\ k.shown = e.shown
    BY DEF Page
  <2>5. PICK k : /\ k \in Page /\ k.prop = r /\ k.ver = page[i].ver /\ k.shown = page[i].shown
                 /\ page' = [page EXCEPT ![i] = k]
    <3>1. page' = [page EXCEPT ![i] = [page[i] EXCEPT !.prop = r]]
      BY <1>2, <2>2
    <3> HIDE DEF i
    <3> QED BY <2>1, <2>3, <2>4, <3>1
  <2>6. k # NoPage
    BY <2>5, PageIsNotNone
  <2> HIDE DEF i
  <2> QED BY <1>2, <2>3, <2>5, <2>6 DEF Changes, CTypes, i
<1>3. \/ UNCHANGED <<page, made>> /\ Fail(p)
      \/ page[i] # NoPage /\ effect /\ (Fail(p) \/ Goto(p, AfterProperty(job[p].doc)))
  BY DEF SetProperty, Writes
<1> HIDE DEF effect
<1>4. CASE UNCHANGED <<page, made>> /\ Fail(p)
  BY <1>1, <1>4, FailGivesUp DEF Asking, Working
<1>5. CASE page[i] # NoPage /\ effect /\ (Fail(p) \/ Goto(p, AfterProperty(job[p].doc)))
  <2>1. PICK j : Goes(p, j) /\ j.pc \in {"failed", AfterProperty(job[p].doc)} /\ j.at = i
    <3>1. AfterProperty(job[p].doc) \in {"restrict", "done"} BY DEF AfterProperty
    <3>2. "failed" \in Asking \cup Working \cup {"done", "failed"}
      OBVIOUS
    <3>3. AfterProperty(job[p].doc) \in Asking \cup Working \cup {"done", "failed"}
      BY <3>1 DEF Working
    <3> QED BY <1>1, <1>5, <3>2, <3>3, GotoGoes DEF Fail
  <2> QED BY <1>1, <1>2, <1>5, <2>1 DEF Moves, Marks, Goes
<1> QED BY <1>3, <1>4, <1>5

\* Restricting a page.
LEMMA RestrictMoves ==
  ASSUME CTypes, NEW p \in Publishers, job[p].at \in PageIds, RestrictRead(p)
  PROVE  \E j : Moves(p, j)
<1> DEFINE i == job[p].at
           effect == page' = [page EXCEPT ![i].limited = TRUE] /\ UNCHANGED made
<1>1. job[p] \in CJob /\ job[p].pc = "restrict"
  BY IsJob DEF RestrictRead
<1>2. ASSUME page[i] # NoPage, effect
      PROVE  /\ Changes(i) /\ UNCHANGED made /\ page'[i] # NoPage
             /\ page'[i].limited /\ page'[i].prop = page[i].prop
             /\ page'[i].ver = page[i].ver /\ page'[i].shown = page[i].shown
  <2>1. page[i] \in Page
    BY <1>2, IsPage
  <2>2. \A e \in Page :
          LET k == [e EXCEPT !.limited = TRUE]
          IN  k \in Page /\ k.limited /\ k.prop = e.prop /\ k.ver = e.ver /\ k.shown = e.shown
    BY DEF Page
  <2>3. PICK k : /\ k \in Page /\ k.limited /\ k.prop = page[i].prop
                 /\ k.ver = page[i].ver /\ k.shown = page[i].shown
                 /\ page' = [page EXCEPT ![i] = k]
    <3>1. page' = [page EXCEPT ![i] = [page[i] EXCEPT !.limited = TRUE]]
      BY <1>2
    <3> HIDE DEF i
    <3> QED BY <2>1, <2>2, <3>1
  <2>4. k # NoPage
    BY <2>3, PageIsNotNone
  <2> HIDE DEF i
  <2> QED BY <1>2, <2>3, <2>4 DEF Changes, CTypes, i
<1>3. \/ UNCHANGED <<page, made>> /\ Fail(p)
      \/ page[i] # NoPage /\ effect /\ (Fail(p) \/ Goto(p, "done"))
  BY DEF RestrictRead, Writes
<1> HIDE DEF effect
<1>4. CASE UNCHANGED <<page, made>> /\ Fail(p)
  BY <1>1, <1>4, FailGivesUp DEF Asking, Working
<1>5. CASE page[i] # NoPage /\ effect /\ (Fail(p) \/ Goto(p, "done"))
  <2>1. PICK j : Goes(p, j) /\ j.pc \in {"failed", "done"} /\ j.at = i
    BY <1>1, <1>5, GotoGoes DEF Fail
  <2> QED BY <1>1, <1>2, <1>5, <2>1 DEF Moves, Limits, Goes
<1> QED BY <1>3, <1>4, <1>5
----------------------------------------------------------------------------
\* Confluence: the invariant of pages and jobs

\* A page is one that was made; its property was written for a version it had,
\* and if that is its version still, the page shows what the property says.
PageHolds(i) ==
  page[i] # NoPage =>
    /\ i <= made
    /\ page[i].prop.of <= page[i].ver
    /\ page[i].prop.doc # None /\ page[i].prop.of = page[i].ver
         => page[i].shown = [doc |-> page[i].prop.doc, text |-> page[i].prop.text]

\* A job's page is one that was made; while it is there it carries the job's
\* document, or nothing yet if the job wrote it. If it has the version that the
\* job wrote, it shows what the job publishes.
JobHolds(j) ==
  j.pc \in Working =>
    /\ j.at \in 1..made
    /\ page[j.at] # NoPage =>
         /\ page[j.at].prop.doc = j.doc \/ (page[j.at].prop.doc = None /\ j.pc \in {"row", "prop"})
         /\ j.pc \in {"row", "prop"} =>
              /\ j.wrote <= page[j.at].ver
              /\ j.wrote = page[j.at].ver => page[j.at].shown = ShownBy(j)

\* Two jobs with one page have one document.
SameDoc(j, k) ==
  j.pc \in Working /\ k.pc \in Working /\ j.at = k.at /\ page[j.at] # NoPage => j.doc = k.doc

CInv ==
  /\ CTypes
  /\ \A i \in PageIds : PageHolds(i)
  /\ \A p \in Publishers : JobHolds(job[p])
  /\ \A p, q \in Publishers : SameDoc(job[p], job[q])

\* The pages and what is known of them outlast a step.
PagesKept ==
  /\ \A i \in PageIds : PageHolds(i)'
  /\ \A j \in CJob \cup {NoJob} : JobHolds(j) => JobHolds(j)'
  /\ \A j, k \in CJob \cup {NoJob} : JobHolds(j) /\ SameDoc(j, k) => SameDoc(j, k)'

\* A page that was made has a number of a page.
LEMMA MadeIsPage ==
  ASSUME CTypes, NEW i \in 1..made
  PROVE  i \in PageIds
BY ConfluenceAssumption DEF CTypes, PageIds

\* Where no page changes, all that is known of the pages is kept.
LEMMA NothingKept ==
  ASSUME CInv, UNCHANGED <<page, made>>
  PROVE  PagesKept
BY DEF PagesKept, CInv, PageHolds, JobHolds, SameDoc

\* A page's version and property are numbers.
LEMMA PageNumbers ==
  ASSUME CTypes, NEW i \in PageIds, page[i] # NoPage
  PROVE  page[i].ver \in Nat /\ page[i].prop.of \in Nat
<1>1. \A e \in Page : e.ver \in Nat /\ e.prop.of \in Nat BY DEF Page
<1> QED BY <1>1, IsPage

\* The fields of a job.
LEMMA JobNumbers ==
  ASSUME NEW j \in CJob
  PROVE  j.wrote \in Nat /\ j.doc \in Docs /\ j.doc # None /\ j.text \in Texts
BY ProviderAssumption DEF CJob

\* A process without a publish has no page.
LEMMA NoJobIsIdle == NoJob.pc = "idle" /\ NoJob.pc \notin Working
BY DEF NoJob, Working

\* A page that gets a new version keeps its property, which is of another one then.
LEMMA RewrittenKept ==
  ASSUME CInv, NEW i \in PageIds, NEW s, Rewritten(i, s)
  PROVE  PagesKept
<1>1. CTypes /\ page[i].ver \in Nat /\ page[i].prop.of \in Nat /\ made' = made
  BY PageNumbers DEF CInv, Rewritten
<1>2. ASSUME NEW k \in PageIds PROVE PageHolds(k)'
  <2>1. PageHolds(k) BY DEF CInv
  <2>2. CASE k # i BY <1>1, <2>1, <2>2 DEF PageHolds, Rewritten, Changes
  <2>3. CASE k = i BY <1>1, <2>1, <2>3 DEF PageHolds, Rewritten
  <2> QED BY <2>2, <2>3
<1>3. ASSUME NEW j \in CJob \cup {NoJob}, JobHolds(j) PROVE JobHolds(j)'
  <2> SUFFICES ASSUME j.pc \in Working PROVE JobHolds(j)'
    BY DEF JobHolds
  <2>1. j \in CJob /\ j.at \in PageIds
    BY <1>1, <1>3, MadeIsPage, NoJobIsIdle DEF JobHolds
  <2>2. CASE j.at # i
    BY <1>1, <1>3, <2>1, <2>2 DEF JobHolds, Rewritten, Changes
  <2>3. CASE j.at = i
    <3>1. j.wrote \in Nat BY <2>1, JobNumbers
    <3> QED BY <1>1, <1>3, <2>1, <2>3, <3>1 DEF JobHolds, Rewritten
  <2> QED BY <2>2, <2>3
<1>4. ASSUME NEW j \in CJob \cup {NoJob}, NEW k \in CJob \cup {NoJob},
             JobHolds(j), SameDoc(j, k), j.pc \in Working
      PROVE  SameDoc(j, k)'
  <2>1. j.at \in PageIds
    BY <1>1, <1>4, MadeIsPage DEF JobHolds
  <2> QED BY <1>4, <2>1 DEF SameDoc, Rewritten, Changes
<1>5. ASSUME NEW j \in CJob \cup {NoJob}, NEW k \in CJob \cup {NoJob}, JobHolds(j), SameDoc(j, k)
      PROVE  SameDoc(j, k)'
  <2>1. CASE j.pc \in Working BY <1>4, <1>5, <2>1
  <2>2. CASE j.pc \notin Working BY <2>2 DEF SameDoc
  <2> QED BY <2>1, <2>2
<1> QED BY <1>2, <1>3, <1>5 DEF PagesKept

\* A page that is deleted.
Deleted(i) == page[i] # NoPage /\ page'[i] = NoPage /\ Changes(i) /\ UNCHANGED made

\* Nothing is claimed of a page that is not there.
LEMMA DeletedKept ==
  ASSUME CInv, NEW i \in PageIds, Deleted(i)
  PROVE  PagesKept
<1>1. CTypes /\ made' = made /\ \A k \in PageIds : page'[k] # NoPage => k # i /\ page'[k] = page[k]
  BY DEF CInv, Deleted, Changes
<1>2. ASSUME NEW k \in PageIds PROVE PageHolds(k)'
  BY <1>1 DEF PageHolds, CInv
<1>3. ASSUME NEW j \in CJob \cup {NoJob}, JobHolds(j) PROVE JobHolds(j)'
  <2> SUFFICES ASSUME j.pc \in Working PROVE JobHolds(j)'
    BY DEF JobHolds
  <2>1. j.at \in PageIds
    BY <1>1, <1>3, MadeIsPage DEF JobHolds
  <2>2. CASE page'[j.at] # NoPage BY <1>1, <1>3, <2>1, <2>2 DEF JobHolds
  <2>3. CASE page'[j.at] = NoPage BY <1>1, <1>3, <2>3 DEF JobHolds
  <2> QED BY <2>2, <2>3
<1>4. ASSUME NEW j \in CJob \cup {NoJob}, NEW k \in CJob \cup {NoJob}, JobHolds(j), SameDoc(j, k)
      PROVE  SameDoc(j, k)'
  <2>1. CASE j.pc \in Working
    <3>1. j.at \in PageIds
      BY <1>1, <1>4, <2>1, MadeIsPage DEF JobHolds
    <3> QED BY <1>1, <1>4, <3>1 DEF SameDoc
  <2>2. CASE j.pc \notin Working BY <2>2 DEF SameDoc
  <2> QED BY <2>1, <2>2
<1> QED BY <1>2, <1>3, <1>4 DEF PagesKept

\* A page that is new is nobody's yet.
LEMMA CreatedKept ==
  ASSUME CInv, NEW p \in Publishers, NEW n, Creates(p, n)
  PROVE  /\ PagesKept /\ made + 1 \in PageIds
         /\ \A j \in CJob \cup {NoJob} : JobHolds(j) /\ j.pc \in Working => j.at # made + 1
<1>1. /\ CTypes /\ made \in Nat /\ made' = made + 1 /\ made + 1 \in PageIds /\ Changes(made + 1)
      /\ page'[made + 1].prop = NoProp /\ page'[made + 1].ver = 1
  BY ConfluenceAssumption DEF CInv, CTypes, Creates, PageIds
<1>2. page[made + 1] = NoPage
  <2>1. PageHolds(made + 1) BY <1>1 DEF CInv
  <2>2. ~(made + 1 <= made) BY <1>1
  <2> QED BY <2>1, <2>2 DEF PageHolds
<1>3. ASSUME NEW k \in PageIds PROVE PageHolds(k)'
  <2>1. PageHolds(k) BY DEF CInv
  <2>2. CASE k # made + 1
    <3>1. page'[k] = page[k] BY <1>1, <2>2 DEF Changes
    <3>2. k \in Nat BY DEF PageIds
    <3> QED BY <1>1, <2>1, <3>1, <3>2 DEF PageHolds
  <2>3. CASE k = made + 1 BY <1>1, <2>3 DEF PageHolds, NoProp
  <2> QED BY <2>2, <2>3
<1>4. ASSUME NEW j \in CJob \cup {NoJob}, JobHolds(j), j.pc \in Working
      PROVE  j.at \in PageIds /\ j.at # made + 1 /\ page'[j.at] = page[j.at] /\ j.at \in 1..made'
  <2>1. j.at \in 1..made BY <1>4 DEF JobHolds
  <2>2. j.at \in PageIds /\ j.at # made + 1 /\ j.at \in 1..made' BY <1>1, <2>1, MadeIsPage
  <2> QED BY <1>1, <2>2 DEF Changes
<1>5. ASSUME NEW j \in CJob \cup {NoJob}, JobHolds(j) PROVE JobHolds(j)'
  BY <1>4, <1>5 DEF JobHolds
<1>6. ASSUME NEW j \in CJob \cup {NoJob}, NEW k \in CJob \cup {NoJob}, JobHolds(j), SameDoc(j, k)
      PROVE  SameDoc(j, k)'
  BY <1>4, <1>6 DEF SameDoc
<1> QED BY <1>1, <1>3, <1>4, <1>5, <1>6 DEF PagesKept

\* A page whose property, or restriction, is set.
LEMMA LimitedKept ==
  ASSUME CInv, NEW p \in Publishers, NEW n, Limits(p, n)
  PROVE  PagesKept
<1>1. /\ CTypes /\ made' = made /\ n.at \in 1..made /\ n.at \in PageIds
      /\ \A k \in PageIds : /\ page'[k] # NoPage <=> page[k] # NoPage
                            /\ page'[k] # NoPage => /\ page'[k].prop = page[k].prop
                                                    /\ page'[k].ver = page[k].ver
                                                    /\ page'[k].shown = page[k].shown
  <2>1. CTypes /\ n.at \in 1..made
    BY DEF CInv, Limits, JobHolds, Working
  <2>2. n.at \in PageIds
    BY <2>1, MadeIsPage
  <2> QED BY <2>1, <2>2 DEF Limits, Changes
<1>2. ASSUME NEW k \in PageIds PROVE PageHolds(k)'
  BY <1>1 DEF PageHolds, CInv
<1>3. ASSUME NEW j \in CJob \cup {NoJob}, JobHolds(j) PROVE JobHolds(j)'
  <2> SUFFICES ASSUME j.pc \in Working PROVE JobHolds(j)'
    BY DEF JobHolds
  <2>1. j.at \in PageIds
    BY <1>1, <1>3, MadeIsPage DEF JobHolds
  <2> QED BY <1>1, <1>3, <2>1 DEF JobHolds
<1>4. ASSUME NEW j \in CJob \cup {NoJob}, NEW k \in CJob \cup {NoJob}, JobHolds(j), SameDoc(j, k)
      PROVE  SameDoc(j, k)'
  <2>1. CASE j.pc \in Working
    <3>1. j.at \in PageIds
      BY <1>1, <1>4, <2>1, MadeIsPage DEF JobHolds
    <3> QED BY <1>1, <1>4, <3>1 DEF SameDoc
  <2>2. CASE j.pc \notin Working BY <2>2 DEF SameDoc
  <2> QED BY <2>1, <2>2
<1> QED BY <1>2, <1>3, <1>4 DEF PagesKept

\* Every job on the page is of the document its property names then.
LEMMA MarkedKept ==
  ASSUME CInv, NEW p \in Publishers, NEW n, Marks(p, n)
  PROVE  /\ \A i \in PageIds : PageHolds(i)'
         /\ \A j \in CJob \cup {NoJob} : JobHolds(j) /\ SameDoc(job[p], j) => JobHolds(j)'
         /\ \A j, k \in CJob \cup {NoJob} : JobHolds(j) /\ SameDoc(j, k) => SameDoc(j, k)'
<1> DEFINE i == n.at
<1>1. /\ CTypes /\ made' = made /\ i \in 1..made /\ i \in PageIds
      /\ job[p].at = i /\ job[p].doc = n.doc /\ job[p].pc = "prop" /\ JobHolds(job[p]) /\ job[p] \in CJob
      /\ n \in CJob
  BY MadeIsPage DEF CInv, Marks, Goes, JobHolds, Working
<1>2. /\ page[i] # NoPage /\ page'[i] # NoPage /\ page'[i].prop.doc = n.doc
      /\ page'[i].prop.text = n.text /\ page'[i].prop.of = job[p].wrote
      /\ page'[i].ver = page[i].ver /\ page'[i].shown = page[i].shown
      /\ \A k \in PageIds : k # i => page'[k] = page[k]
  BY DEF Marks, Changes
<1>3. /\ job[p].wrote <= page[i].ver
      /\ job[p].wrote = page[i].ver => page[i].shown = [doc |-> n.doc, text |-> n.text]
  BY <1>1, <1>2 DEF JobHolds, ShownBy, Working, Marks, Goes
<1> HIDE DEF i
<1>4. ASSUME NEW k \in PageIds PROVE PageHolds(k)'
  <2>1. PageHolds(k) BY DEF CInv
  <2>2. CASE k # i BY <1>1, <1>2, <2>1, <2>2 DEF PageHolds
  <2>3. CASE k = i
    <3>1. i <= made BY <1>1
    <3> QED BY <1>1, <1>2, <1>3, <2>3, <3>1 DEF PageHolds
  <2> QED BY <2>2, <2>3
<1>5. ASSUME NEW j \in CJob \cup {NoJob}, JobHolds(j), j.pc \in Working PROVE j.at \in PageIds
  BY <1>1, <1>5, MadeIsPage DEF JobHolds
<1>6. ASSUME NEW j \in CJob \cup {NoJob}, JobHolds(j), SameDoc(job[p], j) PROVE JobHolds(j)'
  <2> SUFFICES ASSUME j.pc \in Working PROVE JobHolds(j)'
    BY DEF JobHolds
  <2>1. CASE j.at # i
    BY <1>1, <1>2, <1>5, <1>6, <2>1 DEF JobHolds
  <2>2. CASE j.at = i
    <3>1. j.doc = n.doc
      BY <1>1, <1>2, <1>6, <2>2 DEF SameDoc, Working
    <3> QED BY <1>1, <1>2, <1>6, <2>2, <3>1 DEF JobHolds
  <2> QED BY <2>1, <2>2
<1>7. ASSUME NEW j \in CJob \cup {NoJob}, NEW k \in CJob \cup {NoJob}, JobHolds(j), SameDoc(j, k)
      PROVE  SameDoc(j, k)'
  <2>1. CASE j.pc \in Working
    <3>1. page'[j.at] # NoPage => page[j.at] # NoPage
      BY <1>2, <1>5, <1>7, <2>1
    <3> QED BY <1>7, <3>1 DEF SameDoc
  <2>2. CASE j.pc \notin Working BY <2>2 DEF SameDoc
  <2> QED BY <2>1, <2>2
<1> QED BY <1>4, <1>6, <1>7
RestTyped ==
  /\ section \in BOOLEAN
  /\ cache \in [Publishers -> [Docs -> PageIds \cup {None}]]
  /\ docPage \in [Docs -> PageIds \cup {None}]

\* It is enough that the job that moved holds, that the others still do, and
\* that it agrees with them.
LEMMA JobsHold ==
  ASSUME CInv, NEW p \in Publishers, NEW n \in CJob \cup {NoJob}, job' = [job EXCEPT ![p] = n],
         page' \in [PageIds -> Page \cup {NoPage}], made' \in 0..MaxPages, RestTyped',
         \A i \in PageIds : PageHolds(i)',
         \A q \in Publishers : q # p => \A j \in CJob \cup {NoJob} : j = job[q] => JobHolds(j)',
         \A j, k \in CJob \cup {NoJob} : JobHolds(j) /\ SameDoc(j, k) => SameDoc(j, k)',
         JobHolds(n)',
         \A q \in Publishers : q # p => \A j \in CJob \cup {NoJob} : j = job[q] => SameDoc(n, j)'
  PROVE  CInv'
<1>1. job \in [Publishers -> CJob \cup {NoJob}]
  BY DEF CInv, CTypes
<1>2. /\ job' \in [Publishers -> CJob \cup {NoJob}] /\ job'[p] = n
      /\ \A q \in Publishers : q # p => job'[q] = job[q] /\ job[q] \in CJob \cup {NoJob}
  BY <1>1
<1>3. CTypes'
  BY <1>2 DEF CTypes, RestTyped
<1>4. ASSUME NEW q \in Publishers PROVE JobHolds(job[q])'
  <2>1. CASE q = p BY <1>2, <2>1 DEF JobHolds
  <2>2. CASE q # p
    <3>1. PICK j \in CJob \cup {NoJob} : j = job[q] /\ j = job'[q] BY <1>2, <2>2
    <3>2. JobHolds(j)' BY <2>2, <3>1
    <3> QED BY <3>1, <3>2 DEF JobHolds
  <2> QED BY <2>1, <2>2
<1>5. ASSUME NEW q \in Publishers, NEW r \in Publishers PROVE SameDoc(job[q], job[r])'
  <2>1. CASE q = p /\ r = p BY <2>1 DEF SameDoc
  <2>2. CASE q = p /\ r # p
    <3>1. PICK j \in CJob \cup {NoJob} : j = job[r] /\ j = job'[r] BY <1>2, <2>2
    <3>2. SameDoc(n, j)' BY <2>2, <3>1
    <3> QED BY <1>2, <2>2, <3>1, <3>2 DEF SameDoc
  <2>3. CASE q # p /\ r = p
    <3>1. PICK j \in CJob \cup {NoJob} : j = job[q] /\ j = job'[q] BY <1>2, <2>3
    <3>2. SameDoc(n, j)' BY <2>3, <3>1
    <3> QED BY <1>2, <2>3, <3>1, <3>2 DEF SameDoc
  <2>4. CASE q # p /\ r # p
    <3>1. PICK j \in CJob \cup {NoJob}, k \in CJob \cup {NoJob} :
            j = job[q] /\ j = job'[q] /\ k = job[r] /\ k = job'[r]
      BY <1>2, <2>4
    <3>2. JobHolds(j) /\ SameDoc(j, k) BY <3>1 DEF CInv
    <3>3. SameDoc(j, k)' BY <3>2
    <3> QED BY <3>1, <3>3 DEF SameDoc
  <2> QED BY <2>1, <2>2, <2>3, <2>4
<1> QED BY <1>3, <1>4, <1>5 DEF CInv

\* A job that moves leaves the pages, its own state and the others' right.
LEMMA MovesHold ==
  ASSUME CInv, NEW p \in Publishers, NEW n, Moves(p, n), RestTyped'
  PROVE  CInv'
<1> DEFINE Jobs == CJob \cup {NoJob}
<1>1. /\ Goes(p, n) /\ n \in CJob /\ job[p] \in CJob /\ job' = [job EXCEPT ![p] = n]
      /\ n.doc = job[p].doc /\ n.text = job[p].text
  BY DEF Moves, GivesUp, Prepares, Finds, Versions, Rewrites, Creates, AsksProperty, Marks,
         Limits, Goes
<1>2. /\ CTypes /\ JobHolds(job[p])
      /\ \A q \in Publishers : JobHolds(job[q]) /\ SameDoc(job[p], job[q]) /\ job[q] \in Jobs
  BY DEF CInv, CTypes
\* From what is kept of the pages to what is kept of the jobs.
<1>3. ASSUME PagesKept
      PROVE  /\ \A i \in PageIds : PageHolds(i)'
             /\ \A q \in Publishers : q # p => \A j \in Jobs : j = job[q] => JobHolds(j)'
             /\ \A j, k \in Jobs : JobHolds(j) /\ SameDoc(j, k) => SameDoc(j, k)'
  BY <1>2, <1>3 DEF PagesKept
<1>4. ASSUME PagesKept, page' \in [PageIds -> Page \cup {NoPage}], made' \in 0..MaxPages,
             JobHolds(n)',
             \A q \in Publishers : q # p => \A j \in Jobs : j = job[q] => SameDoc(n, j)'
      PROVE  CInv'
  <2> HIDE DEF PagesKept
  <2> QED BY <1>1, <1>3, <1>4, JobsHold
<1>5. CASE n.pc \notin Working /\ PagesKept
  <2>1. JobHolds(n)' /\ \A j : SameDoc(n, j)'
    BY <1>5 DEF JobHolds, SameDoc
  <2>2. page' \in [PageIds -> Page \cup {NoPage}] /\ made' \in 0..MaxPages
    BY <1>2, ConfluenceAssumption DEF Moves, GivesUp, Prepares, Finds, Versions, Rewrites, Creates, AsksProperty, Marks,
         Limits, Changes, Rewritten, CTypes
  <2> QED BY <1>4, <1>5, <2>1, <2>2
<1>6. CASE GivesUp(p, n) \/ Prepares(p, n)
  <2>1. n.pc \notin Working BY <1>6 DEF GivesUp, Prepares, Working, Asking
  <2>2. PagesKept BY <1>6, NothingKept DEF GivesUp, Prepares
  <2> QED BY <1>5, <2>1, <2>2
<1>7. CASE Finds(p, n)
  <2>1. PagesKept BY <1>7, NothingKept DEF Finds
  <2>2. page[n.at] # NoPage /\ page[n.at].prop.doc = n.doc /\ n.at \in PageIds /\ n.pc = "read"
    BY <1>7 DEF Finds, Carries
  <2>3. n.at \in 1..made
    <3>1. PageHolds(n.at) BY <2>2 DEF CInv
    <3>2. n.at \in Nat \ {0} /\ made \in Nat BY <1>2, <2>2 DEF PageIds, CTypes
    <3> QED BY <2>2, <3>1, <3>2 DEF PageHolds
  <2>4. UNCHANGED <<page, made>>
    BY <1>7 DEF Finds
  <2>5. JobHolds(n)'
    BY <2>2, <2>3, <2>4 DEF JobHolds, Working
  <2>6. ASSUME NEW j \in Jobs, JobHolds(j) PROVE SameDoc(n, j)'
    <3>1. n.doc # None BY <1>1, JobNumbers
    <3> QED BY <2>2, <2>4, <2>6, <3>1 DEF SameDoc, JobHolds
  <2>7. page' \in [PageIds -> Page \cup {NoPage}] /\ made' \in 0..MaxPages
    BY <1>2, <2>4 DEF CTypes
  <2> QED BY <1>2, <1>4, <2>1, <2>5, <2>6, <2>7
<1>8. CASE Versions(p, n) \/ AsksProperty(p, n)
  <2>1. PagesKept /\ UNCHANGED <<page, made>>
    BY <1>8, NothingKept DEF Versions, AsksProperty
  <2>2. JobHolds(n)'
    BY <1>1, <1>2, <1>8, <2>1 DEF Versions, AsksProperty, JobHolds, Working, ShownBy
  <2>3. job[p].pc \in Working /\ n.at = job[p].at
    BY <1>8 DEF Versions, AsksProperty, Working
  <2>4. ASSUME NEW q \in Publishers, NEW j \in Jobs, j = job[q] PROVE SameDoc(n, j)'
    <3>1. SameDoc(job[p], j) BY <1>2, <2>4
    <3> QED BY <1>1, <2>1, <2>3, <3>1 DEF SameDoc
  <2>5. page' \in [PageIds -> Page \cup {NoPage}] /\ made' \in 0..MaxPages
    BY <1>2, <2>1 DEF CTypes
  <2> QED BY <1>4, <2>1, <2>2, <2>4, <2>5
<1>9. CASE Rewrites(p, n)
  <2>1. /\ job[p].pc = "update" /\ n.at = job[p].at /\ Rewritten(n.at, ShownBy(n))
        /\ n.pc \in {"failed", "read"} \/ (n.pc = "row" /\ n.wrote = page[n.at].ver + 1)
    BY <1>9 DEF Rewrites
  <2>2. n.at \in 1..made /\ n.at \in PageIds
    BY <1>2, <2>1, MadeIsPage DEF JobHolds, Working
  <2>3. PagesKept
    BY <2>1, <2>2, RewrittenKept
  <2>4. /\ page' \in [PageIds -> Page \cup {NoPage}] /\ made' = made /\ made' \in 0..MaxPages
        /\ page[n.at] # NoPage /\ page'[n.at].prop = page[n.at].prop
        /\ page'[n.at].ver = page[n.at].ver + 1 /\ page'[n.at].shown = ShownBy(n)
    BY <1>2, <2>1 DEF Rewritten, Changes, CTypes
  <2>5. page[n.at].prop.doc = n.doc /\ page[n.at].ver \in Nat
    BY <1>1, <1>2, <2>1, <2>2, <2>4, PageNumbers DEF JobHolds, Working
  <2>6. JobHolds(n)'
    BY <2>1, <2>2, <2>4, <2>5 DEF JobHolds, Working, ShownBy
  <2>7. ASSUME NEW q \in Publishers, NEW j \in Jobs, j = job[q] PROVE SameDoc(n, j)'
    <3>1. SameDoc(job[p], j) BY <1>2, <2>7
    <3> QED BY <1>1, <2>1, <2>4, <3>1 DEF SameDoc, Working
  <2> QED BY <1>4, <2>3, <2>4, <2>6, <2>7
<1>10. CASE Creates(p, n)
  <2>1. /\ PagesKept /\ made + 1 \in PageIds
        /\ \A j \in Jobs : JobHolds(j) /\ j.pc \in Working => j.at # made + 1
    BY <1>10, CreatedKept
  <2>2. CASE n.pc \in {"failed", "create"}
    BY <1>5, <2>1, <2>2 DEF Working
  <2>3. CASE n.pc = "row" /\ n.at = made + 1 /\ n.wrote = 1
    <3>1. /\ page' \in [PageIds -> Page \cup {NoPage}] /\ made' = made + 1 /\ made' \in 0..MaxPages
          /\ page'[n.at].prop = NoProp /\ page'[n.at].ver = 1 /\ page'[n.at].shown = ShownBy(n)
          /\ n.at \in 1..made'
      BY <1>2, <1>10, <2>3, ConfluenceAssumption DEF Creates, Changes, CTypes
    <3>2. JobHolds(n)'
      BY <2>3, <3>1 DEF JobHolds, Working, ShownBy, NoProp
    <3>3. ASSUME NEW q \in Publishers, NEW j \in Jobs, j = job[q] PROVE SameDoc(n, j)'
      <4>1. j.pc \in Working => j.at # made + 1
        BY <1>2, <2>1, <3>3
      <4> QED BY <2>3, <4>1 DEF SameDoc
    <3> QED BY <1>4, <2>1, <3>1, <3>2, <3>3
  <2> QED BY <1>10, <2>2, <2>3 DEF Creates
<1>11. CASE Marks(p, n)
  <2>1. /\ \A i \in PageIds : PageHolds(i)'
        /\ \A j \in Jobs : JobHolds(j) /\ SameDoc(job[p], j) => JobHolds(j)'
        /\ \A j, k \in Jobs : JobHolds(j) /\ SameDoc(j, k) => SameDoc(j, k)'
    BY <1>11, MarkedKept
  <2>2. /\ page' \in [PageIds -> Page \cup {NoPage}] /\ made' = made /\ made' \in 0..MaxPages
        /\ page'[n.at] # NoPage /\ page'[n.at].prop.doc = n.doc /\ page'[n.at].prop.text = n.text
        /\ n.at = job[p].at /\ job[p].pc = "prop" /\ n.pc \in {"failed", "restrict", "done"}
        /\ page[n.at] # NoPage
    BY <1>2, <1>11 DEF Marks, Changes, CTypes, AfterProperty
  <2>3. JobHolds(n)'
    <3>1. n.at \in 1..made
      BY <1>2, <2>2 DEF JobHolds, Working
    <3> QED BY <2>2, <3>1 DEF JobHolds, Working
  <2>4. ASSUME NEW q \in Publishers, NEW j \in Jobs, j = job[q] PROVE SameDoc(n, j)'
    <3>1. SameDoc(job[p], j) BY <1>2, <2>4
    <3> QED BY <1>1, <2>2, <3>1 DEF SameDoc, Working
  <2>5. \A q \in Publishers : q # p => \A j \in Jobs : j = job[q] => JobHolds(j)'
    BY <1>2, <2>1
  <2> QED BY <1>1, <2>1, <2>2, <2>3, <2>4, <2>5, JobsHold
<1>12. CASE Limits(p, n)
  <2>1. PagesKept
    BY <1>12, LimitedKept
  <2>2. n.pc \notin Working
    BY <1>12 DEF Limits, Working
  <2> QED BY <1>5, <2>1, <2>2
<1> QED BY <1>6, <1>7, <1>8, <1>9, <1>10, <1>11, <1>12 DEF Moves

\* Who reads the platform changes no job, and a process starts, or ends, one.
LEMMA OthersHold ==
  ASSUME CInv, PagesKept, page' \in [PageIds -> Page \cup {NoPage}], made' \in 0..MaxPages,
         RestTyped', UNCHANGED job
  PROVE  CInv'
<1>1. CTypes'
  BY DEF CInv, CTypes, RestTyped
<1>2. \A p \in Publishers : job'[p] = job[p] /\ job[p] \in CJob \cup {NoJob}
  BY DEF CInv, CTypes
<1>3. ASSUME NEW p \in Publishers PROVE JobHolds(job[p])'
  <2>1. PICK j \in CJob \cup {NoJob} : j = job[p] /\ j = job'[p] BY <1>2
  <2>2. JobHolds(j) BY <2>1 DEF CInv
  <2>3. JobHolds(j)' BY <2>2 DEF PagesKept
  <2> QED BY <2>1, <2>3 DEF JobHolds
<1>4. ASSUME NEW p \in Publishers, NEW q \in Publishers PROVE SameDoc(job[p], job[q])'
  <2>1. PICK j \in CJob \cup {NoJob}, k \in CJob \cup {NoJob} :
          j = job[p] /\ j = job'[p] /\ k = job[q] /\ k = job'[q]
    BY <1>2
  <2>2. JobHolds(j) /\ SameDoc(j, k) BY <2>1 DEF CInv
  <2>3. SameDoc(j, k)' BY <2>2 DEF PagesKept
  <2> QED BY <2>1, <2>3 DEF SameDoc
<1> QED BY <1>1, <1>3, <1>4 DEF CInv, PagesKept

\* A process that starts a publish, or is done with one, has no page.
LEMMA JobChanges ==
  ASSUME CInv, NEW p \in Publishers, NEW n \in CJob \cup {NoJob}, n.pc \notin Working,
         job' = [job EXCEPT ![p] = n], UNCHANGED <<page, made>>, RestTyped'
  PROVE  CInv'
<1>1. PagesKept
  BY NothingKept
<1>2. JobHolds(n)' /\ \A j : SameDoc(n, j)'
  BY DEF JobHolds, SameDoc
<1>3. page' \in [PageIds -> Page \cup {NoPage}] /\ made' \in 0..MaxPages
  BY DEF CInv, CTypes
<1>4. \A q \in Publishers : JobHolds(job[q]) /\ job[q] \in CJob \cup {NoJob}
  BY DEF CInv, CTypes
<1>5. \A q \in Publishers : q # p => \A j \in CJob \cup {NoJob} : j = job[q] => JobHolds(j)'
  BY <1>1, <1>4 DEF PagesKept
<1> HIDE DEF PagesKept
<1> QED BY <1>1, <1>2, <1>3, <1>5, JobsHold DEF PagesKept

\* What a step does, whichever it is.
Starts(p, n) ==
  /\ job[p] = NoJob /\ n \in CJob /\ n.pc = "parent" /\ ~n.looked
  /\ job' = [job EXCEPT ![p] = n] /\ UNCHANGED <<page, made>>
  /\ Apart => \A q \in Publishers : job[q] # NoJob => job[q].doc # n.doc

Ends(p) == job' = [job EXCEPT ![p] = NoJob] /\ UNCHANGED <<page, made>>

Reader(i) ==
  /\ UNCHANGED job
  /\ Deleted(i) \/ Rewritten(i, [doc |-> None, text |-> None])

\* A publish starts without knowing of any page.
LEMMA StartStarts ==
  ASSUME CTypes, NEW p \in Publishers, CStart(p)
  PROVE  \E n : Starts(p, n)
<1>1. PICK d \in Docs, t \in Texts :
        /\ Apart => \A q \in Publishers : job[q] # NoJob => job[q].doc # d
        /\ job' = [job EXCEPT ![p] = [pc |-> "parent", doc |-> d, text |-> t,
                    at |-> None, ver |-> 0, wrote |-> 0, try |-> 1, looked |-> FALSE,
                    again |-> FALSE]]
  BY DEF CStart
<1>2. PICK n : n = [pc |-> "parent", doc |-> d, text |-> t, at |-> None, ver |-> 0,
                    wrote |-> 0, try |-> 1, looked |-> FALSE, again |-> FALSE]
  OBVIOUS
<1>3. n \in CJob /\ n.pc = "parent" /\ ~n.looked /\ n.doc = d
  BY <1>2 DEF CJob, Asking, Tries, None
<1> QED BY <1>1, <1>2, <1>3 DEF CStart, Starts

\* Edited write a new version of a page, or delete it.
LEMMA ReaderReads ==
  ASSUME CTypes, NEW i \in PageIds, ReaderEdits(i)
  PROVE  Reader(i)
<1>1. page[i] # NoPage /\ page[i] \in Page /\ UNCHANGED <<made, job>>
  BY IsPage DEF ReaderEdits
<1>2. CASE page' = [page EXCEPT ![i] = NoPage]
  BY <1>1, <1>2 DEF Reader, Deleted, Changes, CTypes
<1>3. CASE page' = [page EXCEPT ![i].ver = @ + 1, ![i].shown = [doc |-> None, text |-> None]]
  <2>1. PICK s \in Shown : s = [doc |-> None, text |-> None]
    BY DEF Shown
  <2>2. PICK v \in Nat : v = page[i].ver + 1
    BY <1>1, PageNumbers
  <2>3. PICK e \in Page : e = page[i]
    BY <1>1
  <2>4. PICK k : k = [e EXCEPT !.ver = v, !.shown = s]
    OBVIOUS
  <2>5. k \in Page /\ k.ver = v /\ k.shown = s /\ k.prop = e.prop /\ k.limited = e.limited
    BY <2>1, <2>2, <2>3, <2>4 DEF Page
  <2>6. page' = [page EXCEPT ![i] = k]
    BY <1>3, <2>1, <2>2, <2>3, <2>4
  <2>7. Changes(i) /\ page'[i] = k
    BY <2>5, <2>6 DEF Changes, CTypes
  <2> QED BY <1>1, <2>1, <2>2, <2>3, <2>5, <2>7, PageIsNotNone DEF Reader, Rewritten
<1> QED BY <1>2, <1>3 DEF ReaderEdits

\* A request of a job moves it.
LEMMA StepMoves ==
  ASSUME CInv, NEW p \in Publishers, CStep(p), ~CAnswer(p)
  PROVE  \E n : Moves(p, n)
<1>1. CTypes /\ JobHolds(job[p])
  BY DEF CInv
<1>2. job[p].pc \in Working => job[p].at \in PageIds
  BY <1>1, MadeIsPage DEF JobHolds
<1>3. CASE ReadVersion(p) \/ ReadProperty(p) \/ UpdatePage(p) \/ SetProperty(p) \/ RestrictRead(p)
  <2>1. job[p].pc \in Working
    BY <1>3 DEF ReadVersion, ReadProperty, UpdatePage, SetProperty, RestrictRead, Working
  <2> QED BY <1>1, <1>2, <1>3, <2>1, ReadMoves, UpdateMoves, PropertyMoves, RestrictMoves
<1> QED BY <1>1, <1>3, LookParentMoves, MakeParentMoves, FindMoves, CreateMoves DEF CStep

\* Every step of Confluence is one of these, and keeps the types of the rest.
LEMMA ConfluenceSteps ==
  ASSUME CInv, ConfluenceNext
  PROVE  /\ RestTyped'
         /\ \/ \E p \in Publishers : (\E n : Starts(p, n) \/ Moves(p, n)) \/ Ends(p)
            \/ \E i \in PageIds : Reader(i)
<1> USE DEF RestTyped
<1>1. CTypes
  BY DEF CInv
<1>2. RestTyped
  BY <1>1 DEF CTypes
<1>3. ASSUME NEW p \in Publishers, CStart(p) PROVE RestTyped' /\ \E n : Starts(p, n)
  BY <1>1, <1>2, <1>3, StartStarts DEF CStart
<1>4. ASSUME NEW p \in Publishers, CAnswer(p) PROVE RestTyped' /\ Ends(p)
  <2>1. Ends(p) BY <1>4 DEF CAnswer, Ends
  <2>2. job[p] \in CJob BY <1>1, <1>4, IsJob DEF CAnswer
  <2>3. job[p].doc \in Docs /\ job[p].at \in PageIds \cup {None} BY <2>2 DEF CJob
  <2>4. RestTyped' BY <1>2, <1>4, <2>3 DEF CAnswer
  <2> QED BY <2>1, <2>4
<1>5. ASSUME NEW p \in Publishers, CRestart(p) PROVE RestTyped' /\ Ends(p)
  BY <1>2, <1>5 DEF CRestart, Ends
<1>6. ASSUME NEW i \in PageIds, ReaderEdits(i) PROVE RestTyped' /\ Reader(i)
  BY <1>1, <1>2, <1>6, ReaderReads DEF ReaderEdits
<1>7. ASSUME NEW p \in Publishers, CStep(p), ~CAnswer(p) PROVE RestTyped' /\ \E n : Moves(p, n)
  <2>1. \E n : Moves(p, n)
    BY <1>7, StepMoves
  <2>2. UNCHANGED <<section, docPage>> \/ (section' \in {section, TRUE} /\ UNCHANGED docPage)
    BY <1>7 DEF CStep, LookParent, MakeParent, AskRemembered, Search, ReadVersion, UpdatePage,
                CreatePage, ReadProperty, SetProperty, RestrictRead
  <2>3. cache' \in [Publishers -> [Docs -> PageIds \cup {None}]]
    <3>1. CASE AskRemembered(p) \/ Search(p)
      <4>1. job[p] \in CJob BY <1>1, <3>1, IsJob DEF AskRemembered, Search
      <4>2. job[p].doc \in Docs BY <4>1 DEF CJob
      <4>3. UNCHANGED cache \/ \E i \in PageIds \cup {None} : cache' = [cache EXCEPT ![p][job[p].doc] = i]
        BY <3>1 DEF AskRemembered, Search, Reads, Hits
      <4> QED BY <1>2, <4>2, <4>3
    <3>2. CASE UNCHANGED cache
      BY <1>2, <3>2
    <3> QED BY <1>7, <3>1, <3>2 DEF CStep, LookParent, MakeParent, ReadVersion, UpdatePage,
                CreatePage, ReadProperty, SetProperty, RestrictRead
  <2> QED BY <1>2, <2>1, <2>2, <2>3
<1> QED BY <1>3, <1>4, <1>5, <1>6, <1>7 DEF ConfluenceNext

\* The invariant is inductive.
LEMMA ConfluenceHolds ==
  ASSUME CInv, [ConfluenceNext]_cvars
  PROVE  CInv'
<1>1. CTypes /\ RestTyped
  BY DEF CInv, CTypes, RestTyped
<1>2. CASE UNCHANGED cvars
  <2>1. PagesKept BY <1>2, NothingKept DEF cvars
  <2>2. page' \in [PageIds -> Page \cup {NoPage}] /\ made' \in 0..MaxPages /\ RestTyped' /\ UNCHANGED job
    BY <1>1, <1>2 DEF cvars, CTypes, RestTyped
  <2> QED BY <2>1, <2>2, OthersHold
<1>3. CASE ConfluenceNext
  <2>1. RestTyped'
    BY <1>3, ConfluenceSteps
  <2>2. ASSUME NEW p \in Publishers, NEW n, Moves(p, n) PROVE CInv'
    BY <2>1, <2>2, MovesHold
  <2>3. ASSUME NEW p \in Publishers, NEW n, Starts(p, n) PROVE CInv'
    BY <2>1, <2>3, JobChanges DEF Starts, Working
  <2>4. ASSUME NEW p \in Publishers, Ends(p) PROVE CInv'
    BY <2>1, <2>4, JobChanges, NoJobIsIdle DEF Ends
  <2>5. ASSUME NEW i \in PageIds, Reader(i) PROVE CInv'
    <3>1. PagesKept
      BY <2>5, DeletedKept, RewrittenKept DEF Reader
    <3>2. page' \in [PageIds -> Page \cup {NoPage}] /\ made' \in 0..MaxPages /\ UNCHANGED job
      BY <1>1, <2>5 DEF Reader, Deleted, Rewritten, Changes, CTypes
    <3> QED BY <2>1, <3>1, <3>2, OthersHold
  <2> QED BY <1>3, <2>2, <2>3, <2>4, <2>5, ConfluenceSteps
<1> QED BY <1>2, <1>3

\* At the start there may be a reader's page.
LEMMA ConfluenceStart ==
  ASSUME ConfluenceInit
  PROVE  CInv
<1>1. PICK own \in {{}} \cup {{d} : d \in Docs} :
        /\ page = [i \in PageIds |->
             IF i = 1 /\ own # {}
             THEN [title |-> <<Title[CHOOSE d \in own : TRUE], 1>>, ver |-> 1,
                   shown |-> [doc |-> None, text |-> None], prop |-> NoProp,
                   limited |-> FALSE]
             ELSE NoPage]
        /\ made = Cardinality(own)
  BY DEF ConfluenceInit
<1> DEFINE theirs == [title |-> <<Title[CHOOSE d \in own : TRUE], 1>>, ver |-> 1,
                      shown |-> [doc |-> None, text |-> None], prop |-> NoProp,
                      limited |-> FALSE]
<1>2. made \in 0..MaxPages /\ (own # {} => 1 <= made /\ theirs \in Page)
  <2>1. CASE own = {}
    BY <1>1, <2>1, FS_EmptySet, ConfluenceAssumption
  <2>2. CASE own # {}
    <3>1. PICK d \in Docs : own = {d} BY <2>2
    <3>2. made = 1 BY <1>1, <3>1, FS_Singleton
    <3>3. (CHOOSE e \in own : TRUE) = d BY <3>1
    <3>4. <<Title[d], 1>> \in TitlesOfPages BY DEF TitlesOfPages, Names, Tries
    <3>5. theirs \in Page
      <4>1. [doc |-> None, text |-> None] \in Shown BY DEF Shown
      <4>2. NoProp \in [doc : Docs \cup {None}, text : Texts \cup {None}, ver : Nat, of : Nat]
        BY DEF NoProp
      <4>3. <<Title[CHOOSE e \in own : TRUE], 1>> \in Names \X Tries
        BY <3>3, <3>4 DEF TitlesOfPages
      <4> QED BY <4>1, <4>2, <4>3 DEF Page
    <3> QED BY <3>2, <3>5, ConfluenceAssumption
  <2> QED BY <2>1, <2>2
<1>3. \A i \in PageIds : page[i] = IF i = 1 /\ own # {} THEN theirs ELSE NoPage
  BY <1>1
<1>4. page \in [PageIds -> Page \cup {NoPage}]
  <2> HIDE DEF theirs
  <2> QED BY <1>1, <1>2, <1>3 DEF theirs
<1>5. ASSUME NEW i \in PageIds, page[i] # NoPage
      PROVE  i = 1 /\ own # {} /\ page[i].ver = 1 /\ page[i].prop = NoProp
  <2>1. theirs.ver = 1 /\ theirs.prop = NoProp
    OBVIOUS
  <2> HIDE DEF theirs
  <2> QED BY <1>3, <1>5, <2>1
<1>6. \A i \in PageIds : PageHolds(i)
  BY <1>2, <1>5 DEF PageHolds, NoProp
<1>7. CTypes
  BY <1>2, <1>4 DEF ConfluenceInit, CTypes
<1>8. \A p \in Publishers : job[p].pc \notin Working
  BY NoJobIsIdle DEF ConfluenceInit
<1> QED BY <1>6, <1>7, <1>8 DEF CInv, JobHolds, SameDoc

----------------------------------------------------------------------------
\* Confluence: what a publish has written, publishes of a document apart

CAlone ==
  \A p, q \in Publishers :
    p # q /\ job[p].pc # "idle" /\ job[q].pc # "idle" => job[p].doc # job[q].doc

Writing == {"row", "prop", "restrict", "done"}
Edited == [doc |-> None, text |-> None]

\* From its write on the page shows a job's text, or a reader's; from its property
\* on Get returns the job's.
JobShows(j) ==
  j.pc \in Writing =>
    /\ j.at \in 1..made
    /\ page[j.at] # NoPage =>
         /\ page[j.at].shown \in {ShownBy(j), Edited}
         /\ j.pc \in {"restrict", "done"} =>
              page[j.at].prop.doc = j.doc /\ page[j.at].prop.text = j.text

CShows == CInv /\ CAlone /\ \A p \in Publishers : JobShows(job[p])

\* A job of another document keeps what it wrote, whatever this one does.
LEMMA OthersShow ==
  ASSUME CShows, NEW p \in Publishers, NEW n, Moves(p, n), NEW q \in Publishers, q # p
  PROVE  JobShows(job[q])'
<1>1. /\ CInv /\ CTypes /\ job[p] \in CJob /\ n.doc = job[p].doc /\ n.doc # None
      /\ job' = [job EXCEPT ![p] = n] /\ JobHolds(job[p])
      /\ job[q] \in CJob \cup {NoJob} /\ JobShows(job[q]) /\ JobHolds(job[q]) /\ job'[q] = job[q]
  BY JobNumbers DEF CShows, CInv, CTypes, Moves, GivesUp, Prepares, Finds, Versions, Rewrites,
     Creates, AsksProperty, Marks, Limits, Goes
<1>2. PICK j \in CJob \cup {NoJob} : j = job[q] /\ j = job'[q]
  BY <1>1
<1>3. SUFFICES ASSUME j.pc \in Writing PROVE JobShows(j)'
  BY <1>2 DEF JobShows
<1>4. /\ j.at \in 1..made /\ j.at \in PageIds /\ j.doc # n.doc /\ j.doc # None
      /\ page[j.at] # NoPage /\ j.pc \in {"restrict", "done"} => page[j.at].prop.doc = j.doc
      /\ page[j.at] # NoPage /\ j.pc \in {"row", "prop"} => page[j.at].prop.doc \in {j.doc, None}
  <2>1. j \in CJob /\ j.pc # "idle" /\ job[p].pc # "idle"
    BY <1>1, <1>3, NoJobIsIdle DEF Writing, CJob, Asking, Working
  <2>2. j.doc # n.doc
    BY <1>1, <1>2, <2>1 DEF CShows, CAlone
  <2>3. j.at \in 1..made /\ j.at \in PageIds
    BY <1>1, <1>2, <1>3, MadeIsPage DEF JobShows
  <2> QED BY <1>1, <1>2, <1>3, <2>1, <2>2, <2>3, JobNumbers DEF JobShows, JobHolds, Writing, Working
<1>5. ASSUME made' \in Nat, made <= made',
             page'[j.at] # NoPage =>
               page[j.at] # NoPage /\ page'[j.at].shown = page[j.at].shown
               /\ (j.pc \in {"restrict", "done"} => page'[j.at].prop = page[j.at].prop)
      PROVE  JobShows(j)'
  <2>1. j.at \in 1..made'
    BY <1>1, <1>4, <1>5 DEF CTypes
  <2> QED BY <1>1, <1>2, <1>3, <1>5, <2>1 DEF JobShows
<1>6. CASE UNCHANGED <<page, made>>
  BY <1>1, <1>5, <1>6 DEF CTypes
<1>7. made \in Nat /\ made + 1 \in Nat /\ made <= made + 1 /\ made <= made
  BY <1>1 DEF CTypes
<1>8. CASE Rewrites(p, n)
  <2>1. n.at = job[p].at /\ n.at \in PageIds /\ page[n.at].prop.doc = n.doc /\ page[n.at] # NoPage
    BY <1>1, <1>8, MadeIsPage DEF Rewrites, Rewritten, JobHolds, Working
  <2>2. page[j.at] # NoPage => j.at # n.at
    BY <1>3, <1>4, <1>1, <2>1 DEF Writing
  <2>3. j.at # n.at
    BY <2>1, <2>2
  <2> QED BY <1>4, <1>5, <1>7, <1>8, <2>3 DEF Rewrites, Rewritten, Changes
<1>9. CASE Creates(p, n)
  <2>1. j.at # made + 1
    BY <1>4, <1>7
  <2> QED BY <1>4, <1>5, <1>7, <1>9, <2>1 DEF Creates, Changes
<1>10. CASE Marks(p, n)
  <2>1. n.at \in PageIds /\ page[n.at].prop.doc \in {n.doc, None}
    BY <1>1, <1>10, MadeIsPage DEF Marks, JobHolds, Working
  <2>2. /\ page'[j.at] # NoPage => page[j.at] # NoPage /\ page'[j.at].shown = page[j.at].shown
        /\ j.at # n.at => page'[j.at] = page[j.at]
    BY <1>4, <1>10 DEF Marks, Changes
  <2>3. j.at = n.at /\ page[j.at] # NoPage => j.pc \notin {"restrict", "done"}
    BY <1>4, <2>1
  <2> QED BY <1>5, <1>7, <1>10, <2>2, <2>3 DEF Marks
<1>11. CASE Limits(p, n)
  <2>1. page'[j.at] # NoPage =>
          page[j.at] # NoPage /\ page'[j.at].shown = page[j.at].shown /\ page'[j.at].prop = page[j.at].prop
    BY <1>4, <1>11 DEF Limits, Changes
  <2> QED BY <1>5, <1>7, <1>11, <2>1 DEF Limits
<1> QED BY <1>6, <1>8, <1>9, <1>10, <1>11
        DEF Moves, GivesUp, Prepares, Finds, Versions, AsksProperty

\* The job that moved shows what it writes.
LEMMA MoverShows ==
  ASSUME CShows, NEW p \in Publishers, NEW n, Moves(p, n)
  PROVE  JobShows(n)'
<1>1. /\ CTypes /\ n.doc = job[p].doc /\ n.text = job[p].text /\ job[p] \in CJob
      /\ JobHolds(job[p]) /\ JobShows(job[p])
  BY DEF CShows, CInv, Moves, GivesUp, Prepares, Finds, Versions, Rewrites, Creates,
     AsksProperty, Marks, Limits, Goes
<1>2. CASE n.pc \notin Writing
  BY <1>2 DEF JobShows
<1>3. CASE Rewrites(p, n)
  <2>1. n.at \in 1..made /\ n.pc \notin {"restrict", "done"} /\ made' = made
    BY <1>1, <1>3 DEF Rewrites, Rewritten, JobHolds, Working
  <2> QED BY <1>3, <2>1 DEF Rewrites, Rewritten, JobShows
<1>4. CASE Creates(p, n) /\ n.pc \in Writing
  <2>1. n.pc = "row" /\ n.at = made + 1 /\ made' = made + 1 /\ made \in Nat
    BY <1>1, <1>4 DEF Creates, Writing, CTypes
  <2> QED BY <1>4, <2>1 DEF Creates, JobShows
<1>5. CASE AsksProperty(p, n)
  BY <1>1, <1>5 DEF AsksProperty, JobShows, Writing, ShownBy
<1>6. CASE Marks(p, n)
  <2>1. n.at \in 1..made /\ page[n.at].shown \in {ShownBy(n), Edited} /\ made' = made
    BY <1>1, <1>6 DEF Marks, JobShows, Writing, ShownBy
  <2> QED BY <1>6, <2>1 DEF Marks, JobShows
<1>7. CASE Limits(p, n)
  <2>1. /\ n.at \in 1..made /\ page[n.at].shown \in {ShownBy(n), Edited} /\ made' = made
        /\ page[n.at].prop.doc = n.doc /\ page[n.at].prop.text = n.text
    BY <1>1, <1>7 DEF Limits, JobShows, Writing, ShownBy
  <2> QED BY <1>7, <2>1 DEF Limits, JobShows
<1> QED BY <1>2, <1>3, <1>4, <1>5, <1>6, <1>7
        DEF Moves, GivesUp, Prepares, Finds, Versions, Writing, Asking

\* Together they are inductive.
LEMMA ConfluenceShows ==
  ASSUME Apart, CShows, [ConfluenceNext]_cvars
  PROVE  CShows'
<1>1. CInv /\ CInv' /\ CTypes
  BY ConfluenceHolds DEF CShows, CInv
<1>2. ASSUME NEW p \in Publishers, NEW n, Moves(p, n) PROVE CShows'
  <2>1. /\ job[p] \in CJob /\ n.doc = job[p].doc /\ job' = [job EXCEPT ![p] = n] /\ n \in CJob
    BY <1>2 DEF Moves, GivesUp, Prepares, Finds, Versions, Rewrites, Creates,
                AsksProperty, Marks, Limits, Goes
  <2>2. job'[p] = n /\ \A q \in Publishers : q # p => job'[q] = job[q]
    BY <1>1, <2>1 DEF CTypes
  <2>3. CAlone'
    <3>1. job[p].pc # "idle" BY <2>1 DEF CJob, Asking, Working
    <3> QED BY <2>1, <2>2, <3>1 DEF CShows, CAlone
  <2>4. ASSUME NEW q \in Publishers PROVE JobShows(job[q])'
    <3>1. CASE q = p BY <1>2, <2>2, <3>1, MoverShows DEF JobShows, ShownBy
    <3>2. CASE q # p BY <1>2, <3>2, OthersShow
    <3> QED BY <3>1, <3>2
  <2> QED BY <1>1, <2>3, <2>4 DEF CShows
<1>3. ASSUME NEW p \in Publishers, NEW n \in CJob \cup {NoJob}, job' = [job EXCEPT ![p] = n],
             UNCHANGED <<page, made>>, n.pc \notin Writing,
             \A q \in Publishers : q # p /\ n.pc # "idle" /\ job[q].pc # "idle" => job[q].doc # n.doc
      PROVE  CShows'
  <2>1. job'[p] = n /\ \A q \in Publishers : q # p => job'[q] = job[q]
    BY <1>1, <1>3 DEF CTypes
  <2>2. CAlone'
    BY <1>3, <2>1 DEF CShows, CAlone
  <2>3. \A q \in Publishers : JobShows(job[q])'
    BY <1>3, <2>1 DEF CShows, JobShows, ShownBy
  <2> QED BY <1>1, <2>2, <2>3 DEF CShows
<1>4. ASSUME NEW p \in Publishers, NEW n, Starts(p, n) PROVE CShows'
  <2>1. \A q \in Publishers : job[q].pc # "idle" => job[q].doc # n.doc
    BY <1>4 DEF Starts, NoJob
  <2> QED BY <1>3, <1>4, <2>1 DEF Starts, Writing
<1>5. ASSUME NEW p \in Publishers, Ends(p) PROVE CShows'
  BY <1>3, <1>5, NoJobIsIdle DEF Ends, Writing
<1>6. ASSUME UNCHANGED <<job, made>>,
             \A i \in PageIds : page'[i] # NoPage =>
               /\ page[i] # NoPage /\ page'[i].prop = page[i].prop
               /\ page'[i].shown \in {page[i].shown, Edited}
      PROVE  CShows'
  <2>1. ASSUME NEW q \in Publishers PROVE JobShows(job[q])'
    <3>1. PICK j : j = job[q] /\ j = job'[q] BY <1>6
    <3>2. JobShows(j)
      BY <3>1 DEF CShows
    <3>3. j.pc \in Writing => j.at \in PageIds
      BY <1>1, <3>2, MadeIsPage DEF JobShows
    <3>4. JobShows(j)'
      BY <1>6, <3>2, <3>3 DEF JobShows
    <3> QED BY <3>1, <3>4 DEF JobShows, ShownBy
  <2> QED BY <1>1, <1>6, <2>1 DEF CShows, CAlone
<1>7. ASSUME NEW i \in PageIds, Reader(i) PROVE CShows'
  BY <1>6, <1>7 DEF Reader, Deleted, Rewritten, Changes, Edited
<1>8. CASE UNCHANGED cvars
  BY <1>6, <1>8 DEF cvars
<1> QED BY <1>1, <1>2, <1>4, <1>5, <1>7, <1>8, ConfluenceSteps

\* What the invariant says of the properties.
LEMMA ConfluenceSafe ==
  ASSUME CInv
  PROVE  ConfluenceTypeOK /\ ((Apart => CShows) => RoundTrips)
<1>1. CTypes
  BY DEF CInv
<1>2. ASSUME Apart => CShows PROVE RoundTrips
  <2>1. Apart => \A p \in Publishers : ShowsPublished(job[p])
    BY <1>2 DEF CShows, JobShows, ShowsPublished, ShownBy, Edited, Writing
  <2> QED BY <2>1 DEF CInv, PageHolds, RoundTrips
<1>3. ConfluenceTypeOK
  <2>1. \A i \in PageIds : page[i] # NoPage => page[i] \in Page /\ page[i].prop.of <= page[i].ver
    BY <1>1, IsPage DEF CInv, PageHolds
  <2>2. \A p \in Publishers :
          job[p] = NoJob \/
            /\ job[p].pc \in {"parent", "mkparent", "find", "search", "read",
                              "update", "create", "row", "prop", "restrict", "done",
                              "failed"}
            /\ job[p].doc \in Docs /\ job[p].text \in Texts
            /\ job[p].at \in PageIds \cup {None} /\ job[p].try \in Tries
            /\ job[p].looked \in BOOLEAN /\ job[p].again \in BOOLEAN
    BY <1>1 DEF CTypes, CJob, Asking, Working
  <2> QED BY <1>1, <2>1, <2>2 DEF ConfluenceTypeOK, CTypes
<1> QED BY <1>2, <1>3

\* A page that gets a document's text carried the document.
LEMMA OwnPageWritten ==
  ASSUME CInv, [ConfluenceNext]_cvars
  PROVE  WritesOwnPage
<1> SUFFICES ASSUME NEW i \in PageIds, page[i] # NoPage, page'[i] # NoPage,
                    page'[i].shown # page[i].shown, page'[i].shown.doc # None
             PROVE  Carries(i, page'[i].shown.doc)
  BY DEF WritesOwnPage
<1>1. CTypes
  BY DEF CInv
<1>2. CASE UNCHANGED page
  BY <1>2
<1>3. ASSUME NEW p \in Publishers, NEW n, Rewrites(p, n)
      PROVE  Carries(i, page'[i].shown.doc)
  <2>1. i = n.at /\ page'[i].shown = ShownBy(n)
    BY <1>3 DEF Rewrites, Rewritten, Changes
  <2>2. job[p].pc = "update" /\ n.at = job[p].at /\ n.doc = job[p].doc /\ JobHolds(job[p])
    BY <1>3 DEF Rewrites, Goes, CInv
  <2>3. page[i].prop.doc = n.doc
    BY <2>1, <2>2 DEF JobHolds, Working
  <2> QED BY <2>1, <2>3 DEF Carries, ShownBy
<1>4. ASSUME NEW p \in Publishers, NEW n, Creates(p, n)
      PROVE  FALSE
  <2>1. i = made + 1
    BY <1>4 DEF Creates, Changes
  <2>2. i <= made
    BY DEF CInv, PageHolds
  <2> QED BY <1>1, <2>1, <2>2 DEF CTypes
<1>5. ASSUME NEW p \in Publishers, NEW n, Marks(p, n) \/ Limits(p, n)
      PROVE  FALSE
  BY <1>5 DEF Marks, Limits, Changes
<1>6. ASSUME NEW p \in Publishers, NEW n, Moves(p, n)
      PROVE  Carries(i, page'[i].shown.doc)
  <2>1. CASE GivesUp(p, n) \/ Prepares(p, n) \/ Finds(p, n) \/ Versions(p, n) \/ AsksProperty(p, n)
    BY <1>2, <2>1 DEF GivesUp, Prepares, Finds, Versions, AsksProperty
  <2> QED BY <1>3, <1>4, <1>5, <1>6, <2>1 DEF Moves
<1>7. ASSUME NEW k \in PageIds, Reader(k)
      PROVE  FALSE
  BY <1>7 DEF Reader, Deleted, Rewritten, Changes
<1>8. CASE UNCHANGED cvars
  BY <1>2, <1>8 DEF cvars
<1> QED BY <1>2, <1>6, <1>7, <1>8, ConfluenceSteps DEF Starts, Ends

----------------------------------------------------------------------------
\* Markdown: types

MTask ==
  [pc : {"find", "heal", "choose", "write", "load", "save", "done", "failed"},
   doc : Docs, text : Texts, path : Paths \cup {Nowhere},
   idx : [Docs -> Paths \cup {Nowhere}]]

MTypes ==
  /\ file \in [Paths -> File \cup {NoFile}]
  /\ index \in [Docs -> Paths \cup {Nowhere}]
  /\ task \in [Publishers -> MTask \cup {NoTask}]

\* With its file known.
Placed == {"heal", "write", "load", "save"}

----------------------------------------------------------------------------
\* Markdown: what each step does to a publish and to its file

\* A publish goes on as n, with the document and text it has.
MGoes(p, n) ==
  /\ task[p] \in MTask /\ n \in MTask /\ task' = [task EXCEPT ![p] = n]
  /\ n.doc = task[p].doc /\ n.text = task[p].text

\* It keeps its file and the index it read.
Keeps(p, n) == MGoes(p, n) /\ n.path = task[p].path /\ n.idx = task[p].idx

Locates(p, n) ==
  /\ MGoes(p, n) /\ UNCHANGED <<file, index>> /\ task[p].pc = "find"
  /\ n.pc \in {"heal", "write"} /\ n.path \in Lookup(n.doc)
  /\ n.idx = [index EXCEPT ![n.doc] = n.path]

Misses(p, n) ==
  /\ Keeps(p, n) /\ UNCHANGED <<file, index>> /\ task[p].pc = "find"
  /\ n.pc = "choose" /\ Lookup(n.doc) = {}

Heals(p, n) ==
  /\ Keeps(p, n) /\ UNCHANGED file /\ index' \in {index, task[p].idx}
  /\ task[p].pc = "heal" /\ n.pc = "write"

Chooses(p, n) ==
  /\ MGoes(p, n) /\ UNCHANGED <<file, index>> /\ n.idx = task[p].idx
  /\ task[p].pc = "choose" /\ n.pc = "write" /\ n.path \in FreeName(n.doc)

Overwrites(p, n) ==
  /\ Keeps(p, n) /\ UNCHANGED index /\ task[p].pc = "write" /\ n.pc = "load"
  /\ file' = [file EXCEPT ![n.path] = [doc |-> n.doc, text |-> n.text]]

Loads(p, n) ==
  /\ MGoes(p, n) /\ UNCHANGED <<file, index>> /\ n.path = task[p].path
  /\ task[p].pc = "load" /\ n.pc = "save" /\ n.idx = [index EXCEPT ![n.doc] = n.path]

Saves(p, n) ==
  /\ Keeps(p, n) /\ UNCHANGED file /\ index' = task[p].idx
  /\ task[p].pc = "save" /\ n.pc = "done"

Abandons(p, n) ==
  /\ Keeps(p, n) /\ UNCHANGED <<file, index>>
  /\ task[p].pc \in {"write", "save"} /\ n.pc = "failed"

MMoves(p, n) ==
  \/ Locates(p, n) \/ Misses(p, n) \/ Heals(p, n) \/ Chooses(p, n)
  \/ Overwrites(p, n) \/ Loads(p, n) \/ Saves(p, n) \/ Abandons(p, n)

MStarts(p, n) ==
  /\ task[p] = NoTask /\ n \in MTask /\ n.pc = "find" /\ n.idx = index
  /\ task' = [task EXCEPT ![p] = n] /\ UNCHANGED <<file, index>>
  /\ Apart => \A q \in Publishers : task[q] # NoTask => task[q].doc # n.doc

MEnds(p) ==
  task[p] # NoTask /\ task' = [task EXCEPT ![p] = NoTask] /\ UNCHANGED <<file, index>>

\* A document's file is taken away, or moved to where there is none.
Displaced(f) ==
  /\ file[f].doc \in Docs /\ UNCHANGED <<index, task>>
  /\ \/ file' = [file EXCEPT ![f] = NoFile]
     \/ /\ ~Exists(<<file[f].doc, 0>>)
        /\ MovesApart => \A p \in Publishers : task[p] # NoTask => task[p].doc # file[f].doc
        /\ file' = [file EXCEPT ![f] = NoFile, ![<<file[f].doc, 0>>] = file[f]]

\* Where a publish is tells that there is one.
LEMMA IsTask ==
  ASSUME MTypes, NEW p \in Publishers, task[p].pc # "idle"
  PROVE  task[p] \in MTask
BY DEF MTypes, NoTask

\* A path is not the lack of one, and each is of one document's kind.
LEMMA PathsAre ==
  /\ Nowhere \notin Paths
  /\ \A d \in Docs, n \in Suffixes : <<Slug[d], n>> \in Paths
  /\ \A d \in Docs : <<d, 0>> \in Paths
BY DEF Paths, Nowhere, Slugs

\* What Find may return is a file, at a path.
LEMMA FoundIsPath ==
  ASSUME MTypes, NEW d \in Docs, NEW f \in Lookup(d)
  PROVE  f \in Paths /\ Exists(f) /\ (f = index[d] \/ Holds(f, d))
<1>1. index[d] \in Paths \cup {Nowhere}
  BY DEF MTypes
<1>2. CASE Exists(index[d])
  BY <1>1, <1>2 DEF Lookup, Exists
<1>3. CASE ~Exists(index[d])
  BY <1>3 DEF Lookup, Holds
<1> QED BY <1>2, <1>3

\* A publish that only goes to another step keeps the rest.
LEMMA MGotoKeeps ==
  ASSUME NEW p \in Publishers, task[p] \in MTask,
         NEW pc \in {"find", "heal", "choose", "write", "load", "save", "done", "failed"},
         MGoto(p, pc)
  PROVE  \E n : Keeps(p, n) /\ n.pc = pc
<1>1. PICK n : n = [task[p] EXCEPT !.pc = pc]
  OBVIOUS
<1>2. /\ n \in MTask /\ n.pc = pc /\ n.doc = task[p].doc /\ n.text = task[p].text
      /\ n.path = task[p].path /\ n.idx = task[p].idx
  BY <1>1 DEF MTask
<1>3. task' = [task EXCEPT ![p] = n]
  BY <1>1 DEF MGoto
<1> QED BY <1>2, <1>3 DEF Keeps, MGoes

\* Find moves a publish to the file it found, or to choosing one.
LEMMA FindFileMoves ==
  ASSUME MTypes, NEW p \in Publishers, FindFile(p)
  PROVE  \E n : MMoves(p, n)
<1> DEFINE d == task[p].doc
<1>1. task[p] \in MTask /\ task[p].pc = "find" /\ UNCHANGED <<file, index>> /\ d \in Docs
  BY IsTask DEF FindFile, MTask
<1>2. CASE Lookup(d) = {} /\ MGoto(p, "choose")
  <2>1. PICK n : Keeps(p, n) /\ n.pc = "choose"
    BY <1>1, <1>2, MGotoKeeps
  <2> QED BY <1>1, <1>2, <2>1 DEF MMoves, Misses, Keeps, MGoes
<1>3. ASSUME NEW f \in Lookup(d),
             task' = [task EXCEPT ![p].pc = IF f = index[d] THEN "write" ELSE "heal",
                                  ![p].path = f, ![p].idx = [index EXCEPT ![d] = f]]
      PROVE  \E n : MMoves(p, n)
  <2>1. f \in Paths
    BY <1>1, <1>3, FoundIsPath
  <2>2. PICK idx \in [Docs -> Paths \cup {Nowhere}] : idx = [index EXCEPT ![d] = f]
    BY <1>1, <2>1 DEF MTypes
  <2>3. PICK pc \in {"write", "heal"} : pc = IF f = index[d] THEN "write" ELSE "heal"
    OBVIOUS
  <2>4. \A e \in MTask : LET n == [e EXCEPT !.pc = pc, !.path = f, !.idx = idx]
                         IN  /\ n \in MTask /\ n.pc = pc /\ n.path = f /\ n.idx = idx
                             /\ n.doc = e.doc /\ n.text = e.text
    BY <2>1, <2>2, <2>3 DEF MTask
  <2>5. task' = [task EXCEPT ![p] = [task[p] EXCEPT !.pc = pc, !.path = f, !.idx = idx]]
    BY <1>3, <2>2, <2>3
  <2>6. PICK n : /\ n \in MTask /\ n.pc = pc /\ n.path = f /\ n.idx = idx
                 /\ n.doc = d /\ n.text = task[p].text /\ task' = [task EXCEPT ![p] = n]
    BY <1>1, <2>4, <2>5
  <2>7. MGoes(p, n)
    BY <1>1, <2>6 DEF MGoes
  <2>8. Locates(p, n)
    BY <1>1, <1>3, <2>2, <2>3, <2>6, <2>7 DEF Locates
  <2> QED BY <2>8 DEF MMoves
<1> QED BY <1>2, <1>3 DEF FindFile

\* A new name is one with no file.
LEMMA ChoosePathMoves ==
  ASSUME MTypes, NEW p \in Publishers, ChoosePath(p)
  PROVE  \E n : MMoves(p, n)
<1>1. task[p] \in MTask /\ task[p].pc = "choose" /\ UNCHANGED <<file, index>> /\ task[p].doc \in Docs
  BY IsTask DEF ChoosePath, MTask
<1>2. PICK f \in FreeName(task[p].doc) :
        task' = [task EXCEPT ![p] = [task[p] EXCEPT !.pc = "write", !.path = f]]
  BY DEF ChoosePath
<1>3. f \in Paths
  BY <1>1, <1>2, PathsAre DEF FreeName, Paths, Slugs
<1>4. \A e \in MTask : LET n == [e EXCEPT !.pc = "write", !.path = f]
                       IN  /\ n \in MTask /\ n.pc = "write" /\ n.path = f /\ n.idx = e.idx
                           /\ n.doc = e.doc /\ n.text = e.text
  BY <1>3 DEF MTask
<1>5. PICK n : /\ n \in MTask /\ n.pc = "write" /\ n.path = f /\ n.idx = task[p].idx
               /\ n.doc = task[p].doc /\ n.text = task[p].text /\ task' = [task EXCEPT ![p] = n]
  BY <1>1, <1>2, <1>4
<1> QED BY <1>1, <1>2, <1>5 DEF MMoves, Chooses, MGoes

\* Before the index is saved it is read again.
LEMMA LoadIndexMoves ==
  ASSUME MTypes, NEW p \in Publishers, LoadIndex(p)
  PROVE  \E n : MMoves(p, n)
<1>1. /\ task[p] \in MTask /\ task[p].pc = "load" /\ UNCHANGED <<file, index>>
      /\ task[p].doc \in Docs /\ task[p].path \in Paths \cup {Nowhere}
  BY IsTask DEF LoadIndex, MTask
<1>2. PICK idx \in [Docs -> Paths \cup {Nowhere}] : idx = [index EXCEPT ![task[p].doc] = task[p].path]
  BY <1>1 DEF MTypes
<1>3. task' = [task EXCEPT ![p] = [task[p] EXCEPT !.pc = "save", !.idx = idx]]
  BY <1>2 DEF LoadIndex
<1>4. \A e \in MTask : LET n == [e EXCEPT !.pc = "save", !.idx = idx]
                       IN  /\ n \in MTask /\ n.pc = "save" /\ n.path = e.path /\ n.idx = idx
                           /\ n.doc = e.doc /\ n.text = e.text
  BY <1>2 DEF MTask
<1>5. PICK n : /\ n \in MTask /\ n.pc = "save" /\ n.path = task[p].path /\ n.idx = idx
               /\ n.doc = task[p].doc /\ n.text = task[p].text /\ task' = [task EXCEPT ![p] = n]
  BY <1>1, <1>3, <1>4
<1> QED BY <1>1, <1>2, <1>5 DEF MMoves, Loads, MGoes

\* The steps that write, or fail to.
LEMMA WritesMove ==
  ASSUME MTypes, NEW p \in Publishers, HealIndex(p) \/ WriteFile(p) \/ SaveIndex(p)
  PROVE  \E n : MMoves(p, n)
<1>1. task[p] \in MTask /\ task[p].pc \in {"heal", "write", "save"}
  BY IsTask DEF HealIndex, WriteFile, SaveIndex
<1>2. CASE HealIndex(p)
  <2>1. PICK n : Keeps(p, n) /\ n.pc = "write"
    BY <1>1, <1>2, MGotoKeeps DEF HealIndex
  <2> QED BY <1>2, <2>1 DEF HealIndex, MMoves, Heals
<1>3. CASE SaveIndex(p)
  <2>1. CASE MGoto(p, "done") /\ index' = task[p].idx
    <3>1. PICK n : Keeps(p, n) /\ n.pc = "done"
      BY <1>1, <2>1, MGotoKeeps
    <3> QED BY <1>3, <2>1, <3>1 DEF SaveIndex, MMoves, Saves
  <2>2. CASE MGoto(p, "failed") /\ UNCHANGED index
    <3>1. PICK n : Keeps(p, n) /\ n.pc = "failed"
      BY <1>1, <2>2, MGotoKeeps
    <3> QED BY <1>3, <2>2, <3>1 DEF SaveIndex, MMoves, Abandons
  <2> QED BY <1>3, <2>1, <2>2 DEF SaveIndex
<1>4. CASE WriteFile(p)
  <2>1. CASE /\ MGoto(p, "load")
             /\ file' = [file EXCEPT ![task[p].path] = [doc |-> task[p].doc, text |-> task[p].text]]
    <3>1. PICK n : Keeps(p, n) /\ n.pc = "load"
      BY <1>1, <2>1, MGotoKeeps
    <3>2. file' = [file EXCEPT ![n.path] = [doc |-> n.doc, text |-> n.text]]
      BY <2>1, <3>1 DEF Keeps, MGoes
    <3> QED BY <1>4, <3>1, <3>2 DEF WriteFile, MMoves, Overwrites
  <2>2. CASE MGoto(p, "failed") /\ UNCHANGED file
    <3>1. PICK n : Keeps(p, n) /\ n.pc = "failed"
      BY <1>1, <2>2, MGotoKeeps
    <3> QED BY <1>4, <2>2, <3>1 DEF WriteFile, MMoves, Abandons
  <2> QED BY <1>4, <2>1, <2>2 DEF WriteFile
<1> QED BY <1>2, <1>3, <1>4

\* A publish starts with the index as it is.
LEMMA MStartStarts ==
  ASSUME MTypes, NEW p \in Publishers, MStart(p)
  PROVE  \E n : MStarts(p, n)
<1>1. PICK d \in Docs, t \in Texts :
        /\ Apart => \A q \in Publishers : task[q] # NoTask => task[q].doc # d
        /\ task' = [task EXCEPT ![p] = [pc |-> "find", doc |-> d, text |-> t,
                                         path |-> Nowhere, idx |-> index]]
  BY DEF MStart
<1>2. PICK n : n = [pc |-> "find", doc |-> d, text |-> t, path |-> Nowhere, idx |-> index]
  OBVIOUS
<1>3. n \in MTask /\ n.pc = "find" /\ n.idx = index /\ n.doc = d
  BY <1>2 DEF MTypes, MTask
<1> QED BY <1>1, <1>2, <1>3 DEF MStart, MStarts

\* A file that names a document names one of the documents.
LEMMA ReaderDisplaces ==
  ASSUME MTypes, NEW f \in Paths, ReaderMoves(f)
  PROVE  Displaced(f)
<1>1. file[f] \in File \cup {NoFile} /\ file[f].doc # None
  BY DEF MTypes, ReaderMoves
<1>2. file[f].doc \in Docs
  BY <1>1 DEF File, NoFile
<1> QED BY <1>2 DEF ReaderMoves, Displaced

\* Every step of Markdown is one of these.
LEMMA MarkdownSteps ==
  ASSUME MTypes, MarkdownNext
  PROVE  \/ \E p \in Publishers : (\E n : MStarts(p, n) \/ MMoves(p, n)) \/ MEnds(p)
         \/ \E f \in Paths : Displaced(f)
         \/ index' = [d \in Docs |-> Nowhere] /\ UNCHANGED <<file, task>>
<1>1. ASSUME NEW p \in Publishers, MStart(p) \/ MStep(p) \/ MKill(p)
      PROVE  (\E n : MStarts(p, n) \/ MMoves(p, n)) \/ MEnds(p)
  <2>1. CASE MAnswer(p) \/ MKill(p)
    BY <2>1 DEF MAnswer, MKill, MEnds, NoTask
  <2> QED BY <1>1, <2>1, MStartStarts, FindFileMoves, ChoosePathMoves, LoadIndexMoves,
             WritesMove DEF MStep
<1> QED BY <1>1, ReaderDisplaces DEF MarkdownNext, IndexRemoved

----------------------------------------------------------------------------
\* Markdown: the invariant of files, index and publishes

\* Every document has a file name of its own; the code does not see to it.
SlugsDiffer == \A d, e \in Docs : Slug[d] = Slug[e] => d = e

OwnPaths(d) == ({Slug[d]} \X Suffixes) \cup {<<d, 0>>}

\* A path where a document may be written: if there is a file, it is the document's.
Own(f, d) == f \in OwnPaths(d) /\ (Exists(f) => file[f].doc = d)

\* The index may have no path for a document.
IndexHolds(idx) == \A d \in Docs : idx[d] # Nowhere => Own(idx[d], d)

TaskHolds(j) ==
  j.pc # "idle" => IndexHolds(j.idx) /\ (j.pc \in Placed => Own(j.path, j.doc))

MInv ==
  /\ MTypes
  /\ \A f \in Paths, d \in Docs : file[f].doc = d => f \in OwnPaths(d)
  /\ IndexHolds(index)
  /\ \A p \in Publishers : TaskHolds(task[p])

\* What holds of the files outlasts a step.
FilesKept ==
  /\ \A f \in Paths, d \in Docs : file'[f].doc = d => f \in OwnPaths(d)
  /\ \A d \in Docs : \A f \in OwnPaths(d) : Own(f, d) => Own(f, d)'

\* A document's own paths are paths, and no other document's.
LEMMA OwnPathsApart ==
  ASSUME SlugsDiffer, NEW d \in Docs, NEW f \in OwnPaths(d)
  PROVE  f \in Paths /\ f # Nowhere /\ \A e \in Docs : f \in OwnPaths(e) => e = d
<1>1. f \in Paths /\ f # Nowhere
  BY PathsAre DEF OwnPaths
<1>2. ASSUME NEW e \in Docs, f \in OwnPaths(e) PROVE e = d
  BY <1>2 DEF OwnPaths, SlugsDiffer, Suffixes
<1> QED BY <1>1, <1>2

\* Where no file changes, a path stays a document's own.
LEMMA NoFileChanged ==
  ASSUME MInv, UNCHANGED file
  PROVE  FilesKept
BY DEF MInv, FilesKept, Own, Exists

\* What is known of an index or a publish outlasts a step with the files.
LEMMA KnownIsKept ==
  ASSUME SlugsDiffer, FilesKept
  PROVE  /\ \A idx \in [Docs -> Paths \cup {Nowhere}] : IndexHolds(idx) => IndexHolds(idx)'
         /\ \A j \in MTask \cup {NoTask} : TaskHolds(j) => TaskHolds(j)'
<1>1. ASSUME NEW idx \in [Docs -> Paths \cup {Nowhere}], IndexHolds(idx) PROVE IndexHolds(idx)'
  <2> SUFFICES ASSUME NEW d \in Docs, idx[d] # Nowhere PROVE Own(idx[d], d)'
    BY DEF IndexHolds
  <2>1. Own(idx[d], d) /\ idx[d] \in OwnPaths(d)
    BY <1>1 DEF IndexHolds, Own
  <2> QED BY <2>1 DEF FilesKept
<1>2. ASSUME NEW j \in MTask \cup {NoTask}, TaskHolds(j) PROVE TaskHolds(j)'
  <2> SUFFICES ASSUME j.pc # "idle" PROVE TaskHolds(j)'
    BY DEF TaskHolds
  <2>1. j \in MTask
    BY DEF NoTask
  <2>2. j.idx \in [Docs -> Paths \cup {Nowhere}] /\ j.doc \in Docs
    BY <2>1 DEF MTask
  <2>3. IndexHolds(j.idx)'
    BY <1>1, <1>2, <2>2 DEF TaskHolds
  <2>4. j.pc \in Placed => Own(j.path, j.doc)'
    BY <1>2, <2>2 DEF TaskHolds, Own, FilesKept
  <2> QED BY <2>3, <2>4 DEF TaskHolds
<1> QED BY <1>1, <1>2

\* A document's file is written over with the document's text, or made.
LEMMA OverwrittenKept ==
  ASSUME SlugsDiffer, MInv, NEW p \in Publishers, NEW n, Overwrites(p, n)
  PROVE  /\ FilesKept /\ file' \in [Paths -> File \cup {NoFile}]
         /\ Own(n.path, n.doc) /\ n.path \in Paths /\ n.doc \in Docs
         /\ file'[n.path] = [doc |-> n.doc, text |-> n.text]
         /\ \A f \in Paths : f # n.path => file'[f] = file[f]
<1>1. /\ n \in MTask /\ n.path = task[p].path /\ n.doc = task[p].doc /\ task[p].pc = "write"
      /\ file' = [file EXCEPT ![n.path] = [doc |-> n.doc, text |-> n.text]]
  BY DEF Overwrites, Keeps, MGoes
<1>2. Own(n.path, n.doc) /\ n.doc \in Docs /\ n.text \in Texts
  <2>1. TaskHolds(task[p]) BY DEF MInv
  <2> QED BY <1>1, <2>1 DEF TaskHolds, Placed, MTask
<1>3. n.path \in Paths /\ n.path # Nowhere /\ \A e \in Docs : n.path \in OwnPaths(e) => e = n.doc
  BY <1>2, OwnPathsApart DEF Own
<1>4. PICK w : w = [doc |-> n.doc, text |-> n.text]
  OBVIOUS
<1>5. w \in File /\ w.doc = n.doc
  BY <1>2, <1>4 DEF File
<1>6. file \in [Paths -> File \cup {NoFile}] /\ file' = [file EXCEPT ![n.path] = w]
  BY <1>1, <1>4 DEF MInv, MTypes
<1>7. /\ file' \in [Paths -> File \cup {NoFile}] /\ file'[n.path] = w
      /\ \A f \in Paths : f # n.path => file'[f] = file[f]
  BY <1>3, <1>5, <1>6
<1>8. ASSUME NEW f \in Paths, NEW d \in Docs, file'[f].doc = d PROVE f \in OwnPaths(d)
  <2>1. CASE f = n.path BY <1>2, <1>5, <1>7, <1>8, <2>1 DEF Own
  <2>2. CASE f # n.path BY <1>7, <1>8, <2>2 DEF MInv
  <2> QED BY <2>1, <2>2
<1>9. ASSUME NEW d \in Docs, NEW f \in OwnPaths(d), Own(f, d) PROVE Own(f, d)'
  <2>1. f \in Paths BY <1>9, OwnPathsApart
  <2>2. CASE f = n.path
    <3>1. d = n.doc BY <1>3, <1>9, <2>2
    <3> QED BY <1>5, <1>7, <1>9, <2>2, <3>1 DEF Own
  <2>3. CASE f # n.path BY <1>7, <1>9, <2>1, <2>3 DEF Own, Exists
  <2> QED BY <2>2, <2>3
<1> QED BY <1>2, <1>3, <1>4, <1>7, <1>8, <1>9 DEF FilesKept

\* Edited take a document's file away, or to where it still is the document's.
LEMMA DisplacedKept ==
  ASSUME SlugsDiffer, MInv, NEW f \in Paths, Displaced(f)
  PROVE  /\ FilesKept /\ file' \in [Paths -> File \cup {NoFile}]
         /\ file[f].doc \in Docs /\ file'[f] = NoFile
         /\ \/ \A g \in Paths : g # f => file'[g] = file[g]
            \/ /\ MovesApart => \A p \in Publishers : task[p] # NoTask => task[p].doc # file[f].doc
               /\ \E m \in Paths : /\ m # f /\ ~Exists(m) /\ file'[m] = file[f]
                                   /\ \A g \in Paths : g # f /\ g # m => file'[g] = file[g]
<1>1. PICK d \in Docs : file[f].doc = d
  BY DEF Displaced
<1>2. PICK m \in Paths : m = <<d, 0>> /\ m \in OwnPaths(d)
  BY PathsAre DEF OwnPaths
<1>3. PICK w \in File \cup {NoFile} : w = file[f]
  BY DEF MInv, MTypes
<1>4. file \in [Paths -> File \cup {NoFile}] /\ NoFile.doc = None /\ None \notin Docs
  BY ProviderAssumption DEF MInv, MTypes, NoFile
<1>5. CASE file' = [file EXCEPT ![f] = NoFile]
  <2>1. file' \in [Paths -> File \cup {NoFile}] /\ file'[f] = NoFile
        /\ \A g \in Paths : g # f => file'[g] = file[g]
    BY <1>4, <1>5
  <2>2. \A g \in Paths, e \in Docs : file'[g].doc = e => g \in OwnPaths(e)
    BY <1>4, <2>1 DEF MInv
  <2>3. ASSUME NEW e \in Docs, NEW g \in OwnPaths(e), Own(g, e) PROVE Own(g, e)'
    <3>1. g \in Paths BY <2>3, OwnPathsApart
    <3> QED BY <2>1, <2>3, <3>1 DEF Own, Exists
  <2> QED BY <1>1, <2>1, <2>2, <2>3 DEF FilesKept
<1>6. CASE /\ ~Exists(m) /\ file' = [file EXCEPT ![f] = NoFile, ![m] = w]
           /\ MovesApart => \A p \in Publishers : task[p] # NoTask => task[p].doc # file[f].doc
  <2>1. m # f
    <3>1. file[f] # NoFile BY <1>1, <1>4
    <3> QED BY <1>6, <3>1, PathsAre DEF Exists
  <2>2. file' \in [Paths -> File \cup {NoFile}] /\ file'[f] = NoFile /\ file'[m] = w
        /\ \A g \in Paths : g # f /\ g # m => file'[g] = file[g]
    BY <1>4, <1>6, <2>1
  <2>3. ASSUME NEW g \in Paths, NEW e \in Docs, file'[g].doc = e PROVE g \in OwnPaths(e)
    <3>1. CASE g = f BY <1>4, <2>2, <2>3, <3>1
    <3>2. CASE g = m BY <1>1, <1>2, <1>3, <2>2, <2>3, <3>2
    <3>3. CASE g # f /\ g # m BY <2>2, <2>3, <3>3 DEF MInv
    <3> QED BY <3>1, <3>2, <3>3
  <2>4. ASSUME NEW e \in Docs, NEW g \in OwnPaths(e), Own(g, e) PROVE Own(g, e)'
    <3>1. g \in Paths /\ (g \in OwnPaths(d) => d = e) BY <2>4, OwnPathsApart
    <3>2. CASE g = m BY <1>1, <1>2, <1>3, <2>2, <2>4, <3>1, <3>2 DEF Own
    <3>3. CASE g # m BY <2>2, <2>4, <3>1, <3>3 DEF Own, Exists
    <3> QED BY <3>2, <3>3
  <2> QED BY <1>1, <1>3, <1>6, <2>1, <2>2, <2>3, <2>4 DEF FilesKept
<1> QED BY <1>1, <1>2, <1>3, <1>5, <1>6 DEF Displaced

\* What a publish that moved has to hold for the rest to hold.
LEMMA TasksHold ==
  ASSUME SlugsDiffer, MInv, FilesKept, file' \in [Paths -> File \cup {NoFile}],
         index' \in [Docs -> Paths \cup {Nowhere}], IndexHolds(index)',
         NEW p \in Publishers, NEW n \in MTask \cup {NoTask}, task' = [task EXCEPT ![p] = n],
         TaskHolds(n)'
  PROVE  MInv'
<1>1. task \in [Publishers -> MTask \cup {NoTask}]
  BY DEF MInv, MTypes
<1>2. MTypes'
  BY <1>1 DEF MTypes
<1>3. ASSUME NEW q \in Publishers PROVE TaskHolds(task[q])'
  <2>1. CASE q = p BY <1>1, <2>1 DEF TaskHolds, IndexHolds, Own, Exists
  <2>2. CASE q # p
    <3>1. PICK j \in MTask \cup {NoTask} : j = task[q] /\ j = task'[q] BY <1>1, <2>2
    <3>2. TaskHolds(j)' BY <3>1, KnownIsKept DEF MInv
    <3> QED BY <3>1, <3>2 DEF TaskHolds, IndexHolds, Own, Exists
  <2> QED BY <2>1, <2>2
<1> QED BY <1>2, <1>3 DEF MInv, FilesKept

\* The invariant is inductive.
LEMMA MarkdownMoveHolds ==
  ASSUME SlugsDiffer, MInv, NEW p \in Publishers, NEW n, MMoves(p, n)
  PROVE  MInv'
<1>1. /\ MTypes /\ task[p] \in MTask /\ n \in MTask /\ task' = [task EXCEPT ![p] = n]
      /\ n.doc = task[p].doc /\ n.doc \in Docs /\ n.path \in Paths \cup {Nowhere}
  BY DEF MInv, MMoves, Locates, Misses, Heals, Chooses, Overwrites, Loads, Saves, Abandons,
         Keeps, MGoes, MTask
<1>2. IndexHolds(task[p].idx) /\ (task[p].pc \in Placed => Own(task[p].path, n.doc))
  <2>1. task[p].pc # "idle" BY <1>1 DEF MTask
  <2> QED BY <1>1, <2>1 DEF MInv, TaskHolds
<1>3. CASE Overwrites(p, n)
  <2>1. FilesKept /\ file' \in [Paths -> File \cup {NoFile}]
    BY <1>3, OverwrittenKept
  <2>2. TaskHolds(n)
    BY <1>2, <1>3 DEF TaskHolds, Overwrites, Keeps, Placed
  <2>3. TaskHolds(n)' /\ IndexHolds(index)'
    <3>1. index \in [Docs -> Paths \cup {Nowhere}] /\ IndexHolds(index) /\ index' = index
      BY <1>3 DEF MInv, MTypes, Overwrites
    <3>2. PICK idx \in [Docs -> Paths \cup {Nowhere}] : idx = index
      BY <3>1
    <3>3. IndexHolds(idx)'
      BY <2>1, <3>1, <3>2, KnownIsKept
    <3>4. TaskHolds(n)'
      BY <1>1, <2>1, <2>2, KnownIsKept
    <3> QED BY <3>1, <3>2, <3>3, <3>4 DEF IndexHolds
  <2> QED BY <1>1, <1>3, <2>1, <2>3, TasksHold DEF Overwrites, MInv, MTypes
<1>4. ASSUME UNCHANGED file, TaskHolds(n), index' \in {index, task[p].idx} PROVE MInv'
  <2>1. FilesKept /\ file' \in [Paths -> File \cup {NoFile}]
    BY <1>1, <1>4, NoFileChanged DEF MTypes
  <2>2. index' \in [Docs -> Paths \cup {Nowhere}]
    BY <1>1, <1>4 DEF MTypes, MTask
  <2>3. PICK idx \in [Docs -> Paths \cup {Nowhere}] : idx = index'
    BY <2>2
  <2>4. IndexHolds(idx)
    BY <1>2, <1>4, <2>3 DEF MInv
  <2>5. IndexHolds(idx)' /\ TaskHolds(n)'
    BY <1>1, <1>4, <2>1, <2>4, KnownIsKept
  <2>6. IndexHolds(index)'
    BY <2>3, <2>5 DEF IndexHolds
  <2> QED BY <1>1, <2>1, <2>2, <2>5, <2>6, TasksHold
<1>5. ASSUME n.path \in Paths, Own(n.path, n.doc), n.idx = [index EXCEPT ![n.doc] = n.path]
      PROVE  IndexHolds(n.idx)
  BY <1>1, <1>5 DEF IndexHolds, MInv, MTypes
<1>6. CASE Locates(p, n)
  <2>1. n.path \in Paths /\ (n.path = index[n.doc] \/ Holds(n.path, n.doc))
    BY <1>1, <1>6, FoundIsPath DEF Locates
  <2>2. Own(n.path, n.doc)
    BY <1>1, <2>1, PathsAre DEF MInv, IndexHolds, Own, Holds
  <2>3. TaskHolds(n)
    BY <1>5, <1>6, <2>1, <2>2 DEF Locates, TaskHolds
  <2> QED BY <1>4, <1>6, <2>3 DEF Locates
<1>7. CASE Misses(p, n) \/ Heals(p, n) \/ Saves(p, n) \/ Abandons(p, n)
  <2>1. TaskHolds(n)
    BY <1>2, <1>7 DEF Misses, Heals, Saves, Abandons, Keeps, TaskHolds, Placed
  <2> QED BY <1>4, <1>7, <2>1 DEF Misses, Heals, Saves, Abandons
<1>8. CASE Chooses(p, n)
  <2>1. Own(n.path, n.doc)
    BY <1>1, <1>8 DEF Chooses, FreeName, Own, OwnPaths
  <2>2. TaskHolds(n)
    BY <1>2, <1>8, <2>1 DEF Chooses, TaskHolds
  <2> QED BY <1>4, <1>8, <2>2 DEF Chooses
<1>9. CASE Loads(p, n)
  <2>1. Own(n.path, n.doc)
    BY <1>2, <1>9 DEF Loads, Placed
  <2>2. n.path \in Paths
    BY <1>1, <2>1, OwnPathsApart DEF Own
  <2>3. TaskHolds(n)
    BY <1>5, <1>9, <2>1, <2>2 DEF Loads, TaskHolds
  <2> QED BY <1>4, <1>9, <2>3 DEF Loads
<1> QED BY <1>3, <1>6, <1>7, <1>8, <1>9 DEF MMoves

\* So do the steps that start or end a publish, and the readers'.
LEMMA MarkdownHolds ==
  ASSUME SlugsDiffer, MInv, [MarkdownNext]_mvars
  PROVE  MInv'
<1>1. MTypes
  BY DEF MInv
<1>2. ASSUME FilesKept, file' \in [Paths -> File \cup {NoFile}], UNCHANGED task,
             index' = index \/ index' = [d \in Docs |-> Nowhere]
      PROVE  MInv'
  <2>1. MTypes'
    BY <1>1, <1>2 DEF MTypes
  <2>2. PICK idx \in [Docs -> Paths \cup {Nowhere}] : idx = index'
    BY <2>1 DEF MTypes
  <2>3. IndexHolds(idx)
    BY <1>2, <2>2 DEF MInv, IndexHolds
  <2>4. IndexHolds(idx)'
    BY <1>2, <2>3, KnownIsKept
  <2>5. ASSUME NEW q \in Publishers PROVE TaskHolds(task[q])'
    <3>1. PICK j \in MTask \cup {NoTask} : j = task[q] /\ j = task'[q] BY <1>1, <1>2 DEF MTypes
    <3>2. TaskHolds(j)' BY <1>2, <3>1, KnownIsKept DEF MInv
    <3> QED BY <3>1, <3>2 DEF TaskHolds, IndexHolds, Own, Exists
  <2> QED BY <1>2, <2>1, <2>2, <2>4, <2>5 DEF MInv, FilesKept, IndexHolds
<1>3. ASSUME NEW p \in Publishers, NEW n \in MTask \cup {NoTask}, task' = [task EXCEPT ![p] = n],
             TaskHolds(n), UNCHANGED <<file, index>>
      PROVE  MInv'
  <2>1. FilesKept /\ file' \in [Paths -> File \cup {NoFile}]
    BY <1>1, <1>3, NoFileChanged DEF MTypes
  <2>2. IndexHolds(index)' /\ index' \in [Docs -> Paths \cup {Nowhere}]
    BY <1>1, <1>3 DEF MInv, MTypes, IndexHolds, Own, Exists
  <2>3. TaskHolds(n)'
    BY <1>3, <2>1, KnownIsKept
  <2> QED BY <1>3, <2>1, <2>2, <2>3, TasksHold
<1>4. ASSUME NEW p \in Publishers, NEW n, MStarts(p, n) PROVE MInv'
  <2>1. TaskHolds(n)
    BY <1>4 DEF MStarts, TaskHolds, Placed, MInv
  <2> QED BY <1>3, <1>4, <2>1 DEF MStarts
<1>5. ASSUME NEW p \in Publishers, MEnds(p) PROVE MInv'
  BY <1>3, <1>5 DEF MEnds, TaskHolds, NoTask
<1>6. ASSUME NEW f \in Paths, Displaced(f) PROVE MInv'
  BY <1>2, <1>6, DisplacedKept DEF Displaced
<1>7. CASE UNCHANGED <<file, task>> /\ (index' = index \/ index' = [d \in Docs |-> Nowhere])
  BY <1>1, <1>2, <1>7, NoFileChanged DEF MTypes
<1>8. CASE UNCHANGED mvars
  BY <1>7, <1>8 DEF mvars
<1> QED BY <1>1, <1>4, <1>5, <1>6, <1>7, <1>8, MarkdownMoveHolds, MarkdownSteps

\* The types need no titles to differ.
MTyped == MTypes /\ \A p \in Publishers : task[p].pc \in Placed => task[p].path \in Paths

LEMMA MarkdownTyped ==
  ASSUME MTyped, [MarkdownNext]_mvars
  PROVE  MTyped'
<1>1. MTypes
  BY DEF MTyped
<1>2. ASSUME NEW p \in Publishers, NEW n \in MTask \cup {NoTask}, task' = [task EXCEPT ![p] = n],
             n.pc \in Placed => n.path \in Paths, file' \in [Paths -> File \cup {NoFile}],
             index' \in [Docs -> Paths \cup {Nowhere}]
      PROVE  MTyped'
  BY <1>1, <1>2 DEF MTyped, MTypes
<1>3. ASSUME NEW p \in Publishers, NEW n, MMoves(p, n) PROVE MTyped'
  <2>1. /\ task[p] \in MTask /\ n \in MTask /\ task' = [task EXCEPT ![p] = n]
        /\ n.doc \in Docs /\ n.text \in Texts /\ task[p].idx \in [Docs -> Paths \cup {Nowhere}]
    BY <1>3 DEF MMoves, Locates, Misses, Heals, Chooses, Overwrites, Loads, Saves, Abandons,
                Keeps, MGoes, MTask
  <2>2. n.pc \in Placed => n.path \in Paths
    <3>1. CASE Locates(p, n) BY <1>1, <2>1, <3>1, FoundIsPath DEF Locates
    <3>2. CASE Chooses(p, n) BY <2>1, <3>2, PathsAre DEF Chooses, FreeName
    <3>3. CASE Heals(p, n) \/ Overwrites(p, n) \/ Loads(p, n)
      BY <2>1, <3>3 DEF Heals, Overwrites, Loads, Keeps, MTyped, Placed
    <3> QED BY <1>3, <3>1, <3>2, <3>3 DEF MMoves, Misses, Saves, Abandons, Placed
  <2>3. index' \in [Docs -> Paths \cup {Nowhere}]
    BY <1>1, <1>3, <2>1 DEF MMoves, Locates, Misses, Heals, Chooses, Overwrites, Loads, Saves,
                Abandons, MTypes
  <2>4. file' \in [Paths -> File \cup {NoFile}]
    <3>1. CASE UNCHANGED file BY <1>1, <3>1 DEF MTypes
    <3>2. CASE Overwrites(p, n)
      <4>1. PICK w \in File : w = [doc |-> n.doc, text |-> n.text] BY <2>1 DEF File
      <4>2. file' = [file EXCEPT ![n.path] = w] BY <3>2, <4>1 DEF Overwrites
      <4> QED BY <1>1, <4>1, <4>2 DEF MTypes
    <3> QED BY <1>3, <3>1, <3>2 DEF MMoves, Locates, Misses, Heals, Chooses, Loads, Saves, Abandons
  <2> QED BY <1>2, <2>1, <2>2, <2>3, <2>4
<1>4. ASSUME NEW f \in Paths, Displaced(f) PROVE MTyped'
  <2>1. PICK w \in File \cup {NoFile} : w = file[f] BY <1>1 DEF MTypes
  <2>2. file' = [file EXCEPT ![f] = NoFile] \/ file' = [file EXCEPT ![f] = NoFile, ![<<file[f].doc, 0>>] = w]
    BY <1>4, <2>1 DEF Displaced
  <2>3. file' \in [Paths -> File \cup {NoFile}]
    BY <1>1, <2>1, <2>2 DEF MTypes
  <2> QED BY <1>1, <1>4, <2>3 DEF Displaced, MTyped, MTypes
<1>5. ASSUME NEW p \in Publishers, NEW n, MStarts(p, n) PROVE MTyped'
  BY <1>1, <1>2, <1>5 DEF MStarts, MTypes, Placed
<1>6. ASSUME NEW p \in Publishers, MEnds(p) PROVE MTyped'
  BY <1>1, <1>2, <1>6 DEF MEnds, MTypes, Placed, NoTask
<1>7. CASE UNCHANGED <<file, task>> /\ (index' = index \/ index' = [d \in Docs |-> Nowhere])
  BY <1>1, <1>7 DEF MTyped, MTypes
<1>8. CASE UNCHANGED mvars
  BY <1>7, <1>8 DEF mvars
<1> QED BY <1>1, <1>3, <1>4, <1>5, <1>6, <1>7, <1>8, MarkdownSteps

\* What they are in the model's terms.
LEMMA MarkdownTypesOK ==
  ASSUME MTyped
  PROVE  MarkdownTypeOK
<1>1. ASSUME NEW p \in Publishers, task[p] # NoTask
      PROVE  /\ task[p] \in MTask
             /\ task[p].pc \in {"heal", "write", "load", "save"} => task[p].path # Nowhere
  BY <1>1, PathsAre DEF MTyped, MTypes, Placed
<1> QED BY <1>1 DEF MTyped, MarkdownTypeOK, MTypes, MTask

\* At the start there may be a reader's file.
LEMMA MarkdownStart ==
  ASSUME MarkdownInit
  PROVE  MInv /\ MTyped
<1>1. PICK own : file = [f \in Paths |-> IF f \in own THEN ReadersFile ELSE NoFile]
  BY DEF MarkdownInit
<1>2. ReadersFile \in File /\ ReadersFile.doc = None /\ NoFile.doc = None
  BY DEF ReadersFile, File, NoFile
<1>3. MTypes
  BY <1>1, <1>2 DEF MarkdownInit, MTypes
<1>4. \A f \in Paths : file[f].doc = None
  BY <1>1, <1>2
<1>5. \A p \in Publishers : task[p].pc = "idle"
  BY DEF MarkdownInit, NoTask
<1>6. IndexHolds(index)
  BY DEF MarkdownInit, IndexHolds
<1> QED BY <1>3, <1>4, <1>5, <1>6, ProviderAssumption DEF MInv, MTyped, TaskHolds, Placed

\* The file a publish writes is its document's, or was not there.
LEMMA OwnFileWritten ==
  ASSUME SlugsDiffer, MInv, [MarkdownNext]_mvars
  PROVE  WritesOwnFile
<1> SUFFICES ASSUME NEW f \in Paths, Exists(f), file'[f] # NoFile
             PROVE  file'[f].doc = file[f].doc
  BY DEF WritesOwnFile
<1>1. MTypes
  BY DEF MInv
<1>2. CASE UNCHANGED file
  BY <1>2
<1>3. ASSUME NEW p \in Publishers, NEW n, Overwrites(p, n) PROVE file'[f].doc = file[f].doc
  <2>1. /\ Own(n.path, n.doc) /\ file'[n.path] = [doc |-> n.doc, text |-> n.text]
        /\ \A g \in Paths : g # n.path => file'[g] = file[g]
    BY <1>3, OverwrittenKept
  <2>2. CASE f = n.path
    <3>1. file[f].doc = n.doc BY <2>1, <2>2 DEF Own
    <3> QED BY <2>1, <2>2, <3>1
  <2>3. CASE f # n.path BY <2>1, <2>3
  <2> QED BY <2>2, <2>3
<1>4. ASSUME NEW g \in Paths, Displaced(g) PROVE file'[f].doc = file[f].doc
  BY <1>4, DisplacedKept
<1>5. ASSUME NEW p \in Publishers, NEW n, MMoves(p, n) PROVE file'[f].doc = file[f].doc
  BY <1>2, <1>3, <1>5 DEF MMoves, Locates, Misses, Heals, Chooses, Loads, Saves, Abandons
<1>6. CASE UNCHANGED mvars
  BY <1>2, <1>6 DEF mvars
<1> QED BY <1>1, <1>2, <1>4, <1>5, <1>6, MarkdownSteps DEF MStarts, MEnds

----------------------------------------------------------------------------
\* Both providers, of which one is used

\* A step of Pages is one of either provider, for which the other's stay.
LEMMA PagesStep ==
  ASSUME [Next]_vars
  PROVE  [ConfluenceNext]_cvars /\ [MarkdownNext]_mvars /\ UNCHANGED provider
BY DEF Next, vars

\* At the start nobody publishes.
LEMMA RoundAtStart ==
  ASSUME Init
  PROVE  CInv /\ CShows
<1>1. CInv /\ \A p \in Publishers : job[p] = NoJob
  BY ConfluenceStart DEF Init, ConfluenceInit
<1> QED BY <1>1, NoJobIsIdle DEF CShows, CAlone, JobShows, Writing

\* Every variable has its type: for any titles, however publishes of one document
\* overlap, and whatever fails.
THEOREM PagesTyped == Spec => []PagesTypeOK
<1>1. Init => CInv /\ MTyped
  BY ConfluenceStart, MarkdownStart DEF Init
<1>2. CInv /\ MTyped /\ [Next]_vars => (CInv /\ MTyped)'
  BY PagesStep, ConfluenceHolds, MarkdownTyped
<1>3. CInv /\ MTyped => PagesTypeOK
  BY ConfluenceSafe, MarkdownTypesOK DEF PagesTypeOK
<1> QED BY <1>1, <1>2, <1>3, PTL DEF Spec

\* Once a publish has marked its page, Get returns its text and the page shows it, or
\* what a reader made of it since, if publishes of a document come one at a time; and
\* without that, a page whose property is of its version shows what Get returns. They
\* are written by two requests, with other publishes and readers in between.
THEOREM PagesRoundTrip == Spec => []RoundTrips
<1> DEFINE RoundInv == CInv /\ (Apart => CShows)
<1>1. Init => RoundInv
  BY RoundAtStart
<1>2. RoundInv /\ [Next]_vars => RoundInv'
  BY PagesStep, ConfluenceHolds, ConfluenceShows
<1>3. RoundInv => RoundTrips
  BY ConfluenceSafe
<1> HIDE DEF RoundInv
<1> QED BY <1>1, <1>2, <1>3, PTL DEF Spec

\* No page is written but the one that carries the document: whatever title or
\* text documents and readers' pages share, however publishes of one document
\* overlap, and whatever fails. On that page a reader's edit is written over.
THEOREM OwnPagesWritten == Spec => OnlyOwnPages
<1>1. Init => CInv
  BY ConfluenceStart DEF Init
<1>2. CInv /\ [Next]_vars => CInv'
  BY PagesStep, ConfluenceHolds
<1>3. CInv /\ [Next]_vars => [WritesOwnPage]_page
  BY PagesStep, OwnPageWritten
<1> QED BY <1>1, <1>2, <1>3, PTL DEF Spec, OnlyOwnPages

\* No file of a reader's, or of another document, is written over, if no two
\* documents have the name of one file: a title that two documents share in one
\* directory is enough for a stale index, or two processes at once, to do it.
THEOREM OwnFilesWritten ==
  ASSUME SlugsDiffer
  PROVE  Spec => OnlyOwnFiles
<1>1. Init => MInv
  BY MarkdownStart DEF Init
<1>2. MInv /\ [Next]_vars => MInv'
  BY SlugsDiffer, PagesStep, MarkdownHolds
<1>3. MInv /\ [Next]_vars => [WritesOwnFile]_file
  BY SlugsDiffer, PagesStep, OwnFileWritten
<1> QED BY <1>1, <1>2, <1>3, PTL DEF Spec, OnlyOwnFiles

----------------------------------------------------------------------------
\* One page per document: publishes of a document apart

\* A job that found no page knows that there is none, and one that writes its page
\* that there is no other; while it restricts the page, Get returns its text.
JobAlone(j) ==
  /\ NoneCarries(j) => \A i \in PageIds : ~Carries(i, j.doc)
  /\ j.pc \in {"row", "prop", "restrict"} => \A i \in PageIds : Carries(i, j.doc) => i = j.at
  /\ j.pc = "restrict" /\ page[j.at] # NoPage =>
       page[j.at].prop.doc = j.doc /\ page[j.at].prop.text = j.text

OneCarries ==
  \A d \in Docs : \A i, k \in PageIds : Carries(i, d) /\ Carries(k, d) => i = k

COne == CInv /\ CAlone /\ OneCarries /\ \A p \in Publishers : JobAlone(job[p])

MAlone ==
  \A p, q \in Publishers :
    p # q /\ task[p].pc # "idle" /\ task[q].pc # "idle" => task[p].doc # task[q].doc

\* A publish that found no file knows that there is none, and one that has a path
\* that there is no file elsewhere; once written it stays until the answer.
TaskAlone(j) ==
  /\ j.pc = "choose" => \A f \in Paths : file[f].doc # j.doc
  /\ j.pc \in Placed => \A f \in Paths : file[f].doc = j.doc => f = j.path

OneHolds ==
  \A d \in Docs : \A f, g \in Paths : file[f].doc = d /\ file[g].doc = d => f = g

MOne == MInv /\ MAlone /\ OneHolds /\ \A p \in Publishers : TaskAlone(task[p])

----------------------------------------------------------------------------
\* One page per document: Confluence

\* The pages of every document but d carry what they did.
OthersPages(d) ==
  \A e \in Docs \ {d}, i \in PageIds :
    /\ Carries(i, e)' <=> Carries(i, e)
    /\ Carries(i, e) => page'[i].prop = page[i].prop /\ page'[i].limited = page[i].limited

\* A step of a job touches its own document's pages only, and brings none back.
LEMMA MovesOwnPages ==
  ASSUME CInv, NEW p \in Publishers, NEW n, Moves(p, n)
  PROVE  /\ OthersPages(n.doc)
         /\ \A i \in 1..made : page'[i] # NoPage => page[i] # NoPage
         /\ ~Marks(p, n) => \A i \in PageIds : \A e \in Docs :
              (Carries(i, e)' <=> Carries(i, e)) /\ (Carries(i, e) => page'[i].prop = page[i].prop)
<1>1. /\ CTypes /\ n \in CJob /\ n.doc # None /\ n.doc = job[p].doc
      /\ JobHolds(job[p]) /\ None \notin Docs
  BY JobNumbers, ProviderAssumption DEF CInv, Moves, GivesUp, Prepares, Finds, Versions, Rewrites, Creates,
     AsksProperty, Marks, Limits, Goes
<1>2. CASE UNCHANGED <<page, made>>
  BY <1>2 DEF OthersPages, Carries
<1>3. ASSUME NEW k \in PageIds, Changes(k), page[k] # NoPage, page'[k] # NoPage,
             page'[k].prop = page[k].prop, ~Limits(p, n) => page'[k].limited = page[k].limited,
             Limits(p, n) => page[k].prop.doc = n.doc
      PROVE  /\ OthersPages(n.doc)
             /\ \A i \in 1..made : page'[i] # NoPage => page[i] # NoPage
             /\ \A i \in PageIds : \A e \in Docs :
                  (Carries(i, e)' <=> Carries(i, e)) /\ (Carries(i, e) => page'[i].prop = page[i].prop)
  <2>1. \A i \in PageIds : i # k => page'[i] = page[i]
    BY <1>3 DEF Changes
  <2>2. \A i \in PageIds : /\ page'[i] # NoPage <=> page[i] # NoPage
                           /\ page[i] # NoPage => page'[i].prop = page[i].prop
    BY <1>3, <2>1
  <2>3. \A i \in PageIds : page[i] # NoPage /\ page[i].prop.doc # n.doc => page'[i].limited = page[i].limited
    BY <1>3, <2>1
  <2>4. \A i \in 1..made : page'[i] # NoPage => page[i] # NoPage
    BY <1>1, <2>2, MadeIsPage
  <2> QED BY <2>2, <2>3, <2>4 DEF OthersPages, Carries
<1>4. CASE Rewrites(p, n)
  <2>1. n.at \in PageIds
    BY <1>1, <1>4, MadeIsPage DEF Rewrites, JobHolds, Working
  <2>2. ~Limits(p, n)
    BY <1>4 DEF Rewrites, Limits
  <2> QED BY <1>3, <1>4, <2>1, <2>2 DEF Rewrites, Rewritten
<1>5. CASE Limits(p, n)
  <2>1. n.at \in PageIds /\ page[n.at].prop.doc = n.doc
    BY <1>1, <1>5, MadeIsPage DEF Limits, JobHolds, Working
  <2> QED BY <1>3, <1>5, <2>1 DEF Limits
<1>6. CASE Creates(p, n)
  <2>1. made + 1 \in PageIds /\ page[made + 1] = NoPage /\ made \in Nat
    <3>1. made \in Nat /\ made + 1 \in PageIds /\ made < MaxPages
      BY <1>1, <1>6, ConfluenceAssumption DEF CTypes, Creates, PageIds
    <3>2. PageHolds(made + 1) BY <3>1 DEF CInv
    <3> QED BY <3>1, <3>2 DEF PageHolds
  <2>2. /\ \A i \in PageIds : i # made + 1 => page'[i] = page[i]
        /\ page'[made + 1].prop.doc = None
    BY <1>6 DEF Creates, Changes, NoProp
  <2>3. \A i \in 1..made : page'[i] # NoPage => page[i] # NoPage
    BY <1>1, <2>1, <2>2, MadeIsPage
  <2>4. \A i \in PageIds : \A e \in Docs :
           (Carries(i, e)' <=> Carries(i, e)) /\ (Carries(i, e) => page'[i] = page[i])
    BY <1>1, <2>1, <2>2 DEF Carries
  <2> QED BY <2>3, <2>4 DEF OthersPages
<1>7. CASE Marks(p, n)
  <2>1. /\ n.at \in PageIds /\ page[n.at].prop.doc \in {n.doc, None} /\ page'[n.at].prop.doc = n.doc
        /\ page[n.at] # NoPage /\ \A i \in PageIds : i # n.at => page'[i] = page[i]
    BY <1>1, <1>7, MadeIsPage DEF Marks, Changes, JobHolds, Working
  <2>2. \A i \in 1..made : page'[i] # NoPage => page[i] # NoPage
    BY <1>1, <2>1, MadeIsPage
  <2> QED BY <1>1, <1>7, <2>1, <2>2 DEF OthersPages, Carries
<1> QED BY <1>2, <1>4, <1>5, <1>6, <1>7 DEF Moves, GivesUp, Prepares, Finds, Versions, AsksProperty

\* What a job knows is of its own document's pages.
LEMMA JobAloneKept ==
  ASSUME NEW j, JobAlone(j), \A i \in PageIds : Carries(i, j.doc)' => Carries(i, j.doc),
         j.pc = "restrict" /\ page'[j.at] # NoPage =>
           page[j.at] # NoPage /\ page'[j.at].prop = page[j.at].prop
  PROVE  JobAlone(j)'
BY DEF JobAlone, NoneCarries

\* The job that moved knows what it has to.
LEMMA MovesKnow ==
  ASSUME ~SearchFails, COne, NEW p \in Publishers, NEW n, Moves(p, n)
  PROVE  JobAlone(n)' /\ OneCarries'
<1>1. /\ CInv /\ n \in CJob /\ n.doc = job[p].doc /\ n.doc \in Docs /\ JobAlone(job[p]) /\ JobHolds(job[p])
  BY JobNumbers DEF COne, CInv, Moves, GivesUp, Prepares, Finds, Versions, Rewrites, Creates,
     AsksProperty, Marks, Limits, Goes
<1>2. CASE Marks(p, n)
  <2>1. \A i \in PageIds : Carries(i, n.doc) => i = n.at
    BY <1>1, <1>2 DEF Marks, JobAlone
  <2>2. \A i \in PageIds : i # n.at => page'[i] = page[i]
    BY <1>2 DEF Marks, Changes
  <2>3. \A i \in PageIds : Carries(i, n.doc)' => i = n.at
    BY <2>1, <2>2 DEF Carries
  <2>4. JobAlone(n)'
    BY <1>2, <2>3 DEF Marks, AfterProperty, JobAlone, NoneCarries
  <2>5. ASSUME NEW d \in Docs, NEW i \in PageIds, NEW k \in PageIds, (Carries(i, d) /\ Carries(k, d))'
        PROVE  i = k
    <3>1. CASE d = n.doc BY <2>3, <2>5, <3>1
    <3>2. CASE d # n.doc
      <4>1. Carries(i, d) /\ Carries(k, d)
        BY <1>1, <2>5, <3>2, MovesOwnPages DEF OthersPages
      <4> QED BY <4>1 DEF COne, OneCarries
    <3> QED BY <3>1, <3>2
  <2> QED BY <2>4, <2>5 DEF OneCarries
<1>3. CASE ~Marks(p, n)
  <2>1. \A i \in PageIds : \A e \in Docs : Carries(i, e)' <=> Carries(i, e)
    BY <1>1, <1>3, MovesOwnPages
  <2>2. OneCarries'
    BY <2>1 DEF COne, OneCarries
  <2>3. CASE GivesUp(p, n) \/ Finds(p, n) \/ Versions(p, n) \/ Limits(p, n)
    BY <2>2, <2>3 DEF GivesUp, Finds, Versions, Limits, JobAlone, NoneCarries
  <2>4. CASE Prepares(p, n)
    <3>1. NoneCarries(n) => \A i \in PageIds : ~Carries(i, n.doc)
      BY <1>1, <2>4 DEF Prepares, JobAlone, Hits
    <3>2. n.pc \notin {"row", "prop", "restrict"}
      BY <2>4 DEF Prepares, Asking
    <3> QED BY <1>1, <2>1, <2>2, <3>1, <3>2 DEF JobAlone, NoneCarries
  <2>5. CASE Rewrites(p, n)
    <3>1. n.pc = "row" => \A i \in PageIds : Carries(i, n.doc)' => i = n.at
      <4>1. n.at \in PageIds /\ Carries(n.at, n.doc)
        BY <1>1, <2>5, MadeIsPage DEF CInv, Rewrites, Rewritten, JobHolds, Working, Carries
      <4> QED BY <1>1, <2>1, <4>1 DEF COne, OneCarries
    <3> QED BY <2>2, <2>5, <3>1 DEF Rewrites, JobAlone, NoneCarries
  <2>6. CASE Creates(p, n)
    <3>1. \A i \in PageIds : ~Carries(i, n.doc)
      BY <1>1, <2>6 DEF Creates, JobAlone, NoneCarries
    <3> QED BY <1>1, <2>1, <2>2, <2>6, <3>1 DEF Creates, JobAlone, NoneCarries
  <2>7. CASE AsksProperty(p, n)
    BY <1>1, <2>1, <2>2, <2>7 DEF AsksProperty, JobAlone, NoneCarries
  <2> QED BY <1>3, <2>2, <2>3, <2>4, <2>5, <2>6, <2>7 DEF Moves
<1> QED BY <1>2, <1>3

\* The other jobs still do: they are of other documents.
LEMMA OthersKnow ==
  ASSUME COne, NEW p \in Publishers, NEW n, Moves(p, n), NEW q \in Publishers, q # p
  PROVE  JobAlone(job[q])'
<1>1. /\ CInv /\ job[p] \in CJob /\ n.doc = job[p].doc /\ job' = [job EXCEPT ![p] = n]
      /\ job[q] \in CJob \cup {NoJob} /\ JobAlone(job[q]) /\ JobHolds(job[q]) /\ job'[q] = job[q]
  BY DEF COne, CInv, CTypes, Moves, GivesUp, Prepares, Finds, Versions, Rewrites, Creates,
     AsksProperty, Marks, Limits, Goes
<1>2. PICK j \in CJob \cup {NoJob} : j = job[q] /\ j = job'[q]
  BY <1>1
<1>3. CASE j = NoJob
  BY <1>2, <1>3 DEF JobAlone, NoneCarries, NoJob
<1>4. CASE j \in CJob
  <2>1. j.pc # "idle" /\ job[p].pc # "idle" /\ j.doc \in Docs
    BY <1>1, <1>4 DEF CJob, Asking, Working
  <2>2. j.doc # n.doc
    BY <1>1, <1>2, <2>1 DEF COne, CAlone
  <2>3. OthersPages(n.doc) /\ \A i \in 1..made : page'[i] # NoPage => page[i] # NoPage
    BY <1>1, MovesOwnPages
  <2>4. \A i \in PageIds : Carries(i, j.doc)' => Carries(i, j.doc)
    BY <2>1, <2>2, <2>3 DEF OthersPages
  <2>5. ASSUME j.pc = "restrict", page'[j.at] # NoPage
        PROVE  page[j.at] # NoPage /\ page'[j.at].prop = page[j.at].prop
    <3>1. j.at \in 1..made /\ j.at \in PageIds
      BY <1>1, <1>2, <2>5, MadeIsPage DEF CInv, JobHolds, Working
    <3>2. Carries(j.at, j.doc)
      BY <1>1, <1>2, <2>3, <2>5, <3>1 DEF JobAlone, Carries
    <3> QED BY <2>1, <2>2, <2>3, <3>1, <3>2 DEF OthersPages, Carries
  <2>6. JobAlone(j)'
    BY <1>1, <1>2, <2>4, <2>5, JobAloneKept
  <2> QED BY <1>2, <2>6 DEF JobAlone, Carries
<1> QED BY <1>2, <1>3, <1>4

\* Together they are inductive.
LEMMA ConfluenceOne ==
  ASSUME Apart, ~SearchFails, COne, [ConfluenceNext]_cvars
  PROVE  COne'
<1>1. CInv /\ CInv' /\ CTypes
  BY ConfluenceHolds DEF COne, CInv
<1>2. ASSUME NEW p \in Publishers, NEW n, Moves(p, n) PROVE COne'
  <2>1. /\ job[p] \in CJob /\ n.doc = job[p].doc /\ job' = [job EXCEPT ![p] = n] /\ n \in CJob
    BY <1>2 DEF Moves, GivesUp, Prepares, Finds, Versions, Rewrites, Creates,
                AsksProperty, Marks, Limits, Goes
  <2>2. job'[p] = n /\ \A q \in Publishers : q # p => job'[q] = job[q]
    BY <1>1, <2>1 DEF CTypes
  <2>3. CAlone'
    <3>1. job[p].pc # "idle" BY <2>1 DEF CJob, Asking, Working
    <3> QED BY <2>1, <2>2, <3>1 DEF COne, CAlone
  <2>4. ASSUME NEW q \in Publishers PROVE JobAlone(job[q])'
    <3>1. CASE q = p BY <1>2, <2>2, <3>1, MovesKnow DEF JobAlone, Carries
    <3>2. CASE q # p BY <1>2, <3>2, OthersKnow
    <3> QED BY <3>1, <3>2
  <2>5. OneCarries'
    BY <1>2, MovesKnow
  <2> QED BY <1>1, <2>3, <2>4, <2>5 DEF COne
<1>3. ASSUME NEW p \in Publishers, NEW n \in CJob \cup {NoJob}, job' = [job EXCEPT ![p] = n],
             UNCHANGED <<page, made>>, JobAlone(n),
             \A q \in Publishers : q # p /\ n.pc # "idle" /\ job[q].pc # "idle" => job[q].doc # n.doc
      PROVE  COne'
  <2>1. job'[p] = n /\ \A q \in Publishers : q # p => job'[q] = job[q]
    BY <1>1, <1>3 DEF CTypes
  <2>2. CAlone'
    BY <1>3, <2>1 DEF COne, CAlone
  <2>3. OneCarries'
    BY <1>3 DEF COne, OneCarries, Carries
  <2>4. \A q \in Publishers : JobAlone(job[q])'
    BY <1>3, <2>1 DEF COne, JobAlone, Carries
  <2> QED BY <1>1, <2>2, <2>3, <2>4 DEF COne
<1>4. ASSUME NEW p \in Publishers, NEW n, Starts(p, n) PROVE COne'
  <2>1. JobAlone(n)
    BY <1>4 DEF Starts, JobAlone, NoneCarries
  <2>2. \A q \in Publishers : job[q].pc # "idle" => job[q].doc # n.doc
    BY <1>4 DEF Starts, NoJob
  <2> QED BY <1>3, <1>4, <2>1, <2>2 DEF Starts
<1>5. ASSUME NEW p \in Publishers, Ends(p) PROVE COne'
  <2>1. NoJob.pc = "idle" /\ JobAlone(NoJob)
    BY DEF NoJob, JobAlone, NoneCarries
  <2> QED BY <1>3, <1>5, <2>1 DEF Ends
<1>6. ASSUME UNCHANGED job,
             \A i \in PageIds : page'[i] # NoPage => page[i] # NoPage /\ page'[i].prop = page[i].prop
      PROVE  COne'
  <2>1. \A i \in PageIds : \A d : Carries(i, d)' => Carries(i, d)
    BY <1>6 DEF Carries
  <2>2. OneCarries'
    BY <2>1 DEF COne, OneCarries
  <2>3. ASSUME NEW q \in Publishers PROVE JobAlone(job[q])'
    <3>1. PICK j : j = job[q] /\ j = job'[q] BY <1>6
    <3>2. j.pc = "restrict" => j.at \in PageIds
      BY <1>1, <3>1, MadeIsPage DEF CInv, JobHolds, Working
    <3>3. JobAlone(j)'
      BY <1>6, <2>1, <3>1, <3>2, JobAloneKept DEF COne
    <3> QED BY <3>1, <3>3 DEF JobAlone, Carries
  <2> QED BY <1>1, <1>6, <2>2, <2>3 DEF COne, CAlone
<1>7. ASSUME NEW i \in PageIds, Reader(i) PROVE COne'
  BY <1>6, <1>7 DEF Reader, Deleted, Rewritten, Changes
<1>8. CASE UNCHANGED cvars
  BY <1>6, <1>8 DEF cvars
<1> QED BY <1>1, <1>2, <1>4, <1>5, <1>7, <1>8, ConfluenceSteps

\* At most one of a set whose members are all the same.
LEMMA AtMostOne ==
  ASSUME NEW S, \A x, y \in S : x = y
  PROVE  Cardinality(S) <= 1
<1>1. CASE S = {}
  BY <1>1, FS_EmptySet
<1>2. CASE S # {}
  <2>1. PICK x \in S : TRUE BY <1>2
  <2>2. S = {x} BY <2>1
  <2> QED BY <2>2, FS_Singleton
<1> QED BY <1>1, <1>2

\* No more than one page carries a document, then.
LEMMA OneCarriesCounts ==
  ASSUME COne
  PROVE  OnePageCarries
BY AtMostOne DEF COne, OneCarries, OnePageCarries

----------------------------------------------------------------------------
\* One page per document: Markdown

\* A file that names no document is of none of them.
LEMMA FileOfNone ==
  ASSUME MTypes, NEW f \in Paths, file[f].doc \in Docs
  PROVE  Exists(f)
BY PathsAre, ProviderAssumption DEF Exists, NoFile

\* What Find returns is the one file of the document.
LEMMA FoundIsTheOne ==
  ASSUME SlugsDiffer, MInv, OneHolds, NEW d \in Docs
  PROVE  Lookup(d) = {f \in Paths : Holds(f, d)}
<1>1. CASE Exists(index[d])
  <2>1. Own(index[d], d) /\ index[d] \in Paths
    <3>1. Own(index[d], d) BY <1>1 DEF MInv, IndexHolds, Exists
    <3> QED BY <3>1, OwnPathsApart DEF Own
  <2>2. Holds(index[d], d)
    BY <1>1, <2>1 DEF Own, Holds
  <2>3. \A f \in Paths : Holds(f, d) <=> f = index[d]
    BY <2>1, <2>2 DEF OneHolds, Holds
  <2> QED BY <1>1, <2>1, <2>3 DEF Lookup
<1>2. CASE ~Exists(index[d])
  BY <1>2 DEF Lookup
<1> QED BY <1>1, <1>2

\* A publish leaves the files of other documents as they are.
LEMMA OthersFiles ==
  ASSUME SlugsDiffer, MInv, NEW p \in Publishers, NEW n, MMoves(p, n)
  PROVE  /\ \A f \in Paths : \A e \in Docs : e # n.doc =>
              (file'[f].doc = e <=> file[f].doc = e) /\ (file[f].doc = e => file'[f] = file[f])
         /\ ~Overwrites(p, n) => UNCHANGED file
<1>1. CASE Overwrites(p, n)
  <2>1. /\ Own(n.path, n.doc) /\ file'[n.path] = [doc |-> n.doc, text |-> n.text]
        /\ n.path \in Paths /\ \A f \in Paths : f # n.path => file'[f] = file[f]
    BY <1>1, OverwrittenKept
  <2>2. \A e \in Docs : file[n.path].doc = e => e = n.doc
    BY <2>1, FileOfNone DEF MInv, Own
  <2> QED BY <1>1, <2>1, <2>2
<1> QED BY <1>1 DEF MMoves, Locates, Misses, Heals, Chooses, Loads, Saves, Abandons

\* The publish that moved knows what it has to.
LEMMA MMovesKnow ==
  ASSUME SlugsDiffer, MOne, NEW p \in Publishers, NEW n, MMoves(p, n)
  PROVE  TaskAlone(n)' /\ OneHolds'
<1>1. /\ MInv /\ OneHolds /\ n \in MTask /\ n.doc = task[p].doc /\ n.text = task[p].text
      /\ n.doc \in Docs /\ TaskAlone(task[p])
  BY DEF MOne, MMoves, Locates, Misses, Heals, Chooses, Overwrites, Loads, Saves, Abandons,
         Keeps, MGoes, MTask
<1>2. CASE Overwrites(p, n)
  <2>1. /\ n.path = task[p].path /\ task[p].pc = "write" /\ n.pc = "load"
        /\ file'[n.path] = [doc |-> n.doc, text |-> n.text] /\ n.path \in Paths
        /\ \A f \in Paths : f # n.path => file'[f] = file[f]
    <3>1. n.path = task[p].path /\ task[p].pc = "write" /\ n.pc = "load"
      BY <1>2 DEF Overwrites, Keeps
    <3> QED BY <1>1, <1>2, <3>1, OverwrittenKept
  <2>2. \A f \in Paths : file[f].doc = n.doc => f = n.path
    BY <1>1, <2>1 DEF TaskAlone, Placed
  <2>3. \A f \in Paths : file'[f].doc = n.doc => f = n.path
    BY <2>1, <2>2
  <2>4. TaskAlone(n)'
    BY <2>1, <2>3 DEF TaskAlone
  <2>5. ASSUME NEW d \in Docs, NEW f \in Paths, NEW g \in Paths, file'[f].doc = d, file'[g].doc = d
        PROVE  f = g
    <3>1. CASE d = n.doc BY <2>3, <2>5, <3>1
    <3>2. CASE d # n.doc
      <4>1. file[f].doc = d /\ file[g].doc = d BY <1>1, <2>5, <3>2, OthersFiles
      <4> QED BY <1>1, <4>1 DEF OneHolds
    <3> QED BY <3>1, <3>2
  <2> QED BY <2>4, <2>5 DEF OneHolds
<1>3. ASSUME UNCHANGED file, TaskAlone(n) PROVE TaskAlone(n)' /\ OneHolds'
  BY <1>1, <1>3 DEF TaskAlone, OneHolds
<1>4. CASE Locates(p, n)
  <2>1. \A f \in Paths : file[f].doc = n.doc => f = n.path
    <3>1. Holds(n.path, n.doc) /\ n.path \in Paths
      BY <1>1, <1>4, FoundIsTheOne DEF Locates
    <3> QED BY <1>1, <3>1 DEF OneHolds, Holds
  <2> QED BY <1>3, <1>4, <2>1 DEF Locates, TaskAlone
<1>5. CASE Misses(p, n)
  <2>1. \A f \in Paths : file[f].doc # n.doc
    BY <1>1, <1>5, FoundIsTheOne, FileOfNone DEF Misses, MInv, Holds
  <2> QED BY <1>3, <1>5, <2>1 DEF Misses, TaskAlone, Placed
<1>6. CASE Heals(p, n)
  BY <1>1, <1>3, <1>6 DEF Heals, Keeps, TaskAlone, Placed
<1>7. CASE Chooses(p, n)
  BY <1>1, <1>3, <1>7 DEF Chooses, TaskAlone, Placed
<1>8. CASE Loads(p, n)
  BY <1>1, <1>3, <1>8 DEF Loads, TaskAlone, Placed
<1>9. CASE Saves(p, n) \/ Abandons(p, n)
  BY <1>3, <1>9 DEF Saves, Abandons, TaskAlone, Placed
<1> QED BY <1>2, <1>4, <1>5, <1>6, <1>7, <1>8, <1>9 DEF MMoves

\* What a publish knows outlasts a step that gives its document no file.
LEMMA TaskAloneKept ==
  ASSUME NEW j, TaskAlone(j), \A f \in Paths : file'[f].doc = j.doc => file[f].doc = j.doc
  PROVE  TaskAlone(j)'
BY DEF TaskAlone

\* Together they are inductive.
LEMMA MarkdownOne ==
  ASSUME SlugsDiffer, Apart, MovesApart, MOne, [MarkdownNext]_mvars
  PROVE  MOne'
<1>1. MInv /\ MInv' /\ MTypes
  BY MarkdownHolds DEF MOne, MInv
<1>2. ASSUME NEW p \in Publishers, NEW n, MMoves(p, n) PROVE MOne'
  <2>1. /\ task[p] \in MTask /\ n \in MTask /\ n.doc = task[p].doc /\ task' = [task EXCEPT ![p] = n]
    BY <1>2 DEF MMoves, Locates, Misses, Heals, Chooses, Overwrites, Loads, Saves, Abandons,
                Keeps, MGoes
  <2>2. task'[p] = n /\ \A q \in Publishers : q # p => task'[q] = task[q]
    BY <1>1, <2>1 DEF MTypes
  <2>3. task[p].pc # "idle" BY <2>1 DEF MTask
  <2>4. MAlone'
    BY <2>1, <2>2, <2>3 DEF MOne, MAlone
  <2>5. ASSUME NEW q \in Publishers PROVE TaskAlone(task[q])'
    <3>1. CASE q = p BY <1>2, <2>2, <3>1, MMovesKnow DEF TaskAlone
    <3>2. CASE q # p
      <4>1. PICK j \in MTask \cup {NoTask} : j = task[q] /\ j = task'[q]
        BY <1>1, <2>2, <3>2 DEF MTypes
      <4>2. TaskAlone(j) /\ TaskHolds(j)
        BY <1>1, <4>1 DEF MOne, MInv
      <4>3. CASE j = NoTask BY <4>1, <4>3 DEF TaskAlone, NoTask, Placed
      <4>4. CASE j \in MTask
        <5>1. j.pc # "idle" /\ j.doc \in Docs BY <4>4 DEF MTask
        <5>2. j.doc # n.doc
          BY <2>1, <2>3, <3>2, <4>1, <5>1 DEF MOne, MAlone
        <5>3. TaskAlone(j)'
          BY <1>1, <1>2, <4>2, <5>1, <5>2, OthersFiles, TaskAloneKept
        <5> QED BY <4>1, <5>3 DEF TaskAlone
      <4> QED BY <4>1, <4>3, <4>4
    <3> QED BY <3>1, <3>2
  <2>6. OneHolds'
    BY <1>2, MMovesKnow
  <2> QED BY <1>1, <2>4, <2>5, <2>6 DEF MOne
<1>3. ASSUME NEW p \in Publishers, NEW n \in MTask \cup {NoTask}, task' = [task EXCEPT ![p] = n],
             UNCHANGED file, TaskAlone(n),
             \A q \in Publishers : n.pc # "idle" /\ task[q].pc # "idle" => task[q].doc # n.doc
      PROVE  MOne'
  <2>1. task'[p] = n /\ \A q \in Publishers : q # p => task'[q] = task[q]
    BY <1>1, <1>3 DEF MTypes
  <2>2. MAlone'
    BY <1>3, <2>1 DEF MOne, MAlone
  <2>3. OneHolds' /\ \A q \in Publishers : TaskAlone(task[q])'
    BY <1>3, <2>1 DEF MOne, OneHolds, TaskAlone
  <2> QED BY <1>1, <2>2, <2>3 DEF MOne
<1>4. ASSUME NEW p \in Publishers, NEW n, MStarts(p, n) PROVE MOne'
  <2>1. \A q \in Publishers : task[q].pc # "idle" => task[q].doc # n.doc
    BY <1>4 DEF MStarts, NoTask
  <2> QED BY <1>3, <1>4, <2>1 DEF MStarts, TaskAlone, Placed
<1>5. ASSUME NEW p \in Publishers, MEnds(p) PROVE MOne'
  <2>1. NoTask.pc = "idle" /\ TaskAlone(NoTask)
    BY DEF NoTask, TaskAlone, Placed
  <2> QED BY <1>3, <1>5, <2>1 DEF MEnds
<1>6. CASE UNCHANGED <<file, task>>
  BY <1>1, <1>6 DEF MOne, MAlone, OneHolds, TaskAlone
<1>7. ASSUME NEW f \in Paths, Displaced(f) PROVE MOne'
  <2>1. file[f].doc \in Docs /\ UNCHANGED task
    BY <1>7 DEF Displaced
  <2>2. NoFile.doc \notin Docs
    BY ProviderAssumption DEF NoFile
  <2>3. /\ file'[f] = NoFile
        /\ \/ \A g \in Paths : g # f => file'[g] = file[g]
           \/ /\ \A p \in Publishers : task[p] # NoTask => task[p].doc # file[f].doc
              /\ \E m \in Paths : /\ m # f /\ ~Exists(m) /\ file'[m] = file[f]
                                  /\ \A g \in Paths : g # f /\ g # m => file'[g] = file[g]
    BY <1>1, <1>7, DisplacedKept
  <2>4. \A g, h \in Paths : \A e \in Docs : file'[g].doc = e /\ file'[h].doc = e => g = h
    BY <1>1, <2>1, <2>2, <2>3 DEF MOne, OneHolds
  <2>5. ASSUME NEW q \in Publishers PROVE TaskAlone(task[q])'
    <3>1. PICK j \in MTask \cup {NoTask} : j = task[q] /\ j = task'[q]
      BY <1>1, <2>1 DEF MTypes
    <3>2. TaskAlone(j)
      BY <1>1, <3>1 DEF MOne
    <3>3. CASE j = NoTask BY <3>1, <3>3 DEF TaskAlone, NoTask, Placed
    <3>4. CASE j \in MTask
      <4>1. j.doc \in Docs /\ task[q] # NoTask
        BY <3>1, <3>4 DEF MTask, NoTask
      <4>2. file[f].doc = j.doc => \A g \in Paths : g # f => file'[g] = file[g]
        BY <2>3, <3>1, <4>1
      <4>3. \A g \in Paths : file'[g].doc = j.doc => file[g].doc = j.doc
        BY <2>1, <2>2, <2>3, <4>1, <4>2
      <4>4. TaskAlone(j)'
        BY <3>2, <4>3, TaskAloneKept
      <4> QED BY <3>1, <4>4 DEF TaskAlone
    <3> QED BY <3>1, <3>3, <3>4
  <2> QED BY <1>1, <2>1, <2>4, <2>5 DEF MOne, MAlone, OneHolds
<1>8. CASE UNCHANGED mvars
  BY <1>6, <1>8 DEF mvars
<1> QED BY <1>1, <1>2, <1>4, <1>5, <1>6, <1>7, <1>8, MarkdownSteps

\* No document has two files, then, and Find sees the one it has.
LEMMA OneHoldsCounts ==
  ASSUME SlugsDiffer, MOne
  PROVE  OneFileFound
<1> SUFFICES ASSUME NEW d \in Docs
             PROVE  /\ Cardinality({f \in Paths : Holds(f, d)}) <= 1
                    /\ Lookup(d) = {f \in Paths : Holds(f, d)}
  BY DEF OneFileFound
<1>1. MInv /\ OneHolds
  BY DEF MOne
<1>2. \A f, g \in {h \in Paths : Holds(h, d)} : f = g
  BY <1>1 DEF OneHolds, Holds
<1> QED BY <1>1, <1>2, AtMostOne, FoundIsTheOne

\* At the start nobody publishes and no page, or file, is of a document.
LEMMA OneAtStart ==
  ASSUME Init
  PROVE  COne /\ MOne
<1>1. CInv /\ MInv
  BY ConfluenceStart, MarkdownStart DEF Init
<1>2. \A p \in Publishers : job[p] = NoJob /\ task[p] = NoTask
  BY DEF Init, ConfluenceInit, MarkdownInit
<1>3. \A i \in PageIds, d \in Docs : ~Carries(i, d)
  <2>1. ASSUME NEW i \in PageIds, page[i] # NoPage PROVE page[i].prop = NoProp
    BY <2>1 DEF Init, ConfluenceInit
  <2> QED BY <2>1, ProviderAssumption DEF Carries, NoProp
<1>4. \A f \in Paths : file[f].doc = None
  BY DEF Init, MarkdownInit, ReadersFile, NoFile
<1>5. COne
  BY <1>1, <1>2, <1>3 DEF COne, CAlone, OneCarries, JobAlone, NoneCarries, NoJob
<1>6. MOne
  BY <1>1, <1>2, <1>4, ProviderAssumption DEF MOne, MAlone, OneHolds, TaskAlone, NoTask, Placed
<1> QED BY <1>5, <1>6

\* A document keeps to one page of those that have its property, and to one file,
\* and Find and Get to that, if publishes of it come one at a time, no search fails,
\* no two documents have the name of one file, and readers rename no file during
\* its publish: whatever else fails or is cut off, whatever readers delete, wherever
\* they move a file between publishes, and whatever the index lost.  A page that
\* never got its property is not counted: a second one may stand beside it.
THEOREM OnePageKept ==
  ASSUME SlugsDiffer, Apart, ~SearchFails, MovesApart
  PROVE  Spec => []OnePagePerDocument
<1>1. Init => COne /\ MOne
  BY OneAtStart
<1>2. COne /\ MOne /\ [Next]_vars => (COne /\ MOne)'
  BY SlugsDiffer, Apart, ~SearchFails, MovesApart, PagesStep, ConfluenceOne, MarkdownOne
<1>3. COne /\ MOne => OnePagePerDocument
  BY SlugsDiffer, OneCarriesCounts, OneHoldsCounts DEF OnePagePerDocument
<1> QED BY <1>1, <1>2, <1>3, PTL DEF Spec

----------------------------------------------------------------------------
\* PageStore: what its variables are, of either provider

Alone ==
  \A p, q \in Publishers :
    p # q /\ Job(p).pc # "idle" /\ Job(q).pc # "idle" => Job(p).doc # Job(q).doc

StateOf(pc) ==
  CASE pc = "done"             -> "succeeded"
    [] pc = "failed"           -> "failed"
    [] pc \in {"load", "save"} -> "written"
    [] OTHER                   -> "asked"

\* A document's request is its one publish, if it has one.
RequestsAre ==
  /\ \A p \in Publishers :
       Alone /\ Job(p).pc # "idle" =>
         Request(Job(p).doc) = [state |-> StateOf(Job(p).pc), text |-> Job(p).text]
  /\ \A d \in Docs :
       (\A p \in Publishers : Job(p).pc # "idle" => Job(p).doc # d) => Request(d) = Store!Idle

LEMMA RequestsWhat == RequestsAre
<1>1. ASSUME NEW p \in Publishers, Alone, Job(p).pc # "idle"
      PROVE  Request(Job(p).doc) = [state |-> StateOf(Job(p).pc), text |-> Job(p).text]
  <2> DEFINE at == {q \in Publishers : Job(q).pc # "idle" /\ Job(q).doc = Job(p).doc}
  <2>1. at = {p}
    BY <1>1 DEF Alone
  <2>2. at # {} /\ (CHOOSE q \in at : TRUE) = p
    BY <2>1
  <2>3. Request(Job(p).doc) =
          IF at = {} THEN [state |-> "idle"]
          ELSE LET j == Job(CHOOSE q \in at : TRUE)
               IN [state |-> CASE j.pc = "done"             -> "succeeded"
                               [] j.pc = "failed"           -> "failed"
                               [] j.pc \in {"load", "save"} -> "written"
                               [] OTHER                     -> "asked",
                   text |-> j.text]
    BY DEF Request
  <2> HIDE DEF at
  <2> QED BY <2>2, <2>3 DEF StateOf
<1>2. ASSUME NEW d \in Docs, \A p \in Publishers : Job(p).pc # "idle" => Job(p).doc # d
      PROVE  Request(d) = Store!Idle
  BY <1>2 DEF Request, Store!Idle
<1> QED BY <1>1, <1>2 DEF RequestsAre

\* A document's content is its one page's, which everyone reads that is not limited.
PagesAre ==
  provider = "confluence" /\ CTypes /\ OneCarries =>
    \A d \in Docs :
      /\ \A i \in PageIds :
           Carries(i, d) => Content(d) = page[i].prop.text /\ Open(d) = ~page[i].limited
      /\ (\A i \in PageIds : ~Carries(i, d)) => Content(d) = None /\ Open(d) = FALSE

LEMMA PagesWhat == PagesAre
<1>1. ASSUME NEW d \in Docs, NEW i \in PageIds,
             provider = "confluence", CTypes, OneCarries, Carries(i, d)
      PROVE  Content(d) = page[i].prop.text /\ Open(d) = ~page[i].limited
  <2> DEFINE on == {page[k].prop.text : k \in {j \in PageIds : Carries(j, d)}}
  <2>1. \A k \in PageIds : Carries(k, d) <=> k = i
    BY <1>1 DEF OneCarries
  <2>2. on = {page[i].prop.text}
    BY <2>1
  <2>3. on # {} /\ (CHOOSE text \in on : TRUE) = page[i].prop.text
    BY <2>2
  <2>4. Content(d) = IF on = {} THEN None ELSE CHOOSE text \in on : TRUE
    BY <1>1 DEF Content
  <2>5. Open(d) <=> ~page[i].limited
    BY <1>1, <2>1 DEF Open
  <2> HIDE DEF on
  <2> QED BY <2>3, <2>4, <2>5 DEF Open
<1>2. ASSUME NEW d \in Docs, provider = "confluence", \A i \in PageIds : ~Carries(i, d)
      PROVE  Content(d) = None /\ Open(d) = FALSE
  <2>1. {i \in PageIds : Carries(i, d)} = {}
    BY <1>2
  <2>2. {page[k].prop.text : k \in {j \in PageIds : Carries(j, d)}} = {}
    BY <2>1
  <2>3. Content(d) = None
    BY <1>2, <2>2 DEF Content
  <2> QED BY <1>2, <2>3 DEF Open
<1> QED BY <1>1, <1>2 DEF PagesAre

\* A document's content is its one file's.
FilesAre ==
  provider = "markdown" /\ MTypes /\ OneHolds =>
    \A d \in Docs :
      /\ Open(d) = FALSE
      /\ \A f \in Paths : file[f].doc = d => Content(d) = file[f].text
      /\ (\A f \in Paths : file[f].doc # d) => Content(d) = None

LEMMA FilesWhat == FilesAre
<1>1. ASSUME NEW d \in Docs, NEW f \in Paths,
             provider = "markdown", MTypes, OneHolds, file[f].doc = d
      PROVE  Content(d) = file[f].text
  <2> DEFINE on == {file[h].text : h \in {g \in Paths : Holds(g, d)}}
  <2>1. \A g \in Paths : Holds(g, d) <=> g = f
    BY <1>1, FileOfNone DEF OneHolds, Holds
  <2>2. on = {file[f].text}
    BY <2>1
  <2>3. on # {} /\ (CHOOSE text \in on : TRUE) = file[f].text
    BY <2>2
  <2>4. Content(d) = IF on = {} THEN None ELSE CHOOSE text \in on : TRUE
    BY <1>1 DEF Content
  <2> HIDE DEF on
  <2> QED BY <2>3, <2>4
<1>2. ASSUME NEW d \in Docs, provider = "markdown", \A f \in Paths : file[f].doc # d
      PROVE  Content(d) = None
  <2>1. {g \in Paths : Holds(g, d)} = {}
    BY <1>2 DEF Holds
  <2>2. {file[h].text : h \in {g \in Paths : Holds(g, d)}} = {}
    BY <2>1
  <2> QED BY <1>2, <2>2 DEF Content
<1>3. ASSUME NEW d \in Docs, provider = "markdown" PROVE Open(d) = FALSE
  BY <1>3 DEF Open
<1> QED BY <1>1, <1>2, <1>3 DEF FilesAre

\* A request changes only where the publish of a process does.
LEMMA RequestsElsewhere ==
  ASSUME NEW p \in Publishers, NEW d, Alone, Alone',
         \A q \in Publishers : q # p => Job(q)' = Job(q),
         Job(p).pc # "idle" => Job(p).doc = d, Job(p)'.pc # "idle" => Job(p)'.doc = d
  PROVE  \A e \in Docs : e # d => Request(e)' = Request(e)
<1> SUFFICES ASSUME NEW e \in Docs, e # d PROVE Request(e)' = Request(e)
  OBVIOUS
<1>1. RequestsAre /\ RequestsAre'
  BY RequestsWhat, PTL
<1>3. CASE \E q \in Publishers : Job(q).pc # "idle" /\ Job(q).doc = e
  <2>1. PICK q \in Publishers : Job(q).pc # "idle" /\ Job(q).doc = e
    BY <1>3
  <2>2. q # p /\ Job(q)' = Job(q)
    BY <2>1
  <2>3. Request(e) = [state |-> StateOf(Job(q).pc), text |-> Job(q).text]
    BY <1>1, <2>1 DEF RequestsAre
  <2>4. Request(Job(q).doc)' = [state |-> StateOf(Job(q).pc), text |-> Job(q).text]'
    BY <1>1, <2>1, <2>2 DEF RequestsAre
  <2>5. Request(Job(q).doc)' = Request(e)'
    BY <2>1, <2>2 DEF Request
  <2> QED BY <2>2, <2>3, <2>4, <2>5 DEF StateOf
<1>4. CASE ~\E q \in Publishers : Job(q).pc # "idle" /\ Job(q).doc = e
  <2>1. Request(e) = Store!Idle
    BY <1>1, <1>4 DEF RequestsAre
  <2>2. \A q \in Publishers : Job(q)'.pc # "idle" => Job(q)'.doc # e
    BY <1>4
  <2>3. Request(e)' = Store!Idle
    BY <1>1, <2>2 DEF RequestsAre, Store!Idle
  <2> QED BY <2>1, <2>3
<1> QED BY <1>3, <1>4

----------------------------------------------------------------------------
\* PageStore: each of its steps, from what changes for one document

\* Nothing changes for the documents but d.
Elsewhere(d) ==
  \A e \in Docs : e # d =>
    Request(e)' = Request(e) /\ Content(e)' = Content(e) /\ Open(e)' = Open(e)

\* A document's page stays as it is.
SameContent(d) == Content(d)' = Content(d) /\ Open(d)' = Open(d)

\* The publish that is asked for.
LEMMA MapsToAsk ==
  ASSUME NEW d \in Docs, NEW t \in Texts, Elsewhere(d), SameContent(d),
         Request(d) = Store!Idle, Request(d)' = [state |-> "asked", text |-> t]
  PROVE  Store!Ask(d, t)
<1>1. Contents' = Contents /\ Opened' = Opened
  BY DEF Contents, Opened, Elsewhere, SameContent
<1>2. Requests[d] = Store!Idle /\ Requests' = [Requests EXCEPT ![d] = [state |-> "asked", text |-> t]]
  BY DEF Requests, Elsewhere
<1> QED BY <1>1, <1>2 DEF Store!Ask

\* A request of a publish.
LEMMA MapsToWork ==
  ASSUME NEW d \in Docs, NEW r \in {"asked", "written"},
         NEW s \in {"asked", "written", "failed", "succeeded"}, NEW t, Elsewhere(d),
         Request(d) = [state |-> r, text |-> t], Request(d)' = [state |-> s, text |-> t],
         Content(d)' \in {Content(d), t}, Open(d)' \in BOOLEAN,
         s \in {"written", "succeeded"} => r = "written" \/ Content(d)' = t,
         s = "succeeded" /\ d \in Restricted => ~Open(d)'
  PROVE  Store!Work(d)
<1>1. Requests[d] = Request(d) /\ Requests' = [Requests EXCEPT ![d] = [Request(d) EXCEPT !.state = s]]
  <2>1. [Request(d) EXCEPT !.state = s] = [state |-> s, text |-> t]
    OBVIOUS
  <2> QED BY <2>1 DEF Requests, Elsewhere
<1>2. Contents' \in {Contents, [Contents EXCEPT ![d] = t]} /\ Contents'[d] = Content(d)'
  BY DEF Contents, Elsewhere
<1>3. Opened' = [Opened EXCEPT ![d] = Open(d)'] /\ Opened'[d] = Open(d)'
  BY DEF Opened, Elsewhere
<1>4. \E o \in BOOLEAN : Opened' = [Opened EXCEPT ![d] = o]
  BY <1>3
<1>5. Requests[d].state = r /\ Requests[d].text = t
  BY <1>1
<1>6. \E u \in {"asked", "written", "failed", "succeeded"} :
        /\ Requests' = [Requests EXCEPT ![d].state = u]
        /\ u \in {"written", "succeeded"}
             => Requests[d].state = "written" \/ Contents'[d] = Requests[d].text
        /\ u = "succeeded" /\ d \in Restricted => ~Opened'[d]
  <2>1. Requests' = [Requests EXCEPT ![d].state = s]
    BY <1>1
  <2> QED BY <1>2, <1>3, <1>5, <2>1
<1> QED BY <1>2, <1>4, <1>5, <1>6 DEF Store!Work

\* The end of a publish.
LEMMA MapsToEnd ==
  ASSUME NEW d \in Docs, Elsewhere(d), SameContent(d), Request(d) # Store!Idle,
         Request(d)' = Store!Idle
  PROVE  Store!End(d)
<1>1. Contents' = Contents /\ Opened' = Opened
  BY DEF Contents, Opened, Elsewhere, SameContent
<1>2. Requests[d] = Request(d) /\ Requests' = [Requests EXCEPT ![d] = Store!Idle]
  BY DEF Requests, Elsewhere, Store!Idle
<1> QED BY <1>1, <1>2 DEF Store!End

\* A page that readers take away.
LEMMA MapsToRemove ==
  ASSUME NEW d \in Docs, Elsewhere(d), Request(d)' = Request(d), Content(d)' = None, Open(d)' = FALSE
  PROVE  Store!Remove(d)
<1>1. Requests' = Requests
  BY DEF Requests, Elsewhere
<1>2. Contents' = [Contents EXCEPT ![d] = None] /\ Opened' = [Opened EXCEPT ![d] = FALSE]
  BY DEF Contents, Opened, Elsewhere
<1> QED BY <1>1, <1>2 DEF Store!Remove

\* Nothing at all.
LEMMA MapsToStutter ==
  ASSUME \A d \in Docs : Request(d)' = Request(d) /\ SameContent(d)
  PROVE  UNCHANGED <<Contents, Opened, Requests>>
BY DEF Contents, Opened, Requests, SameContent

\* A step of PageStore.
StoreStep == [Store!Next]_<<Contents, Opened, Requests>>

\* A publish that a process starts, has in hand, or is done with.
LEMMA PublishMaps ==
  ASSUME NEW p \in Publishers, NEW d \in Docs, NEW t \in Texts, Alone, Alone',
         \A q \in Publishers : q # p => Job(q)' = Job(q),
         Job(p).pc # "idle" => Job(p).doc = d /\ Job(p).text = t,
         Job(p)'.pc # "idle" => Job(p)'.doc = d /\ Job(p)'.text = t,
         \A e \in Docs : e # d => SameContent(e)
  PROVE  /\ Job(p).pc = "idle" /\ StateOf(Job(p)'.pc) = "asked" /\ Job(p)'.pc # "idle"
            /\ SameContent(d)
              => Store!Ask(d, t)
         /\ Job(p).pc # "idle" /\ Job(p)'.pc = "idle" /\ SameContent(d) => Store!End(d)
         /\ /\ Job(p).pc \notin {"idle", "done", "failed"} /\ Job(p)'.pc # "idle"
            /\ Content(d)' \in {Content(d), t} /\ Open(d)' \in BOOLEAN
            /\ Job(p)'.pc \in {"done", "load", "save"}
                 => Job(p).pc \in {"load", "save"} \/ Content(d)' = t
            /\ Job(p)'.pc = "done" /\ d \in Restricted => ~Open(d)'
            => Store!Work(d)
<1>1. RequestsAre /\ RequestsAre'
  BY RequestsWhat, PTL
<1>2. Elsewhere(d)
  BY RequestsElsewhere DEF Elsewhere, SameContent
<1>3. /\ Job(p).pc # "idle" => Request(d) = [state |-> StateOf(Job(p).pc), text |-> t]
      /\ Job(p)'.pc # "idle" => Request(d)' = [state |-> StateOf(Job(p)'.pc), text |-> t]
  <2>1. Job(p).pc # "idle" => Request(d) = [state |-> StateOf(Job(p).pc), text |-> t]
    BY <1>1 DEF RequestsAre
  <2>2. ASSUME Job(p)'.pc # "idle"
        PROVE  Request(d)' = [state |-> StateOf(Job(p)'.pc), text |-> t]
    <3>1. Request(Job(p).doc)' = [state |-> StateOf(Job(p).pc), text |-> Job(p).text]'
      BY <1>1, <2>2 DEF RequestsAre
    <3>2. Request(Job(p).doc)' = Request(d)'
      BY <2>2 DEF Request
    <3> QED BY <2>2, <3>1, <3>2 DEF StateOf
  <2> QED BY <2>1, <2>2
<1>4. ASSUME Job(p).pc = "idle", Job(p)'.pc # "idle" PROVE Request(d) = Store!Idle
  <2>1. \A q \in Publishers : q # p /\ Job(q).pc # "idle" => Job(q).doc # d
    BY <1>4 DEF Alone
  <2> QED BY <1>1, <1>4, <2>1 DEF RequestsAre
<1>5. ASSUME Job(p).pc # "idle", Job(p)'.pc = "idle" PROVE Request(d)' = Store!Idle
  <2>1. \A q \in Publishers : Job(q)'.pc # "idle" => Job(q)'.doc # d
    BY <1>5 DEF Alone
  <2> QED BY <1>1, <2>1 DEF RequestsAre, Store!Idle
<1>6. ASSUME Job(p).pc = "idle", StateOf(Job(p)'.pc) = "asked", Job(p)'.pc # "idle", SameContent(d)
      PROVE  Store!Ask(d, t)
  <2>1. Request(d)' = [state |-> "asked", text |-> t]
    BY <1>3, <1>6
  <2> QED BY <1>2, <1>4, <1>6, <2>1, MapsToAsk
<1>7. ASSUME Job(p).pc # "idle", Job(p)'.pc = "idle", SameContent(d) PROVE Store!End(d)
  <2>1. Request(d) # Store!Idle
    <3>1. Request(d) = [state |-> StateOf(Job(p).pc), text |-> t]
      BY <1>3, <1>7
    <3>2. StateOf(Job(p).pc) # "idle"
      BY DEF StateOf
    <3> QED BY <3>1, <3>2 DEF Store!Idle
  <2> QED BY <1>2, <1>5, <1>7, <2>1, MapsToEnd
<1>8. ASSUME Job(p).pc \notin {"idle", "done", "failed"}, Job(p)'.pc # "idle",
             Content(d)' \in {Content(d), t}, Open(d)' \in BOOLEAN,
             Job(p)'.pc \in {"done", "load", "save"}
               => Job(p).pc \in {"load", "save"} \/ Content(d)' = t,
             Job(p)'.pc = "done" /\ d \in Restricted => ~Open(d)'
      PROVE  Store!Work(d)
  <2>1. PICK r \in {"asked", "written"} :
          Request(d) = [state |-> r, text |-> t] /\ (Job(p).pc \in {"load", "save"} => r = "written")
    <3>1. /\ StateOf(Job(p).pc) \in {"asked", "written"}
          /\ Job(p).pc \in {"load", "save"} => StateOf(Job(p).pc) = "written"
      BY <1>8 DEF StateOf
    <3>2. Request(d) = [state |-> StateOf(Job(p).pc), text |-> t]
      BY <1>3, <1>8
    <3> QED BY <3>1, <3>2
  <2>2. PICK s \in {"asked", "written", "failed", "succeeded"} :
          /\ Request(d)' = [state |-> s, text |-> t]
          /\ s \in {"written", "succeeded"} => Job(p)'.pc \in {"done", "load", "save"}
          /\ s = "succeeded" => Job(p)'.pc = "done"
    <3>1. Request(d)' = [state |-> StateOf(Job(p)'.pc), text |-> t]
      BY <1>3, <1>8
    <3>2. /\ StateOf(Job(p)'.pc) \in {"asked", "written", "failed", "succeeded"}
          /\ StateOf(Job(p)'.pc) \in {"written", "succeeded"} => Job(p)'.pc \in {"done", "load", "save"}
          /\ StateOf(Job(p)'.pc) = "succeeded" => Job(p)'.pc = "done"
      BY DEF StateOf
    <3> QED BY <3>1, <3>2
  <2>3. /\ s \in {"written", "succeeded"} => r = "written" \/ Content(d)' = t
        /\ s = "succeeded" /\ d \in Restricted => ~Open(d)'
    BY <1>8, <2>1, <2>2
  <2> QED BY <1>2, <1>8, <2>1, <2>2, <2>3, MapsToWork
<1> QED BY <1>6, <1>7, <1>8

----------------------------------------------------------------------------
\* PageStore: Confluence implements it

\* A page's content is as it was where the same pages carry the document.
LEMMA PageContentSame ==
  ASSUME provider = "confluence", UNCHANGED provider, COne, COne', NEW e \in Docs,
         \A i \in PageIds : /\ Carries(i, e)' <=> Carries(i, e)
                            /\ Carries(i, e) => page'[i].prop = page[i].prop
  PROVE  /\ Content(e)' = Content(e)
         /\ (\A i \in PageIds : Carries(i, e) => page'[i].limited = page[i].limited) => SameContent(e)
<1>1. PagesAre /\ PagesAre' /\ CTypes /\ CTypes' /\ OneCarries /\ OneCarries'
  BY PagesWhat, PTL DEF COne, CInv
<1>2. CASE \E i \in PageIds : Carries(i, e)
  <2>1. PICK i \in PageIds : Carries(i, e)
    BY <1>2
  <2>2. Content(e) = page[i].prop.text /\ Open(e) = ~page[i].limited
    BY <1>1, <2>1 DEF PagesAre
  <2>3. Content(e)' = page'[i].prop.text /\ Open(e)' = ~page'[i].limited
    <3>1. Carries(i, e)' BY <2>1
    <3> QED BY <1>1, <3>1 DEF PagesAre
  <2> QED BY <2>1, <2>2, <2>3 DEF SameContent
<1>3. CASE \A i \in PageIds : ~Carries(i, e)
  <2>1. \A i \in PageIds : ~Carries(i, e)'
    BY <1>3
  <2>2. Content(e) = None /\ Open(e) = FALSE
    BY <1>1, <1>3 DEF PagesAre
  <2>3. Content(e)' = None /\ Open(e)' = FALSE
    BY <1>1, <2>1 DEF PagesAre
  <2> QED BY <2>2, <2>3 DEF SameContent
<1> QED BY <1>2, <1>3

\* A request of a job is a step of its document's publish: it writes the whole
\* text or none, and is the last only when the text is there, for its groups.
LEMMA MovesMap ==
  ASSUME provider = "confluence", UNCHANGED provider, COne, COne', NEW p \in Publishers, NEW n,
         Moves(p, n)
  PROVE  Store!Work(n.doc)
<1>1. /\ CInv /\ CTypes /\ n \in CJob /\ n.doc = job[p].doc /\ n.text = job[p].text /\ n.doc \in Docs
      /\ n.text \in Texts /\ job[p] \in CJob /\ JobAlone(job[p]) /\ JobHolds(job[p])
      /\ job' = [job EXCEPT ![p] = n]
  BY JobNumbers DEF COne, CInv, Moves, GivesUp, Prepares, Finds, Versions, Rewrites, Creates,
     AsksProperty, Marks, Limits, Goes
<1>2. job'[p] = n /\ \A q \in Publishers : q # p => job'[q] = job[q]
  BY <1>1 DEF CTypes
<1>3. job[p].pc \notin {"idle", "done", "failed"} /\ n.pc # "idle"
  BY <1>1 DEF Moves, GivesUp, Prepares, Finds, Versions, Rewrites, Creates,
     AsksProperty, Marks, Limits, CJob, Asking, Working
<1>4. \A q \in Publishers : Job(q) = job[q] /\ Job(q)' = job'[q]
  BY DEF Job
<1>5. Alone /\ Alone'
  BY <1>4 DEF COne, CAlone, Alone
<1>6. \A e \in Docs : e # n.doc => SameContent(e)
  BY <1>1, MovesOwnPages, PageContentSame DEF OthersPages
<1>7. PagesAre' /\ CTypes' /\ OneCarries'
  BY PagesWhat, PTL DEF COne, CInv
<1>8. ASSUME NEW i \in PageIds, Carries(i, n.doc)'
      PROVE  Content(n.doc)' = page'[i].prop.text /\ Open(n.doc)' = ~page'[i].limited
  BY <1>1, <1>7, <1>8 DEF PagesAre
<1>9. Content(n.doc)' \in {Content(n.doc), n.text}
  <2>1. CASE Marks(p, n)
    <3>1. n.at \in PageIds
      BY <1>1, <2>1, MadeIsPage DEF Marks, JobHolds, Working
    <3> QED BY <1>8, <2>1, <3>1 DEF Marks, Carries
  <2>2. CASE ~Marks(p, n)
    BY <1>1, <2>2, MovesOwnPages, PageContentSame
  <2> QED BY <2>1, <2>2
<1>10. ASSUME n.pc = "done"
       PROVE  Content(n.doc)' = n.text /\ (n.doc \in Restricted => ~Open(n.doc)')
  <2>1. Marks(p, n) \/ Limits(p, n)
    BY <1>10 DEF Moves, GivesUp, Prepares, Finds, Versions, Rewrites, Creates, AsksProperty, Asking
  <2>2. n.at \in PageIds
    BY <1>1, <2>1, MadeIsPage DEF Marks, Limits, JobHolds, Working
  <2>3. CASE Marks(p, n)
    <3>1. n.doc \notin Restricted
      BY <1>10, <2>3 DEF Marks, AfterProperty
    <3> QED BY <1>8, <2>2, <2>3, <3>1 DEF Marks, Carries
  <2>4. CASE Limits(p, n)
    <3>1. page'[n.at].prop.doc = n.doc /\ page'[n.at].prop.text = n.text /\ page'[n.at].limited
      BY <1>1, <2>4 DEF Limits, JobAlone
    <3> QED BY <1>8, <2>2, <2>4, <3>1 DEF Limits, Carries
  <2> QED BY <2>1, <2>3, <2>4
<1>11. Open(n.doc)' \in BOOLEAN /\ n.pc \notin {"load", "save"}
  BY <1>1 DEF Open, CJob, Asking, Working
<1> QED BY <1>1, <1>2, <1>3, <1>4, <1>5, <1>6, <1>9, <1>10, <1>11, PublishMaps

\* So every step of Confluence is one of PageStore, or none.
LEMMA ConfluenceMaps ==
  ASSUME provider = "confluence", UNCHANGED provider, Apart, COne, COne', [ConfluenceNext]_cvars
  PROVE  StoreStep
<1>1. CInv /\ CTypes /\ CTypes'
  BY DEF COne, CInv
<1>2. \A q \in Publishers : Job(q) = job[q] /\ Job(q)' = job'[q]
  BY DEF Job
<1>3. Alone /\ Alone'
  BY <1>2 DEF COne, CAlone, Alone
<1>4. ASSUME UNCHANGED <<page, made>> PROVE \A e \in Docs : SameContent(e)
  BY <1>4, PageContentSame DEF Carries
<1>5. ASSUME NEW p \in Publishers, NEW n, Moves(p, n) PROVE StoreStep
  <2>1. n.doc \in Docs
    BY <1>5, JobNumbers DEF Moves, GivesUp, Prepares, Finds, Versions, Rewrites, Creates,
                 AsksProperty, Marks, Limits, Goes
  <2> QED BY <1>5, <2>1, MovesMap DEF StoreStep, Store!Next
<1>6. ASSUME NEW p \in Publishers, NEW n, Starts(p, n) PROVE StoreStep
  <2>1. /\ n.doc \in Docs /\ n.text \in Texts /\ job[p].pc = "idle" /\ job'[p] = n
        /\ n.pc # "idle" /\ StateOf(n.pc) = "asked"
        /\ \A q \in Publishers : q # p => job'[q] = job[q]
    BY <1>1, <1>6, NoJobIsIdle, JobNumbers DEF Starts, CTypes, StateOf
  <2>2. \A e \in Docs : SameContent(e)
    BY <1>4, <1>6 DEF Starts
  <2>3. Store!Ask(n.doc, n.text)
    BY <1>2, <1>3, <2>1, <2>2, PublishMaps
  <2> QED BY <2>1, <2>3 DEF StoreStep, Store!Next
<1>7. ASSUME NEW p \in Publishers, Ends(p) PROVE StoreStep
  <2>1. \A e \in Docs : SameContent(e)
    BY <1>4, <1>7 DEF Ends
  <2>2. job'[p].pc = "idle" /\ \A q \in Publishers : q # p => job'[q] = job[q]
    BY <1>1, <1>7, NoJobIsIdle DEF Ends, CTypes
  <2>3. CASE job[p] = NoJob
    <3>1. job' = job
      BY <1>1, <1>7, <2>3 DEF Ends, CTypes
    <3>2. \A e \in Docs : Request(e)' = Request(e)
      BY <3>1 DEF Request, Job
    <3> QED BY <2>1, <3>2, MapsToStutter DEF StoreStep
  <2>4. CASE job[p] # NoJob
    <3>1. job[p] \in CJob
      BY <1>1, <2>4 DEF CTypes
    <3>2. job[p].pc # "idle" /\ job[p].doc \in Docs /\ job[p].text \in Texts
      BY <3>1, JobNumbers DEF CJob, Asking, Working
    <3>3. Store!End(job[p].doc)
      BY <1>2, <1>3, <2>1, <2>2, <3>2, PublishMaps
    <3> QED BY <3>2, <3>3 DEF StoreStep, Store!Next
  <2> QED BY <2>3, <2>4
<1>8. ASSUME UNCHANGED job PROVE \A e \in Docs : Request(e)' = Request(e)
  BY <1>8 DEF Request, Job
<1>9. ASSUME NEW i \in PageIds, Reader(i) PROVE StoreStep
  <2>1. \A e \in Docs : Request(e)' = Request(e)
    BY <1>8, <1>9 DEF Reader
  <2>2. CASE Rewritten(i, [doc |-> None, text |-> None])
    <3>1. \A k \in PageIds : k # i => page'[k] = page[k]
      BY <2>2 DEF Rewritten, Changes
    <3>2. \A e \in Docs : \A k \in PageIds :
             /\ Carries(k, e)' <=> Carries(k, e)
             /\ Carries(k, e) => page'[k].prop = page[k].prop /\ page'[k].limited = page[k].limited
      BY <2>2, <3>1 DEF Carries, Rewritten
    <3>3. \A e \in Docs : SameContent(e)
      BY <3>2, PageContentSame
    <3> QED BY <2>1, <3>3, MapsToStutter DEF StoreStep
  <2>3. CASE Deleted(i)
    <3>1. /\ page[i] # NoPage /\ page'[i] = NoPage
          /\ \A k \in PageIds : k # i => page'[k] = page[k]
      BY <2>3 DEF Deleted, Changes
    <3>2. \A e \in Docs : ~Carries(i, e) => SameContent(e)
      BY <3>1, PageContentSame DEF Carries
    <3>3. CASE \A e \in Docs : ~Carries(i, e)
      BY <2>1, <3>2, <3>3, MapsToStutter DEF StoreStep
    <3>4. CASE \E e \in Docs : Carries(i, e)
      <4>1. PICK d \in Docs : Carries(i, d)
        BY <3>4
      <4>2. \A e \in Docs : e # d => ~Carries(i, e)
        BY <4>1 DEF Carries
      <4>3. \A k \in PageIds : ~Carries(k, d)'
        BY <3>1, <4>1 DEF Carries, COne, OneCarries
      <4>4. Content(d)' = None /\ Open(d)' = FALSE
        <5>1. PagesAre' /\ CTypes' /\ OneCarries'
          BY PagesWhat, PTL DEF COne, CInv
        <5> QED BY <4>3, <5>1 DEF PagesAre
      <4>5. Store!Remove(d)
        BY <2>1, <3>2, <4>2, <4>4, MapsToRemove DEF Elsewhere, SameContent
      <4> QED BY <4>5 DEF StoreStep, Store!Next
    <3> QED BY <3>3, <3>4
  <2> QED BY <1>9, <2>2, <2>3 DEF Reader
<1>10. CASE UNCHANGED cvars
  BY <1>4, <1>8, <1>10, MapsToStutter DEF cvars, StoreStep
<1> QED BY <1>1, <1>5, <1>6, <1>7, <1>9, <1>10, ConfluenceSteps

----------------------------------------------------------------------------
\* PageStore: Markdown implements it

\* A file's content is as it was where the files of the document are.
LEMMA FileContentSame ==
  ASSUME provider = "markdown", UNCHANGED provider, MOne, MOne', NEW e \in Docs,
         \A f \in Paths : /\ file'[f].doc = e <=> file[f].doc = e
                          /\ file[f].doc = e => file'[f].text = file[f].text
  PROVE  SameContent(e)
<1>1. FilesAre /\ FilesAre' /\ MTypes /\ MTypes' /\ OneHolds /\ OneHolds'
  BY FilesWhat, PTL DEF MOne, MInv
<1>2. Open(e) = FALSE /\ Open(e)' = FALSE
  BY <1>1 DEF FilesAre
<1>3. CASE \E f \in Paths : file[f].doc = e
  <2>1. PICK f \in Paths : file[f].doc = e
    BY <1>3
  <2>2. Content(e) = file[f].text
    BY <1>1, <2>1 DEF FilesAre
  <2>3. Content(e)' = file'[f].text
    <3>1. file'[f].doc = e BY <2>1
    <3> QED BY <1>1, <3>1 DEF FilesAre
  <2> QED BY <1>2, <2>1, <2>2, <2>3 DEF SameContent
<1>4. CASE \A f \in Paths : file[f].doc # e
  <2>1. \A f \in Paths : file'[f].doc # e
    BY <1>4
  <2>2. Content(e) = None
    BY <1>1, <1>4 DEF FilesAre
  <2>3. Content(e)' = None
    BY <1>1, <2>1 DEF FilesAre
  <2> QED BY <1>2, <2>2, <2>3 DEF SameContent
<1> QED BY <1>3, <1>4

\* A step of a publish is one of its document's: it writes the whole text or
\* none, and goes on to the index only when the text is there.
LEMMA MMovesMap ==
  ASSUME SlugsDiffer, provider = "markdown", UNCHANGED provider, MOne, MOne',
         NEW p \in Publishers, NEW n, MMoves(p, n)
  PROVE  Store!Work(n.doc) /\ n.doc \in Docs
<1>1. /\ MInv /\ MTypes /\ n \in MTask /\ n.doc = task[p].doc /\ n.text = task[p].text /\ n.doc \in Docs
      /\ n.text \in Texts /\ task[p] \in MTask /\ TaskAlone(task[p]) /\ TaskHolds(task[p])
      /\ task' = [task EXCEPT ![p] = n]
  BY DEF MOne, MInv, MMoves, Locates, Misses, Heals, Chooses, Overwrites, Loads, Saves, Abandons,
         Keeps, MGoes, MTask
<1>2. task'[p] = n /\ \A q \in Publishers : q # p => task'[q] = task[q]
  BY <1>1 DEF MTypes
<1>3. task[p].pc \notin {"idle", "done", "failed"} /\ n.pc # "idle"
  BY DEF MMoves, Locates, Misses, Heals, Chooses, Overwrites, Loads, Saves, Abandons
<1>4. \A q \in Publishers : Job(q) = task[q] /\ Job(q)' = task'[q]
  BY DEF Job
<1>5. Alone /\ Alone'
  BY <1>4 DEF MOne, MAlone, Alone
<1>6. FilesAre' /\ MTypes' /\ OneHolds'
  BY FilesWhat, PTL DEF MOne, MInv
<1>7. \A e \in Docs : e # n.doc => SameContent(e)
  BY <1>1, OthersFiles, FileContentSame
<1>8. Open(n.doc)' = FALSE
  BY <1>1, <1>6 DEF FilesAre
<1>9. Content(n.doc)' \in {Content(n.doc), n.text}
  <2>1. CASE Overwrites(p, n)
    <3>1. n.path \in Paths /\ file'[n.path] = [doc |-> n.doc, text |-> n.text]
      BY <1>1, <2>1, OverwrittenKept
    <3> QED BY <1>1, <1>6, <3>1 DEF FilesAre
  <2>2. CASE ~Overwrites(p, n)
    BY <1>1, <2>2, OthersFiles, FileContentSame DEF SameContent
  <2> QED BY <2>1, <2>2
<1>10. ASSUME n.pc \in {"done", "load", "save"}, task[p].pc \notin {"load", "save"}
       PROVE  Content(n.doc)' = n.text
  <2>1. Overwrites(p, n)
    BY <1>10 DEF MMoves, Locates, Misses, Heals, Chooses, Loads, Saves, Abandons
  <2>2. n.path \in Paths /\ file'[n.path] = [doc |-> n.doc, text |-> n.text]
    BY <1>1, <2>1, OverwrittenKept
  <2> QED BY <1>1, <1>6, <2>2 DEF FilesAre
<1>11. Job(p) = task[p] /\ Job(p)' = n /\ \A q \in Publishers : q # p => Job(q)' = Job(q)
  BY <1>2, <1>4
<1>12. Store!Work(n.doc)
  BY <1>1, <1>3, <1>5, <1>7, <1>8, <1>9, <1>10, <1>11, PublishMaps
<1> QED BY <1>1, <1>12

\* So every step of Markdown is one of PageStore, or none.
LEMMA MarkdownMaps ==
  ASSUME SlugsDiffer, provider = "markdown", UNCHANGED provider, MOne, MOne', [MarkdownNext]_mvars
  PROVE  StoreStep
<1>1. MInv /\ MTypes /\ MTypes'
  BY DEF MOne, MInv
<1>2. \A q \in Publishers : Job(q) = task[q] /\ Job(q)' = task'[q]
  BY DEF Job
<1>3. Alone /\ Alone'
  BY <1>2 DEF MOne, MAlone, Alone
<1>4. ASSUME UNCHANGED file PROVE \A e \in Docs : SameContent(e)
  BY <1>4, FileContentSame
<1>5. ASSUME NEW p \in Publishers, NEW n, MMoves(p, n) PROVE StoreStep
  BY <1>5, MMovesMap DEF StoreStep, Store!Next
<1>6. ASSUME NEW p \in Publishers, NEW n, MStarts(p, n) PROVE StoreStep
  <2>1. /\ n.doc \in Docs /\ n.text \in Texts /\ task[p].pc = "idle" /\ task'[p] = n
        /\ n.pc # "idle" /\ StateOf(n.pc) = "asked"
        /\ \A q \in Publishers : q # p => task'[q] = task[q]
    BY <1>1, <1>6 DEF MStarts, MTypes, MTask, NoTask, StateOf
  <2>2. \A e \in Docs : SameContent(e)
    BY <1>4, <1>6 DEF MStarts
  <2>3. Store!Ask(n.doc, n.text)
    BY <1>2, <1>3, <2>1, <2>2, PublishMaps
  <2> QED BY <2>1, <2>3 DEF StoreStep, Store!Next
<1>7. ASSUME NEW p \in Publishers, MEnds(p) PROVE StoreStep
  <2>1. \A e \in Docs : SameContent(e)
    BY <1>4, <1>7 DEF MEnds
  <2>2. task'[p].pc = "idle" /\ \A q \in Publishers : q # p => task'[q] = task[q]
    BY <1>1, <1>7 DEF MEnds, MTypes, NoTask
  <2>3. task[p].pc # "idle" /\ task[p].doc \in Docs /\ task[p].text \in Texts
    BY <1>1, <1>7 DEF MEnds, MTypes, MTask
  <2>4. Store!End(task[p].doc)
    BY <1>2, <1>3, <2>1, <2>2, <2>3, PublishMaps
  <2> QED BY <2>3, <2>4 DEF StoreStep, Store!Next
<1>8. ASSUME UNCHANGED task PROVE \A e \in Docs : Request(e)' = Request(e)
  BY <1>8 DEF Request, Job
<1>9. ASSUME NEW f \in Paths, Displaced(f) PROVE StoreStep
  <2>1. \A e \in Docs : Request(e)' = Request(e)
    BY <1>8, <1>9 DEF Displaced
  <2>2. PICK d \in Docs : file[f].doc = d
    BY <1>9 DEF Displaced
  <2>3. NoFile.doc = None /\ None \notin Docs
    BY ProviderAssumption DEF NoFile
  <2>4. /\ file'[f] = NoFile
        /\ \/ \A g \in Paths : g # f => file'[g] = file[g]
           \/ \E m \in Paths : /\ m # f /\ ~Exists(m) /\ file'[m] = file[f]
                               /\ \A g \in Paths : g # f /\ g # m => file'[g] = file[g]
    BY <1>1, <1>9, DisplacedKept
  <2>5. ASSUME NEW e \in Docs, e # d PROVE SameContent(e)
    <3>1. \A g \in Paths : /\ file'[g].doc = e <=> file[g].doc = e
                           /\ file[g].doc = e => file'[g].text = file[g].text
      BY <1>1, <2>2, <2>3, <2>4, <2>5, FileOfNone
    <3> QED BY <3>1, FileContentSame
  <2>6. FilesAre /\ FilesAre' /\ MTypes' /\ OneHolds /\ OneHolds'
    BY FilesWhat, PTL DEF MOne, MInv
  <2>7. Open(d) = FALSE /\ Open(d)' = FALSE
    BY <1>1, <2>6 DEF FilesAre
  <2>8. CASE \A g \in Paths : g # f => file'[g] = file[g]
    <3>1. \A g \in Paths : file'[g].doc # d
      BY <2>2, <2>3, <2>4, <2>6, <2>8 DEF OneHolds
    <3>2. Content(d)' = None
      BY <2>6, <3>1 DEF FilesAre
    <3>3. Store!Remove(d)
      BY <2>1, <2>5, <2>7, <3>2, MapsToRemove DEF Elsewhere, SameContent
    <3> QED BY <3>3 DEF StoreStep, Store!Next
  <2>9. ASSUME NEW m \in Paths, file'[m] = file[f] PROVE StoreStep
    <3>1. Content(d)' = file'[m].text
      BY <2>2, <2>6, <2>9 DEF FilesAre
    <3>2. Content(d) = file[f].text
      BY <1>1, <2>2, <2>6 DEF FilesAre
    <3>3. \A e \in Docs : SameContent(e)
      BY <2>5, <2>7, <2>9, <3>1, <3>2 DEF SameContent
    <3> QED BY <2>1, <3>3, MapsToStutter DEF StoreStep
  <2> QED BY <2>4, <2>8, <2>9
<1>10. CASE UNCHANGED <<file, task>>
  BY <1>4, <1>8, <1>10, MapsToStutter DEF StoreStep
<1>11. CASE UNCHANGED mvars
  BY <1>10, <1>11 DEF mvars
<1> QED BY <1>1, <1>5, <1>6, <1>7, <1>9, <1>10, <1>11, MarkdownSteps

\* At the start there are no contents and no requests.
LEMMA StoreStart ==
  ASSUME Init
  PROVE  Store!Init
<1>1. \A p \in Publishers : Job(p).pc = "idle"
  BY DEF Init, ConfluenceInit, MarkdownInit, Job, NoJob, NoTask
<1>2. \A d \in Docs : Request(d) = Store!Idle
  BY <1>1, RequestsWhat DEF RequestsAre
<1>3. COne /\ MOne
  BY OneAtStart
<1>4. ASSUME NEW d \in Docs PROVE Content(d) = None /\ Open(d) = FALSE
  <2>1. CASE provider = "confluence"
    <3>1. \A i \in PageIds : ~Carries(i, d)
      <4>1. ASSUME NEW i \in PageIds, page[i] # NoPage PROVE page[i].prop = NoProp
        BY <4>1 DEF Init, ConfluenceInit
      <4> QED BY <4>1, ProviderAssumption DEF Carries, NoProp
    <3> QED BY <1>3, <2>1, <3>1, PagesWhat DEF PagesAre, COne, CInv
  <2>2. CASE provider = "markdown"
    <3>1. \A f \in Paths : file[f].doc = None
      BY DEF Init, MarkdownInit, ReadersFile, NoFile
    <3>2. \A f \in Paths : file[f].doc # d
      BY <3>1, ProviderAssumption
    <3> QED BY <1>3, <2>2, <3>2, FilesWhat DEF FilesAre, MOne, MInv
  <2> QED BY <2>1, <2>2 DEF Init
<1> QED BY <1>2, <1>4 DEF Store!Init, Contents, Opened, Requests

\* Only the provider in use takes steps.
LEMMA StoreSteps ==
  ASSUME SlugsDiffer, Apart, COne, COne', MOne, MOne', provider \in {"confluence", "markdown"},
         [Next]_vars
  PROVE  StoreStep
BY PagesStep, ConfluenceMaps, MarkdownMaps

\* Either provider implements PageStore: one text per document, written whole by a
\* publish, which succeeds only when that was done and the page that Find returns is
\* for its groups only; under the hypotheses of OnePageKept.  Of a page that Find
\* does not return, because it never got its property, it says nothing.
THEOREM PagesImplementPageStore ==
  ASSUME SlugsDiffer, Apart, ~SearchFails, MovesApart
  PROVE  Spec => ImplementsPageStore
<1> DEFINE OneInv == COne /\ MOne /\ provider \in {"confluence", "markdown"}
<1>1. Init => OneInv
  BY OneAtStart DEF Init
<1>2. OneInv /\ [Next]_vars => OneInv'
  BY SlugsDiffer, Apart, ~SearchFails, MovesApart, PagesStep, ConfluenceOne, MarkdownOne
<1>3. OneInv /\ OneInv' /\ [Next]_vars => StoreStep
  BY SlugsDiffer, Apart, StoreSteps
<1>4. Init => Store!Init
  BY StoreStart
<1> HIDE DEF OneInv
<1> QED BY <1>1, <1>2, <1>3, <1>4, PTL DEF Spec, ImplementsPageStore, Store!Spec, StoreStep
=============================================================================
