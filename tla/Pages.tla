------------------------------- MODULE Pages -------------------------------
(***************************************************************************)
(* Both providers, of which an installation uses one, and what they have   *)
(* in common: each implements PageStore.                                   *)
(***************************************************************************)
EXTENDS ConfluencePages, MarkdownPages

VARIABLE provider  \* docs.provider in the configuration

vars == <<cvars, mvars, provider>>

Init ==
  /\ provider \in {"confluence", "markdown"}
  /\ IF provider = "confluence" THEN ConfluenceInit /\ MarkdownInit /\ file = [f \in Paths |-> NoFile]
                                ELSE MarkdownInit /\ ConfluenceInit /\ made = 0

Next ==
  \/ provider = "confluence" /\ ConfluenceNext /\ UNCHANGED <<mvars, provider>>
  \/ provider = "markdown" /\ MarkdownNext /\ UNCHANGED <<cvars, provider>>

Spec == Init /\ [][Next]_vars

----------------------------------------------------------------------------
\* The documents as PageStore has them

Content(d) ==
  LET on == IF provider = "confluence"
            THEN {page[i].prop.text : i \in {j \in PageIds : Carries(j, d)}}
            ELSE {file[f].text : f \in {g \in Paths : Holds(g, d)}}
  IN IF on = {} THEN None ELSE CHOOSE text \in on : TRUE

\* The publish a process is in, of either provider.
Job(p) == IF provider = "confluence" THEN job[p] ELSE task[p]

Request(d) ==
  LET at == {p \in Publishers : Job(p).pc # "idle" /\ Job(p).doc = d}
  IN IF at = {} THEN [state |-> "idle"]
     ELSE LET j == Job(CHOOSE p \in at : TRUE)
          IN [state |-> CASE j.pc = "done"             -> "succeeded"
                          [] j.pc = "failed"           -> "failed"
                          [] j.pc \in {"load", "save"} -> "written"
                          [] OTHER                     -> "asked",
              text |-> j.text]

\* Whether the page that Find returns is open to everyone (of those that it does
\* not return, see Exposed); who reads the files of the Markdown folder is not
\* the provider's business.
Open(d) ==
  provider = "confluence" /\ \E i \in PageIds : Carries(i, d) /\ ~page[i].limited

Contents == [d \in Docs |-> Content(d)]
Requests == [d \in Docs |-> Request(d)]
Opened == [d \in Docs |-> Open(d)]

Store == INSTANCE PageStore WITH
  Nothing <- None, content <- Contents, open <- Opened, request <- Requests

\* Every variable has its type.
PagesTypeOK == ConfluenceTypeOK /\ MarkdownTypeOK

\* Find and Get see one page of a document and a publish updates that, with
\* either provider: whatever requests failed or were cut off, wherever a file
\* was moved between two publishes and whatever the index lost.
OnePagePerDocument == OnePageCarries /\ OneFileFound

\* Either provider keeps one text per document and answers a publish when that
\* is written, and the page Find returns is for its groups only if it is
\* restricted, as PageStore has it.
ImplementsPageStore == Store!Spec
=============================================================================
