--------------------------- MODULE MarkdownPages ---------------------------
(***************************************************************************)
(* The Markdown provider (internal/docs/markdown).  The front matter of a  *)
(* file says which document it holds; an index in one more file, read and  *)
(* written whole, says where to look first.  The mutex is a process's own; *)
(* writeAtomic renames, so that a file is never seen half written.         *)
(***************************************************************************)
EXTENDS Provider

CONSTANTS
  Slug,        \* the directory and file name made of a document's title
  MovesApart   \* readers rename no file while its document is being published

ASSUME MarkdownAssumption == MovesApart \in BOOLEAN

VARIABLES
  file,   \* the folder, by path
  index,  \* .codeument-index.json: a document's path, <<>> if it has none
  task,   \* the publish each process is in
  mpublished, mfaults, mreaders  \* what the bounds count

mvars == <<file, index, task, mpublished, mfaults, mreaders>>

Suffixes == 1..3
Slugs == {Slug[d] : d \in Docs}
\* A name, then "-2", ...; and where readers move a document's file.
Paths == (Slugs \X Suffixes) \cup (Docs \X {0})
Nowhere == <<>>

File == [doc : Docs \cup {None}, text : Texts \cup {None}]
NoFile == [doc |-> None]
ReadersFile == [doc |-> None, text |-> None]
NoTask == [pc |-> "idle"]

MarkdownTypeOK ==
  /\ \A f \in Paths : file[f] \in File \cup {NoFile}
  /\ index \in [Docs -> Paths \cup {Nowhere}]
  /\ \A p \in Publishers :
       task[p] = NoTask \/
         /\ task[p].pc \in {"find", "heal", "choose", "write", "load", "save",
                            "done", "failed"}
         /\ task[p].doc \in Docs /\ task[p].text \in Texts
         /\ task[p].path \in Paths \cup {Nowhere}
         /\ task[p].pc \in {"heal", "write", "load", "save"} => task[p].path # Nowhere
         /\ task[p].idx \in [Docs -> Paths \cup {Nowhere}]

\* A reader may keep a file of their own where a document would go.
MarkdownInit ==
  /\ \E own \in {{}} \cup {{<<name, 1>>} : name \in Slugs} :
       file = [f \in Paths |-> IF f \in own THEN ReadersFile ELSE NoFile]
  /\ index = [d \in Docs |-> Nowhere]
  /\ task = [p \in Publishers |-> NoTask]
  /\ mpublished = 0 /\ mfaults = 0 /\ mreaders = 0

Exists(f) == f # Nowhere /\ file[f] # NoFile
Holds(f, d) == Exists(f) /\ file[f].doc = d

----------------------------------------------------------------------------
MGoto(p, pc) == task' = [task EXCEPT ![p].pc = pc]
MFaulty == mfaults < MaxFaults /\ mfaults' = mfaults + 1

MStart(p) ==
  /\ task[p] = NoTask /\ mpublished < MaxPublishes
  /\ \E d \in Docs, t \in Texts :
       /\ Apart => \A q \in Publishers : task[q] # NoTask => task[q].doc # d
       /\ task' = [task EXCEPT ![p] = [pc |-> "find", doc |-> d, text |-> t,
                    path |-> Nowhere, idx |-> index]]
  /\ mpublished' = mpublished + 1
  /\ UNCHANGED <<file, index, mfaults, mreaders>>

\* Where a document may be found: at the path in the index if there is any file,
\* else in the first file whose front matter names it.
Lookup(d) ==
  IF Exists(index[d]) THEN {index[d]} ELSE {f \in Paths : Holds(f, d)}

\* Find; when it had to scan, it saves the index it read with the path added.
FindFile(p) ==
  LET d == task[p].doc
  IN /\ task[p].pc = "find"
     /\ \/ Lookup(d) = {} /\ MGoto(p, "choose")
        \/ \E f \in Lookup(d) :
             task' = [task EXCEPT ![p].pc = IF f = index[d] THEN "write" ELSE "heal",
                                  ![p].path = f, ![p].idx = [index EXCEPT ![d] = f]]
     /\ UNCHANGED <<file, index, mpublished, mfaults, mreaders>>

HealIndex(p) ==
  /\ task[p].pc = "heal"
  /\ \/ index' = task[p].idx /\ UNCHANGED mfaults
     \/ MFaulty /\ UNCHANGED index
  /\ MGoto(p, "write")
  /\ UNCHANGED <<file, mpublished, mreaders>>

\* Mutant: the name, whether or not there is a file.
FirstName(d) == {<<Slug[d], 1>>}

\* The first name with no file.
FreeName(d) ==
  {f \in {Slug[d]} \X Suffixes : ~Exists(f) /\ \A n \in 1..(f[2] - 1) : Exists(<<f[1], n>>)}

ChoosePath(p) ==
  /\ task[p].pc = "choose"
  /\ \E f \in FreeName(task[p].doc) :
       task' = [task EXCEPT ![p].pc = "write", ![p].path = f]
  /\ UNCHANGED <<file, index, mpublished, mfaults, mreaders>>

WriteFile(p) ==
  LET d == task[p].doc
  IN /\ task[p].pc = "write"
     /\ \/ /\ file' = [file EXCEPT ![task[p].path] = [doc |-> d, text |-> task[p].text]]
           /\ MGoto(p, "load") /\ UNCHANGED mfaults
        \/ MFaulty /\ MGoto(p, "failed") /\ UNCHANGED file
     /\ UNCHANGED <<index, mpublished, mreaders>>

LoadIndex(p) ==
  /\ task[p].pc = "load"
  /\ task' = [task EXCEPT ![p].pc = "save", ![p].idx = [index EXCEPT ![task[p].doc] = task[p].path]]
  /\ UNCHANGED <<file, index, mpublished, mfaults, mreaders>>

SaveIndex(p) ==
  /\ task[p].pc = "save"
  /\ \/ index' = task[p].idx /\ MGoto(p, "done") /\ UNCHANGED mfaults
     \/ MFaulty /\ MGoto(p, "failed") /\ UNCHANGED index
  /\ UNCHANGED <<file, mpublished, mreaders>>

MAnswer(p) ==
  /\ task[p].pc \in {"done", "failed"}
  /\ task' = [task EXCEPT ![p] = NoTask]
  /\ UNCHANGED <<file, index, mpublished, mfaults, mreaders>>

MKill(p) ==
  /\ task[p] # NoTask
  /\ MFaulty
  /\ task' = [task EXCEPT ![p] = NoTask]
  /\ UNCHANGED <<file, index, mpublished, mreaders>>

\* Someone deletes a document's file, or gives it a name of its own.
ReaderMoves(f) ==
  /\ mreaders < MaxReaders /\ mreaders' = mreaders + 1
  /\ file[f].doc # None
  /\ \/ file' = [file EXCEPT ![f] = NoFile]
     \/ /\ ~Exists(<<file[f].doc, 0>>)
        /\ MovesApart =>
             \A p \in Publishers : task[p] # NoTask => task[p].doc # file[f].doc
        /\ file' = [file EXCEPT ![f] = NoFile, ![<<file[f].doc, 0>>] = file[f]]
  /\ UNCHANGED <<index, task, mpublished, mfaults>>

\* The index is only a help: someone may remove it.
IndexRemoved ==
  /\ mreaders < MaxReaders /\ mreaders' = mreaders + 1
  /\ index' = [d \in Docs |-> Nowhere]
  /\ UNCHANGED <<file, task, mpublished, mfaults>>

MStep(p) ==
  \/ FindFile(p) \/ HealIndex(p) \/ ChoosePath(p) \/ WriteFile(p)
  \/ LoadIndex(p) \/ SaveIndex(p) \/ MAnswer(p)

MarkdownNext ==
  \/ \E p \in Publishers : MStart(p) \/ MStep(p) \/ MKill(p)
  \/ \E f \in Paths : ReaderMoves(f)
  \/ IndexRemoved

----------------------------------------------------------------------------
\* Properties

\* Find sees a document's file wherever it was moved to and whatever the index
\* lost, and no document has two.
OneFileFound ==
  \A d \in Docs :
    LET own == {f \in Paths : Holds(f, d)}
    IN Cardinality(own) <= 1 /\ Lookup(d) = own

\* A publish writes a file of its own document, or one that was not there.
WritesOwnFile ==
  \A f \in Paths : Exists(f) /\ file'[f] # NoFile => file'[f].doc = file[f].doc

\* Neither a reader's file of that name, nor that of another document, is written
\* over, if no two documents have one name.
OnlyOwnFiles == [][WritesOwnFile]_file

=============================================================================
