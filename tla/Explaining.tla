----------------------------- MODULE Explaining -----------------------------
(***************************************************************************)
(* explain.Run: the directories of a server are explained by the model in  *)
(* chunks, one request each, and the answers are put back at the           *)
(* directories they are about.                                             *)
(***************************************************************************)
EXTENDS Naturals, Sequences

CONSTANTS
    DirLists,     \* the sequences of paths that Run may be asked about
    Answers,      \* the sequences of explanations that the model may give
    ChunkSize     \* ten in the code

\* A path is written with a trailing slash or without; slashes are trimmed when
\* paths are compared.
Path == [name : STRING, slash : BOOLEAN]
Explanation == [path : Path, purpose : STRING, confidence : STRING]

ASSUME ExplainingAssumption ==
    /\ DirLists \subseteq Seq(Path) /\ Answers \subseteq Seq(Explanation)
    /\ ChunkSize \in Nat \ {0}

VARIABLES
    dirs,       \* in.Dirs
    next,       \* the index of the first directory of the next chunk
    answers,    \* the answer to each chunk so far
    out,        \* the explanations collected so far
    epc         \* "run" | "ok" | "error"

explainVars == <<dirs, next, answers, out, epc>>

InitExplaining ==
    /\ dirs \in DirLists
    /\ next = 1 /\ answers = <<>> /\ out = <<>>
    /\ epc = "run"

Smaller(a, b) == IF a < b THEN a ELSE b

\* Mutant: a chunk takes in the first directory of the next.
ChunkAndOne(first) == SubSeq(dirs, first, Smaller(first + ChunkSize, Len(dirs)))

Chunk(first) == SubSeq(dirs, first, Smaller(first + ChunkSize - 1, Len(dirs)))

Unknown(path) == [path |-> path, purpose |-> "unknown", confidence |-> "low"]

\* The explanation kept for a path: the last one the answer gives for it, under
\* the path that was asked about.
Explained(answer, path) ==
    LET about == {i \in DOMAIN answer : answer[i].path.name = path.name}
    IN  IF about = {} THEN Unknown(path)
        ELSE LET e == answer[CHOOSE i \in about : \A j \in about : j <= i]
             IN  [e EXCEPT !.path = path,
                           !.confidence = IF @ = "" THEN "low" ELSE @]

\* One chunk is sent and its answer taken apart.
ExplainChunk ==
    /\ epc = "run"
    /\ next <= Len(dirs)
    /\ LET part == Chunk(next)
       IN  \E answer \in Answers :
              /\ answers' = Append(answers, answer)
              /\ out' = out \o [i \in DOMAIN part |-> Explained(answer, part[i])]
    /\ next' = next + ChunkSize
    /\ UNCHANGED <<dirs, epc>>

\* The request fails or its answer does not decode: nothing is returned, not
\* even the chunks already explained.
ExplainFails ==
    /\ epc = "run"
    /\ next <= Len(dirs)
    /\ epc' = "error" /\ out' = <<>>
    /\ UNCHANGED <<dirs, next, answers>>

ExplainReturns ==
    /\ epc = "run"
    /\ next > Len(dirs)
    /\ epc' = "ok"
    /\ UNCHANGED <<dirs, next, answers, out>>

NextExplaining == ExplainChunk \/ ExplainFails \/ ExplainReturns

SpecExplaining == InitExplaining /\ [][NextExplaining]_explainVars

-----------------------------------------------------------------------------
(* Whatever the answers leave out, repeat, invent or spell differently,    *)
(* Run returns one explanation of every directory, in the order asked      *)
(* (server pages list them in that order): under the path asked about, and *)
(* either known to be missing or said of that directory in the answer to   *)
(* its own chunk.                                                          *)
EveryDirectoryOnce ==
    epc = "ok" =>
        /\ Len(out) = Len(dirs)
        /\ \A i \in DOMAIN dirs :
              LET answer == answers[((i - 1) \div ChunkSize) + 1]
              IN  /\ out[i].path = dirs[i]
                  /\ out[i].confidence # ""
                  /\ \/ out[i] = Unknown(dirs[i])
                     \/ \E j \in DOMAIN answer :
                           /\ answer[j].path.name = dirs[i].name
                           /\ answer[j].purpose = out[i].purpose
=============================================================================
