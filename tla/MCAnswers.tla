----------------------------- MODULE MCAnswers -----------------------------
(***************************************************************************)
(* Small replies and answers for the two callers of the model: a draft of  *)
(* a batch, or the explanation of a server's directories.                  *)
(***************************************************************************)
EXTENDS Drafting, Explaining, SequencesExt

CONSTANTS Depth, MaxPieces, MaxAnswer

\* ---- the texts the model may write ----
Concat(A, B) == {a \o b : a \in A, b \in B}

RECURSIVE Upto(_, _)
Upto(Pieces, n) == IF n = 0 THEN {<<>>} ELSE {<<>>} \cup Concat(Pieces, Upto(Pieces, n - 1))

Quoted == {<<"'">> \o body \o <<"'">> :
              body \in Upto({<<"x">>, <<"open">>, <<"close">>, <<"\\", "'">>, <<"\\", "\\">>}, MaxPieces)}

\* Objects nested at most d deep: strings, other characters and objects.
RECURSIVE Objects(_)
Objects(d) ==
    LET inner == {<<"x">>} \cup Quoted \cup (IF d = 0 THEN {} ELSE Objects(d - 1))
    IN  {<<"open">> \o body \o <<"close">> : body \in Upto(inner, 1)}

AllObjects == Objects(Depth)
MCIsObject(text) == text \in AllObjects

Prose  == {<<>>, <<"'">>, <<"close">>}
Rest   == {<<>>, <<"close">>}

\* A text, and the first object in it.
ReplyOf(t) ==
    LET spans == {s \in (DOMAIN t) \X (DOMAIN t) : SubSeq(t, s[1], s[2]) \in AllObjects}
    IN  [text |-> t,
         object |-> IF spans = {} THEN <<>>
                    ELSE LET first == CHOOSE s \in spans : \A u \in spans : s[1] <= u[1]
                         IN  SubSeq(t, first[1], first[2])]

Plain == {p \o o \o r : p \in Prose, o \in AllObjects, r \in Rest}
\* Cut off before its last brace, or without a brace.
Broken == {Front(o) : o \in AllObjects} \cup Prose
\* Prose with a brace, then an object.
Braced == {p \o o : p \in {<<"open">>, <<"open", "\\", "close">>}, o \in Objects(0)}

MCReplies == {ReplyOf(t) : t \in Plain \cup Broken \cup Braced}
MCProseReplies == {ReplyOf(t) : t \in Braced}

\* ---- the directories and their explanations ----
\* One, two, three and four directories, in chunks of two.
Names == <<"a", "b", "c", "d">>
MCDirLists ==
    {[i \in 1..n |-> [name |-> Names[i], slash |-> s]] : n \in 1..4, s \in BOOLEAN}
\* The first directory in both spellings, the others in one.
Explanations ==
    {[path |-> [name |-> "a", slash |-> s], purpose |-> IF s THEN "p" ELSE "q",
      confidence |-> IF s THEN "" ELSE "high"] : s \in BOOLEAN}
    \cup {[path |-> [name |-> n, slash |-> n = "c"], purpose |-> "p", confidence |-> ""] :
             n \in {"b", "c", "d"}}
MCAnswerLists == UNION {[1..n -> Explanations] : n \in 0..MaxAnswer}

\* A run is about one of the two calls.
vars == <<draftVars, explainVars>>
Init == InitDrafting /\ InitExplaining
Next ==
    \/ NextDrafting /\ UNCHANGED explainVars /\ epc = "run" /\ next = 1 /\ Len(dirs) = 1 /\ ~dirs[1].slash
    \/ NextExplaining /\ UNCHANGED draftVars /\ dpc = "ask" /\ attempt = 0 /\ backend = "ollama"
Spec == Init /\ [][Next]_vars
=============================================================================
