------------------------------ MODULE MCPages ------------------------------
\* An instance of Pages for TLC.
EXTENDS Pages, TLC

\* In Confluence the documents share a title; in the folder each has a name of
\* its own.
OneTitle == [d \in Docs |-> CHOOSE e \in Docs : TRUE]
FileNames == [d \in Docs |-> d]

\* Processes, and texts, are interchangeable; only safety is checked with it.
Symmetry == Permutations(Publishers) \cup Permutations(Texts)
=============================================================================
