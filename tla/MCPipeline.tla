----------------------------- MODULE MCPipeline -----------------------------
(***************************************************************************)
(* Small instances of Pipeline.  Two restrict what meets in one behaviour, *)
(* for the sake of their size.                                             *)
(***************************************************************************)
EXTENDS Pipeline, MCCommands

\* A command that is no milestone, and one that is: it hands its batch over.
JustEdit == {Edit}
JustCommit == {Commit}

----------------------------------------------------------------------------
\* Either the engine fails and a worker dies, or commands are forgotten.

VARIABLE unlucky  \* whether the engine may fail in this behaviour

Fortunate == aborts' = 0 /\ \A id \in BatchIds : batches'[id].status # "failed"

LiveInit == PipelineInit /\ unlucky \in BOOLEAN

LiveSpec ==
  /\ LiveInit
  /\ [][PipelineNext /\ (IF unlucky THEN faults' = 0 ELSE Fortunate)
        /\ UNCHANGED unlucky]_<<pipelineVars, unlucky>>
  /\ PipelineFairness

----------------------------------------------------------------------------
\* Two ingests, `now` and session ends, no three of them at a time.

Unlocked ==
  {h \in Hooks : hook[h].pc # "idle"} \cup {e \in Enders : closer[e].pc # "idle"}
    \cup {m \in Manual : worker[m].pc # "idle"}

NowInit == PipelineInit /\ unlucky = FALSE

NowSpec ==
  /\ NowInit
  /\ [][PipelineNext /\ Cardinality(Unlocked') <= 2
        /\ UNCHANGED unlucky]_<<pipelineVars, unlucky>>
  /\ PipelineFairness
=============================================================================
