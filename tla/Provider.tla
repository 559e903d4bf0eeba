------------------------------ MODULE Provider ------------------------------
(***************************************************************************)
(* What every docs.Provider is given (internal/docs/provider.go): documents *)
(* with an id, a text and a title, published by processes that each hold a *)
(* provider of their own.                                                  *)
(***************************************************************************)
EXTENDS Integers, FiniteSets, Sequences

CONSTANTS
  Docs,          \* document ids
  Texts,         \* bodies a document is published with
  Publishers,    \* processes with a provider
  Apart,         \* no two publishes of one document at a time
  Restricted,    \* documents for some groups only
  MaxPublishes,  \* bound on publishes
  MaxFaults,     \* bound on requests that fail, kills and restarts
  MaxReaders     \* bound on what people do on the platform

None == 0   \* no page, no document, no text

ASSUME ProviderAssumption ==
  /\ None \notin Docs \cup Texts
  /\ MaxPublishes \in Nat /\ MaxFaults \in Nat /\ MaxReaders \in Nat
=============================================================================
