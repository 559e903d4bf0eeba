---------------------------- MODULE MCServerPage ----------------------------
(***************************************************************************)
(* ServerPage in two halves, which share failures and kills: a machine     *)
(* that changes, without passwords; and passwords recorded, pushed and     *)
(* shown under a changing policy, on a machine that does not change.       *)
(* Runs that overlap are followed for as many runs as the bound allows.    *)
(***************************************************************************)
EXTENDS ServerPage

CONSTANTS
  RunsWithPasswords,  \* runs in the second half
  RunsOverlapping     \* runs in all when two overlap

ChangingMachine ==
  /\ machine = 1 /\ moves = 0 /\ runs = 0 /\ recorded = MaxPasswords /\ changes = MaxPolicies
  /\ policy = CHOOSE mode \in Modes : TRUE

Passwords ==
  /\ machine = CHOOSE state \in States : TRUE
  /\ moves = MaxChanges /\ runs = MaxSnapshots - RunsWithPasswords
  /\ recorded = 0 /\ changes = 0

MCInit == Init /\ (ChangingMachine \/ Passwords)

FewOverlap == overlapped => runs <= RunsOverlapping

MCSpec == MCInit /\ [][Next]_vars /\ Fairness
=============================================================================
