----------------------------- MODULE DraftLedger -----------------------------
(***************************************************************************)
(* What summarizing promises for each batch, without listing, locking or   *)
(* rows: a batch handed over is worked on by one process at a time, and    *)
(* only while no other batch is; it is given up after MaxAttempts or a     *)
(* refusal; once it has a draft it is never worked on again.  A process    *)
(* that dies while it works on a batch loses it.                           *)
(***************************************************************************)
EXTENDS Naturals

CONSTANTS Items, MaxAttempts

VARIABLES fate, tries

ledgerVars == <<fate, tries>>

LInit == fate = [i \in Items |-> "new"] /\ tries = [i \in Items |-> 0]

Move(i, from, to) == fate[i] = from /\ fate' = [fate EXCEPT ![i] = to]

Submit(i) == Move(i, "new", "waiting") /\ UNCHANGED tries

\* Nothing was left in it.
Discard(i) == Move(i, "waiting", "dropped") /\ UNCHANGED tries

Begin(i) ==
  /\ \A j \in Items : fate[j] # "drafting"
  /\ tries[i] < MaxAttempts
  /\ Move(i, "waiting", "drafting")
  /\ tries' = [tries EXCEPT ![i] = @ + 1]

Deliver(i) == Move(i, "drafting", "drafted") /\ UNCHANGED tries

Fail(i) ==
  /\ Move(i, "drafting", IF tries[i] < MaxAttempts THEN "waiting" ELSE "dropped")
  /\ UNCHANGED tries

Refuse(i) ==
  /\ Move(i, "drafting", "dropped")
  /\ tries' = [tries EXCEPT ![i] = MaxAttempts]

Lose(i) == Move(i, "drafting", "lost") /\ UNCHANGED tries

LNext ==
  \E i \in Items :
    \/ Submit(i) \/ Discard(i) \/ Begin(i) \/ Deliver(i)
    \/ Fail(i) \/ Refuse(i) \/ Lose(i)

LSpec == LInit /\ [][LNext]_ledgerVars
=============================================================================
