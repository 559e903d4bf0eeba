------------------------------ MODULE MCRelay ------------------------------
(***************************************************************************)
(* Relay from three states, each with the bounds on the rest used up:      *)
(* machines that try codes that are used; machines that enrol, with one    *)
(* code that IT made and one it is to make; machines that are enrolled and use  *)
(* the relay.                                                              *)
(***************************************************************************)
EXTENDS Relay, TLC

CONSTANT Enrolments  \* enrolments in the second case

Quiet ==
  /\ attempts = [count |-> 0, start |-> 0] /\ bucket = <<>>
  /\ call = [m \in Machines |-> NoCall] /\ edit = [m \in Machines |-> NoEdit]
  /\ faults = 0 /\ allowed = <<>> /\ admitted = <<>>

Unenrolled ==
  /\ client = <<>> /\ requests = MaxRequests /\ revokes = MaxRevokes
  /\ conf = [m \in Machines |-> {}] /\ token = [m \in Machines |-> None]

Codes1 == CHOOSE c \in Codes : TRUE
CodesAs(state) == [c \in Codes |-> [state |-> state, expires |-> CodeLife]]

Knocking ==
  /\ Quiet /\ Unenrolled /\ now = 0 /\ enrols = 0 /\ edits = MaxEdits /\ raced = FALSE /\ code = CodesAs("used")

Enrolling ==
  /\ Quiet /\ Unenrolled /\ now = MaxTime - 1 /\ enrols = MaxEnrols - Enrolments /\ edits = 0 /\ raced = TRUE
  /\ code = [c \in Codes |-> IF c = Codes1 THEN [state |-> "open", expires |-> now]
                                            ELSE [state |-> "none", expires |-> 0]]

\* The machines, and the codes they used, by number.
Numbered(S) == CHOOSE f \in [1..Cardinality(S) -> S] : \A i, j \in DOMAIN f : f[i] = f[j] => i = j

Using ==
  /\ Quiet /\ now = 0 /\ enrols = MaxEnrols /\ edits = MaxEdits /\ requests = 0 /\ revokes = 0 /\ raced = TRUE /\ code = CodesAs("used")
  /\ client = [i \in 1..Cardinality(Machines) |-> [code |-> Numbered(Codes)[i], revoked |-> FALSE]]
  /\ conf = [m \in Machines |-> ConfigKeys]
  /\ token = [m \in Machines |-> CHOOSE i \in 1..Cardinality(Machines) : Numbered(Machines)[i] = m]

MCSpec ==
  /\ Knocking \/ Enrolling \/ Using
  /\ [][Next]_vars
  /\ \A m \in Machines : WF_vars(EnrollStep(m)) /\ WF_vars(RequestStep(m))
=============================================================================
