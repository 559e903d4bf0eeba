----------------------------- MODULE PageStore -----------------------------
(***************************************************************************)
(* What a docs.Provider promises its callers: one text per document id,    *)
(* written whole by a publish; and success only once that is written and   *)
(* the page it is found on is for its groups only.  A publish that failed, *)
(* or was cut off, may or may not have written.  Readers of the platform   *)
(* may take a page away.                                                   *)
(***************************************************************************)
CONSTANTS Docs, Restricted, Texts, Nothing

VARIABLES
  content,  \* what Find and Get return for a document, Nothing if no page
  open,     \* whether everyone may read that page
  request   \* the publish in hand for a document, if any

Idle == [state |-> "idle"]

Init ==
  /\ content = [d \in Docs |-> Nothing]
  /\ open = [d \in Docs |-> FALSE]
  /\ request = [d \in Docs |-> Idle]

Ask(d, t) ==
  /\ request[d] = Idle
  /\ request' = [request EXCEPT ![d] = [state |-> "asked", text |-> t]]
  /\ UNCHANGED <<content, open>>

\* One request of a publish, and the last one's outcome.
Work(d) ==
  /\ request[d].state \in {"asked", "written"}
  /\ content' \in {content, [content EXCEPT ![d] = request[d].text]}
  /\ \E o \in BOOLEAN : open' = [open EXCEPT ![d] = o]
  /\ \E s \in {"asked", "written", "failed", "succeeded"} :
       /\ request' = [request EXCEPT ![d].state = s]
       /\ s \in {"written", "succeeded"}
            => request[d].state = "written" \/ content'[d] = request[d].text
       /\ s = "succeeded" /\ d \in Restricted => ~open'[d]

\* The publish is over: answered, or its process was killed.
End(d) ==
  /\ request[d] # Idle
  /\ request' = [request EXCEPT ![d] = Idle]
  /\ UNCHANGED <<content, open>>

Remove(d) ==
  /\ content' = [content EXCEPT ![d] = Nothing]
  /\ open' = [open EXCEPT ![d] = FALSE]
  /\ UNCHANGED request

Next ==
  \E d \in Docs : (\E t \in Texts : Ask(d, t)) \/ Work(d) \/ End(d) \/ Remove(d)

Spec == Init /\ [][Next]_<<content, open, request>>
=============================================================================
