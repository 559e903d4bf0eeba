----------------------------- MODULE MCCommands -----------------------------
(***************************************************************************)
(* Commands for Ingest, as Classification has them: the families that the  *)
(* triggers do not tell apart are one.                                     *)
(***************************************************************************)
LOCAL INSTANCE Classification

LOCAL Command(family, weight, milestone) ==
  [family |-> family, weight |-> weight, milestone |-> milestone, meaningful |-> weight > 0]

Edit == Command("config", 3, FALSE)
Restart == Command("service", 5, FALSE)
Commit == Command("other", 5, TRUE)
Look == Command("other", 0, FALSE)

LOCAL Words(words) == [words |-> words, args |-> {}, redirects |-> {}]
LOCAL Vim == [Words(<<"vim", "/etc/hosts">>) EXCEPT !.args = {"config"}]

LOCAL Classified(segments, sudo) ==
  [Classify(segments, sudo, [ignore |-> {}, unignore |-> {}, weights |-> <<>>])
     EXCEPT !.family = IF @ \in {"service", "config"} THEN @ ELSE "other"]

ASSUME CommandsAreClassified ==
  /\ Edit = Classified(<<Words(<<"cat", "hosts">>), Vim>>, FALSE)      \* cat hosts; vim /etc/hosts
  /\ Restart = Classified(<<Words(<<"systemctl", "reload", "nginx">>)>>, TRUE)  \* with sudo
  /\ Commit = Classified(<<Words(<<"git", "commit", "-a">>)>>, FALSE)
  /\ Look = Classified(<<Words(<<"cat", "hosts">>), Words(<<"tmux">>)>>, FALSE)  \* cat hosts | tmux
=============================================================================
