---------------------------- MODULE ServerPage -----------------------------
(***************************************************************************)
(* Snapshots of this machine and its page (internal/snapshot, the snapshot *)
(* command and the timer's hook).  A run collects the machine's state, has *)
(* its directories explained, compares it with the latest stored snapshot, *)
(* stores it and, when something material changed, publishes the page.     *)
(* The timer's runs hold the worker's lock, a command's do not.            *)
(***************************************************************************)
EXTENDS Credentials

CONSTANTS
  Timer,         \* the timer's run
  Commands,      \* `codeument snapshot` processes
  States,        \* states of the machine: how full its disk is
  Far,           \* a change by that much is material
  Near, Full,    \* so is one by Near, or past Full, to a disk that is full
  MaxChanges,    \* bound on changes of the machine
  MaxSnapshots   \* bound on runs

ASSUME ServerPageAssumption ==
  /\ States \subseteq Nat \ {0} /\ Far \in Nat \ {0} /\ Near \in Nat \ {0} /\ Full \in Nat
  /\ MaxChanges \in Nat /\ MaxSnapshots \in Nat /\ "os" \in Kinds

VARIABLES
  machine,    \* the machine's state
  snaps,      \* snapshots: the stored rows
  due,        \* whether the interval since last_snapshot is over
  explained,  \* snapshot_dir_cache: the state it explains, 0 if none
  page,       \* the server page
  run,        \* the run each process is in
  runs, moves,  \* runs and changes of the machine so far
  overlapped  \* whether a run ever started while another was going on

pageVars == <<machine, snaps, due, explained, page, run, runs, moves, overlapped>>
vars == <<credVars, pageVars>>

Runners == Timer \cup Commands
Unknown == 0   \* no state: before the first snapshot, or not explained

\* What the accounts table shows for a user: a mode, and the key of the password.
Shown == [mode : Modes \cup {"reference"}, key : Keys \cup {<<>>}]
Reference == [mode |-> "reference", key |-> <<>>]

\* taken orders rows by taken_at; from is the state of the snapshot it was
\* compared with.
Snap == [taken : 1..MaxSnapshots, state : States, from : States \cup {Unknown},
         material : BOOLEAN, published : BOOLEAN]

NoRun == [pc |-> "idle"]

\* The page: the snapshot it shows (0: none yet), its explanations and accounts.
PageRecord == [taken : 0..MaxSnapshots, note : States \cup {Unknown},
               creds : [Users -> Shown]]

ServerPageTypeOK ==
  /\ CredentialsTypeOK
  /\ machine \in States /\ due \in BOOLEAN /\ moves \in 0..MaxChanges
  /\ snaps \subseteq Snap /\ \A s, t \in snaps : s.taken = t.taken => s = t
  /\ explained \in States \cup {Unknown}
  /\ page \in PageRecord
  /\ \A p \in Runners :
       run[p] = NoRun \/
         /\ run[p].pc \in {"latest", "explain", "store", "mark", "policy",
                           "creds", "pushed", "record"}
         /\ run[p].snap \in Snap /\ run[p].note \in States \cup {Unknown}
         /\ run[p].mode \in Modes \cup {"reference"} /\ run[p].creds \in [Users -> Shown] /\ run[p].left \subseteq Users
         /\ run[p].flags \subseteq {"publish", "force", "dryRun", "noLLM"}

\* The bounds may be used up in part: moves and runs count from anywhere.
ServerPageInit ==
  /\ machine \in States /\ snaps = {} /\ due = TRUE /\ explained = Unknown
  /\ page = [taken |-> 0, note |-> Unknown, creds |-> [u \in Users |-> Reference]]
  /\ run = [p \in Runners |-> NoRun]
  /\ runs \in 0..MaxSnapshots /\ moves \in 0..MaxChanges /\ overlapped = FALSE

Init == CredentialsInit /\ ServerPageInit

----------------------------------------------------------------------------
Goto(p, pc) == run' = [run EXCEPT ![p].pc = pc]
End(p) == run' = [run EXCEPT ![p] = NoRun]
Running(p) == run[p] # NoRun

\* snapshot.Collect.
Collect(p, flags) ==
  /\ ~Running(p) /\ runs < MaxSnapshots
  /\ runs' = runs + 1
  /\ run' = [run EXCEPT ![p] =
       [pc |-> "latest", flags |-> flags, note |-> Unknown, left |-> Users,
        creds |-> [u \in Users |-> Reference], mode |-> "reference", id |-> 0, got |-> "reference",
        snap |-> [taken |-> runs + 1, state |-> machine, from |-> Unknown,
                  material |-> FALSE, published |-> FALSE]]]
  /\ overlapped' = (overlapped \/ \E q \in Runners : Running(q))
  /\ UNCHANGED <<credVars, machine, snaps, due, explained, page, moves>>

\* The hook runs when the interval is over; snapshot.publish may be off.
TimerRun(p) == due /\ \E flags \in {{}, {"publish"}} : Collect(p, flags)

Command(p) ==
  \E flags \in {{}, {"publish"}, {"publish", "force"}, {"dryRun"}, {"publish", "noLLM"}} :
    Collect(p, flags)

NewestOf(rows) ==
  IF rows = {} THEN {Unknown}
  ELSE {s.state : s \in {t \in rows : \A other \in rows : other.taken <= t.taken}}

\* Mutant: compares with what was published last.
LatestPublished == NewestOf({s \in snaps : s.published})
\* LatestSnapshot: the state of the newest row.
LatestState == NewestOf(snaps)

Latest(p) ==
  /\ run[p].pc = "latest"
  /\ \E state \in LatestState :
       run' = [run EXCEPT ![p].pc = "explain", ![p].snap.from = state]
  /\ UNCHANGED <<credVars, machine, snaps, due, explained, page, runs, moves, overlapped>>

\* The cache has an explanation of the same content.
HasNote(state) == explained = state

\* Whether Compare calls a change material: smaller ones are noise.
Moved(before, after) ==
  LET by(n) == after >= before + n \/ before >= after + n
  IN by(Far) \/ (after >= Full /\ (by(Near) \/ before < Full))

\* Mutant: the first snapshot changes nothing.
MaterialSinceFirst(snap) == snap.from # Unknown /\ Moved(snap.from, snap.state)
\* snapshot.Compare with the latest stored snapshot; the first one is material.
Material(snap) == snap.from = Unknown \/ Moved(snap.from, snap.state)

\* Explain, then Compare.  An engine that fails leaves the directories without
\* explanation.
Explain(p) ==
  LET state == run[p].snap.state
      next(note) == [run[p] EXCEPT !.pc = "store", !.note = note,
                                   !.snap.material = Material(run[p].snap)]
      with(note) == run' = [run EXCEPT ![p] =
                              IF "dryRun" \in run[p].flags THEN NoRun ELSE next(note)]
  IN /\ run[p].pc = "explain"
     /\ \/ /\ "noLLM" \in run[p].flags
           /\ with(Unknown) /\ UNCHANGED <<explained, failures>>
        \/ /\ "noLLM" \notin run[p].flags /\ HasNote(state)
           /\ with(explained) /\ UNCHANGED <<explained, failures>>
        \/ /\ "noLLM" \notin run[p].flags /\ ~HasNote(state)
           /\ \/ explained' = state /\ with(state) /\ UNCHANGED failures
              \/ CanFail /\ with(Unknown) /\ UNCHANGED explained
     /\ UNCHANGED <<row, manager, push, policy, cached, recorded, changes, machine,
                    snaps, due, page, runs, moves, overlapped>>

\* Mutant: a second save of a snapshot adds a row.
AddSnapshot(snap) == snaps' = snaps \cup {snap}
\* SaveSnapshot replaces the row of the same id.
SaveSnapshot(snap) == snaps' = {s \in snaps : s.taken # snap.taken} \cup {snap}

StoreSnapshot(p) ==
  /\ run[p].pc = "store"
  /\ SaveSnapshot(run[p].snap)
  /\ Goto(p, "mark")
  /\ UNCHANGED <<credVars, machine, due, explained, page, runs, moves, overlapped>>

\* SetKV last_snapshot; then whether there is anything to publish.
MarkRun(p) ==
  /\ run[p].pc = "mark"
  /\ due' = FALSE
  /\ IF "publish" \in run[p].flags /\ (run[p].snap.material \/ "force" \in run[p].flags)
     THEN Goto(p, "policy") ELSE End(p)
  /\ UNCHANGED <<credVars, machine, snaps, explained, page, runs, moves, overlapped>>

----------------------------------------------------------------------------
\* The accounts table (serverDocument, credentialResolver)

\* A command on a terminal may ask for a password that is missing first.
Prompt(p) ==
  /\ run[p].pc = "policy" /\ p \in Commands
  /\ \E u \in Users : Cached(u) = {} /\ Put(<<u, "os">>)
  /\ UNCHANGED <<manager, push, policy, cached, failures, changes, pageVars>>

ReadPolicy(p) ==
  LET with(mode) == run' = [run EXCEPT ![p].pc = "creds", ![p].mode = mode]
  IN /\ run[p].pc = "policy"
     /\ Policy(with(policy), with(cached))
     /\ UNCHANGED <<row, manager, push, policy, cached, recorded, changes, machine,
                    snaps, due, explained, page, runs, moves, overlapped>>

\* What is shown when the password could not be stored.
Otherwise == "reference"

\* storedCredential: the newest password of the user, if the policy shows any.
Credential(p, u) ==
  LET r == run[p]
      shown(mode, key) == IF mode = "reference" THEN Reference ELSE [mode |-> mode, key |-> key]
      shows(pc, mode, id, key) ==
        run' = [run EXCEPT ![p] = [r EXCEPT !.pc = pc, !.left = r.left \ {u}, !.id = id,
                  !.got = mode, !.creds = [r.creds EXCEPT ![u] = shown(mode, key)]]]
  IN /\ r.pc = "creds" /\ u \in r.left
     /\ \/ /\ r.mode = "reference" \/ Cached(u) = {}
           /\ shows("creds", "reference", 0, <<>>) /\ UNCHANGED <<manager, failures>>
        \/ \E k \in Newest(u) :
             /\ r.mode = "inline"
             /\ shows("creds", "inline", row[k].id, k) /\ UNCHANGED <<manager, failures>>
        \/ \E k \in Newest(u) :
             /\ r.mode = "manager"
             /\ Store(k, row[k].password, shows("pushed", policy, row[k].id, k),
                      shows("creds", Otherwise, row[k].id, k))
     /\ UNCHANGED <<row, push, policy, cached, recorded, changes, machine, snaps,
                    due, explained, page, runs, moves, overlapped>>

MarkCredential(p) ==
  /\ run[p].pc = "pushed"
  /\ MarkPushed(run[p].id, run[p].got)
  /\ Goto(p, "creds")
  /\ UNCHANGED <<manager, push, policy, cached, recorded, failures, changes, machine,
                 snaps, due, explained, page, runs, moves, overlapped>>

----------------------------------------------------------------------------
\* Engine.Publish: an error ends the run, whether the page was written or not.
Publish(p) ==
  LET r == run[p]
      written == [taken |-> r.snap.taken, note |-> r.note, creds |-> r.creds]
  IN /\ r.pc = "creds" /\ r.left = {}
     /\ \/ page' = written /\ Goto(p, "record") /\ UNCHANGED failures
        \/ page' \in {page, written} /\ End(p) /\ CanFail
     /\ UNCHANGED <<row, manager, push, policy, cached, recorded, changes, machine,
                    snaps, due, explained, runs, moves, overlapped>>

RecordPublished(p) ==
  /\ run[p].pc = "record"
  /\ SaveSnapshot([run[p].snap EXCEPT !.published = TRUE])
  /\ End(p)
  /\ UNCHANGED <<credVars, machine, due, explained, page, runs, moves, overlapped>>

KillRun(p) ==
  /\ Running(p) /\ CanFail
  /\ End(p)
  /\ UNCHANGED <<row, manager, push, policy, cached, recorded, changes, machine, snaps,
                 due, explained, page, runs, moves, overlapped>>

MachineChanges ==
  /\ moves < MaxChanges /\ moves' = moves + 1
  /\ machine' \in States \ {machine}
  /\ UNCHANGED <<credVars, snaps, due, explained, page, run, runs, overlapped>>

TimePasses ==
  /\ ~due /\ due' = TRUE
  /\ UNCHANGED <<credVars, machine, snaps, explained, page, run, runs, moves, overlapped>>

----------------------------------------------------------------------------
RunStep(p) ==
  \/ Latest(p) \/ Explain(p) \/ StoreSnapshot(p) \/ MarkRun(p) \/ ReadPolicy(p)
  \/ \E u \in Users : Credential(p, u)
  \/ MarkCredential(p) \/ Publish(p) \/ RecordPublished(p)

Next ==
  \/ CredentialsNext /\ UNCHANGED pageVars
  \/ \E p \in Timer : TimerRun(p)
  \/ \E p \in Commands : Command(p) \/ Prompt(p)
  \/ \E p \in Runners : RunStep(p) \/ KillRun(p)
  \/ MachineChanges \/ TimePasses

Spec == Init /\ [][Next]_vars

\* The timer fires whenever the interval is over, and a run goes on.
Fairness ==
  /\ WF_vars(TimePasses)
  /\ \A p \in Timer : WF_vars(TimerRun(p))
  /\ \A p \in Runners : WF_vars(RunStep(p))

FairSpec == Spec /\ Fairness

----------------------------------------------------------------------------
\* Properties

\* Rows s and t follow each other in the history.
Consecutive(s, t) ==
  s.taken < t.taken /\ \A other \in snaps : ~(s.taken < other.taken /\ other.taken < t.taken)

\* "when something material changed" (README): unless runs overlapped, the first
\* snapshot, and each whose state moved since the one before it in the history, is
\* recorded as material, whatever was published, failed or changed back between.
HistoryHasEveryChange ==
  ~overlapped => \A t \in snaps :
    \/ t.material
    \/ \E s \in snaps : Consecutive(s, t) /\ ~Moved(s.state, t.state)

\* Neither the cache nor the page points at the password manager for a password
\* that is not there, whatever failed and however the policy changed meanwhile.
ManagerReferencesLead ==
  /\ PushedIsStored
  /\ \A u \in Users : page.creds[u].mode = "manager" => manager[page.creds[u].key] # NoPassword

\* Every snapshot from the page's to the n-th has moved little since the one before it.
Drifted(n) ==
  /\ page.taken > 0
  /\ \A s, t \in snaps : page.taken <= s.taken /\ t.taken <= n /\ Consecutive(s, t)
       => ~Moved(s.state, t.state)

\* A material snapshot newer than the page was not published, and its run is over.
Dropped(n) ==
  \E s \in snaps : /\ page.taken < s.taken /\ s.taken <= n /\ s.material /\ ~s.published
                  /\ \A p \in Runners : Running(p) => run[p].snap.taken # s.taken

\* "keeps a page up to date" (README): what was stored is on the page in the end,
\* or something newer, or something all later snapshots drifted from in small
\* steps.  Only a run whose publish failed or was not wanted, or two runs at
\* once, keep a change from the page.
PageCatchesUp ==
  \A n \in 1..MaxSnapshots :
    (\E s \in snaps : s.taken = n) ~> page.taken >= n \/ Drifted(n) \/ Dropped(n) \/ overlapped
=============================================================================
