-------------------------- MODULE ServerPageProofs --------------------------
(***************************************************************************)
(* Proofs about ServerPage and Credentials, for any number of accounts,    *)
(* passwords, pushes, runs, failures and changes of policy or machine.     *)
(***************************************************************************)
EXTENDS ServerPage, TLAPS

Mode == Modes \cup {"reference", "no", "manager", "inline"}
CredRow == [id : Nat, password : Nat, at : Nat, pushed : Mode]
Entry == Keys \X CredRow
Pushing == [pc : {"idle", "next", "mark"}, left : SUBSET Entry, row : CredRow, mode : Mode]
ShownAs == [mode : Mode, key : Keys \cup {<<>>}]
Taken == [taken : Nat, state : Nat, from : Nat, material : BOOLEAN, published : BOOLEAN]
Flags == {"publish", "force", "dryRun", "noLLM"}
RunPc == {"latest", "explain", "store", "mark", "policy", "creds", "pushed", "record"}
Run == [pc : RunPc, flags : SUBSET Flags, note : Nat, left : SUBSET Users,
        creds : [Users -> ShownAs], mode : Mode, id : Nat, got : Mode, snap : Taken]

\* Types of what passwords need.
CredType ==
  /\ row \in [Keys -> CredRow] /\ manager \in [Keys -> Nat]
  /\ push \in [Pushers -> Pushing]
  /\ policy \in Modes /\ cached \in Modes /\ recorded \in Nat

\* Types of what snapshots need.
PageType ==
  /\ machine \in Nat \ {0} /\ snaps \subseteq Taken /\ explained \in Nat /\ runs \in Nat
  /\ page \in [taken : Nat, note : Nat, creds : [Users -> ShownAs]]
  /\ run \in [Runners -> {NoRun} \cup Run]

TypeInv == CredType /\ PageType

----------------------------------------------------------------------------
\* What is written into a row, a push or a run has its type

\* A process without a run is idle.
LEMMA NoRunIsNone == NoRun \notin Run /\ NoRun.pc = "idle"
<1>1. NoRun.pc = "idle" BY DEF NoRun
<1>2. \A r \in Run : r.pc # "idle" BY DEF Run, RunPc
<1> QED BY <1>1, <1>2

\* The empty row of the cache.
LEMMA NoRowTyped == NoRow \in CredRow /\ NoRow.id = 0 /\ NoRow.pushed = "no"
BY DEF NoRow, CredRow, NoPassword, Mode

\* A process that runs has a run.
LEMMA InRun ==
  ASSUME PageType, NEW p \in Runners, run[p].pc # "idle"
  PROVE  run[p] \in Run
BY NoRunIsNone DEF PageType

\* A step of one run.
LEMMA RunTyped ==
  ASSUME PageType, NEW p \in Runners, NEW r \in {NoRun} \cup Run, run' = [run EXCEPT ![p] = r]
  PROVE  run' \in [Runners -> {NoRun} \cup Run]
BY DEF PageType

\* Put and MarkPushed write rows.
LEMMA PutTyped ==
  ASSUME CredType, NEW k \in Keys, Put(k)
  PROVE  row' \in [Keys -> CredRow] /\ recorded' = recorded + 1 /\ recorded' \in Nat
<1> DEFINE new == [id |-> IF row[k] = NoRow THEN recorded + 1 ELSE row[k].id,
                   password |-> recorded + 1, at |-> recorded + 1, pushed |-> "no"]
<1>1. row[k] \in CredRow /\ recorded \in Nat
  BY DEF CredType
<1>2. row[k].id \in Nat
  BY <1>1 DEF CredRow
<1>3. new \in CredRow
  BY <1>1, <1>2 DEF CredRow, Mode
<1>4. row' = [row EXCEPT ![k] = new] /\ recorded' = recorded + 1
  BY DEF Put
<1> HIDE DEF new
<1> QED BY <1>1, <1>3, <1>4 DEF CredType

LEMMA MarkTyped ==
  ASSUME CredType, NEW id, NEW mode \in Mode, MarkPushed(id, mode)
  PROVE  row' \in [Keys -> CredRow]
<1>1. \A c \in CredRow : [c EXCEPT !.pushed = mode] \in CredRow
  BY DEF CredRow
<1> QED BY <1>1 DEF CredType, MarkPushed

\* What StoreCredential leaves in the manager.
LEMMA StoreTyped ==
  ASSUME CredType, NEW k \in Keys, NEW password \in Nat,
         \/ manager' = IF policy = "manager" THEN [manager EXCEPT ![k] = password] ELSE manager
         \/ manager' = manager
  PROVE  manager' \in [Keys -> Nat]
BY DEF CredType

\* Every step of the cache and of the pushes keeps its types.
LEMMA CredentialsTyped ==
  ASSUME CredType, CredentialsNext
  PROVE  CredType'
<1>1. \A p \in Pushers : push[p] \in Pushing
  BY DEF CredType
<1>2. ASSUME NEW k \in Keys, Record(k) PROVE CredType'
  <2>1. Put(k)
    BY <1>2 DEF Record
  <2>2. row' \in [Keys -> CredRow] /\ recorded' \in Nat
    BY <2>1, PutTyped
  <2> QED BY <1>2, <2>2 DEF CredType, Record
<1>3. CASE ForgetCredentials
  <2>1. row' \in [Keys -> CredRow]
    BY <1>3, NoRowTyped DEF CredType, ForgetCredentials
  <2> QED BY <1>3, <2>1 DEF CredType, ForgetCredentials
<1>4. CASE PolicyChanges
  BY <1>4 DEF CredType, PolicyChanges
<1>5. CASE RefreshDefaults
  BY <1>5 DEF CredType, RefreshDefaults
<1>6. ASSUME NEW p \in Pushers, PushList(p) PROVE CredType'
  <2> DEFINE entries == {<<k, row[k]>> : k \in {l \in Keys : row[l] # NoRow}}
             q == [push[p] EXCEPT !.pc = "next", !.left = entries]
  <2>1. entries \subseteq Entry
    BY DEF Entry, CredType
  <2>2. \A S \in SUBSET Entry : [push[p] EXCEPT !.pc = "next", !.left = S] \in Pushing
    BY <1>1 DEF Pushing
  <2>3. q \in Pushing
    <3> HIDE DEF entries
    <3> QED BY <2>1, <2>2
  <2>4. push' = [push EXCEPT ![p] = q]
    BY <1>6 DEF PushList, Policy
  <2>5. push' \in [Pushers -> Pushing]
    <3> HIDE DEF q
    <3> QED BY <2>3, <2>4 DEF CredType
  <2> QED BY <1>6, <2>5 DEF CredType, PushList
<1>7. ASSUME NEW p \in Pushers, PushStore(p) PROVE CredType'
  <2>1. PICK e \in push[p].left :
          Store(e[1], e[2].password,
                push' = [push EXCEPT ![p] = [pc |-> "mark", left |-> push[p].left \ {e},
                                             row |-> e[2], mode |-> policy]],
                push' = [push EXCEPT ![p] = [pc |-> AfterFailure, left |-> push[p].left \ {e},
                                             row |-> e[2], mode |-> "manager"]])
    BY <1>7 DEF PushStore
  <2>2. e \in Entry /\ push[p].left \subseteq Entry
    BY <1>1 DEF Pushing
  <2>3. e[1] \in Keys /\ e[2] \in CredRow
    BY <2>2 DEF Entry
  <2>4. e[2].password \in Nat
    BY <2>3 DEF CredRow
  <2>5. manager' \in [Keys -> Nat]
    BY <2>1, <2>3, <2>4, StoreTyped DEF Store
  <2>6. policy \in Mode /\ "manager" \in Mode
    BY DEF CredType, Mode
  <2>7. push' \in [Pushers -> Pushing]
    <3>1. \A pc \in {"next", "mark"}, mode \in Mode :
            [pc |-> pc, left |-> push[p].left \ {e}, row |-> e[2], mode |-> mode] \in Pushing
      BY <2>2, <2>3 DEF Pushing
    <3> QED BY <2>1, <2>6, <3>1 DEF Store, AfterFailure, CredType
  <2> QED BY <1>7, <2>5, <2>7 DEF CredType, PushStore
<1>8. ASSUME NEW p \in Pushers, PushMark(p) PROVE CredType'
  <2>1. [push[p] EXCEPT !.pc = "next"] \in Pushing /\ push[p].mode \in Mode
    BY <1>1 DEF Pushing
  <2>2. row' \in [Keys -> CredRow]
    BY <1>8, <2>1, MarkTyped DEF PushMark
  <2>3. push' = [push EXCEPT ![p] = [push[p] EXCEPT !.pc = "next"]]
    BY <1>8 DEF PushMark
  <2>4. push' \in [Pushers -> Pushing]
    BY <2>1, <2>3 DEF CredType
  <2> QED BY <1>8, <2>2, <2>4 DEF CredType, PushMark
<1>9. ASSUME NEW p \in Pushers, PushEnd(p) PROVE CredType'
  <2>1. Idle \in Pushing
    BY NoRowTyped DEF Idle, Pushing, Mode
  <2> QED BY <1>9, <2>1 DEF CredType, PushEnd
<1> QED BY <1>2, <1>3, <1>4, <1>5, <1>6, <1>7, <1>8, <1>9 DEF CredentialsNext

\* A run begins with nothing shown.
LEMMA CollectTyped ==
  ASSUME PageType, NEW p \in Runners, NEW flags \in SUBSET Flags, Collect(p, flags)
  PROVE  PageType'
<1> DEFINE snap == [taken |-> runs + 1, state |-> machine, from |-> Unknown,
                    material |-> FALSE, published |-> FALSE]
           r == [pc |-> "latest", flags |-> flags, note |-> Unknown, left |-> Users,
                 creds |-> [u \in Users |-> Reference], mode |-> "reference", id |-> 0,
                 got |-> "reference", snap |-> snap]
<1>1. snap \in Taken /\ runs + 1 \in Nat
  BY DEF PageType, Taken, Unknown
<1>2. Reference \in ShownAs
  BY DEF Reference, ShownAs, Mode
<1>3. r \in Run
  <2> HIDE DEF snap
  <2> QED BY <1>1, <1>2 DEF Run, RunPc, Mode, Unknown
<1>4. run' = [run EXCEPT ![p] = r]
  BY DEF Collect
<1> HIDE DEF r
<1>5. run' \in [Runners -> {NoRun} \cup Run]
  BY <1>3, <1>4, RunTyped
<1> QED BY <1>1, <1>5 DEF PageType, Collect

\* The steps of a run that leave the page, the rows and the history alone.
LEMMA GoingTyped ==
  ASSUME PageType, NEW p \in Runners, NEW pc \in RunPc, run[p] \in Run
  PROVE  /\ Goto(p, pc) => run' \in [Runners -> {NoRun} \cup Run]
         /\ End(p) => run' \in [Runners -> {NoRun} \cup Run]
<1>1. [run[p] EXCEPT !.pc = pc] \in Run
  BY DEF Run
<1>2. Goto(p, pc) => run' = [run EXCEPT ![p] = [run[p] EXCEPT !.pc = pc]]
  BY DEF Goto
<1> QED BY <1>1, <1>2, RunTyped DEF End

\* The steps from the latest snapshot to the stored row, and the last one.
LEMMA SnapshotTyped ==
  ASSUME TypeInv, NEW p \in Runners,
         Latest(p) \/ Explain(p) \/ StoreSnapshot(p) \/ MarkRun(p) \/ RecordPublished(p)
  PROVE  TypeInv'
<1>1. CredType /\ PageType /\ run[p] \in Run
  BY InRun DEF TypeInv, Latest, Explain, StoreSnapshot, MarkRun, RecordPublished
<1>2. run[p].snap \in Taken
  BY <1>1 DEF Run
<1>3. CASE Latest(p)
  <2>1. PICK state \in LatestState :
          run' = [run EXCEPT ![p].pc = "explain", ![p].snap.from = state]
    BY <1>3 DEF Latest
  <2> DEFINE snap == [run[p].snap EXCEPT !.from = state]
             r == [run[p] EXCEPT !.pc = "explain", !.snap = snap]
  <2>2. state \in Nat
    BY <1>1 DEF LatestState, NewestOf, PageType, Taken, Unknown
  <2>3. snap \in Taken
    BY <1>2, <2>2 DEF Taken
  <2>4. r \in Run
    <3> HIDE DEF snap
    <3> QED BY <1>1, <2>3 DEF Run, RunPc
  <2>5. run' = [run EXCEPT ![p] = r]
    BY <2>1
  <2>6. run' \in [Runners -> {NoRun} \cup Run]
    <3> HIDE DEF r
    <3> QED BY <1>1, <2>4, <2>5, RunTyped
  <2> QED BY <1>1, <1>3, <2>6 DEF TypeInv, CredType, PageType, Latest, credVars
<1>4. CASE Explain(p)
  <2> DEFINE snap == [run[p].snap EXCEPT !.material = Material(run[p].snap)]
             next(note) == [run[p] EXCEPT !.pc = "store", !.note = note, !.snap = snap]
  <2>1. PICK note \in {Unknown, explained, run[p].snap.state} :
          run' = [run EXCEPT ![p] = IF "dryRun" \in run[p].flags THEN NoRun ELSE
                    [run[p] EXCEPT !.pc = "store", !.note = note,
                                   !.snap.material = Material(run[p].snap)]]
    BY <1>4 DEF Explain
  <2>2. note \in Nat /\ run[p].snap.state \in Nat
    BY <1>1, <1>2 DEF Unknown, PageType, Taken
  <2>3. snap \in Taken
    BY <1>2 DEF Taken, Material, Moved
  <2>4. next(note) \in Run
    <3> HIDE DEF snap
    <3> QED BY <1>1, <2>2, <2>3 DEF Run, RunPc
  <2>5. run' = [run EXCEPT ![p] = IF "dryRun" \in run[p].flags THEN NoRun ELSE next(note)]
    BY <2>1
  <2>6. run' \in [Runners -> {NoRun} \cup Run]
    <3> HIDE DEF next
    <3> QED BY <1>1, <2>4, <2>5, RunTyped
  <2>7. explained' \in Nat
    BY <1>1, <1>4, <2>2 DEF PageType, Explain
  <2> QED BY <1>1, <1>4, <2>6, <2>7 DEF TypeInv, CredType, PageType, Explain
<1>5. CASE StoreSnapshot(p)
  <2>1. run' \in [Runners -> {NoRun} \cup Run]
    BY <1>1, <1>5, GoingTyped DEF StoreSnapshot, RunPc
  <2>2. snaps' \subseteq Taken
    BY <1>1, <1>2, <1>5 DEF StoreSnapshot, SaveSnapshot, PageType
  <2> QED BY <1>1, <1>5, <2>1, <2>2 DEF TypeInv, CredType, PageType, StoreSnapshot, credVars
<1>6. CASE MarkRun(p)
  <2>1. run' \in [Runners -> {NoRun} \cup Run]
    BY <1>1, <1>6, GoingTyped DEF MarkRun, RunPc
  <2> QED BY <1>1, <1>6, <2>1 DEF TypeInv, CredType, PageType, MarkRun, credVars
<1>7. CASE RecordPublished(p)
  <2>1. run' \in [Runners -> {NoRun} \cup Run]
    BY <1>1, <1>7, GoingTyped DEF RecordPublished, RunPc
  <2>2. [run[p].snap EXCEPT !.published = TRUE] \in Taken
    BY <1>2 DEF Taken
  <2>3. snaps' \subseteq Taken
    BY <1>1, <1>7, <2>2 DEF RecordPublished, SaveSnapshot, PageType
  <2> QED BY <1>1, <1>7, <2>1, <2>3 DEF TypeInv, CredType, PageType, RecordPublished, credVars
<1> QED BY <1>3, <1>4, <1>5, <1>6, <1>7

\* What the page will show of a user.
LEMMA ShownTyped ==
  ASSUME NEW r \in Run, NEW u \in Users, NEW pc \in RunPc, NEW shown \in ShownAs,
         NEW id \in Nat, NEW got \in Mode
  PROVE  LET next == [r EXCEPT !.pc = pc, !.left = r.left \ {u}, !.id = id, !.got = got,
                               !.creds = [r.creds EXCEPT ![u] = shown]]
         IN next \in Run /\ next.pc = pc /\ next.id = id /\ next.got = got
            /\ next.creds = [r.creds EXCEPT ![u] = shown] /\ next.snap = r.snap
<1> DEFINE left == r.left \ {u}
           creds == [r.creds EXCEPT ![u] = shown]
<1>1. left \in SUBSET Users /\ creds \in [Users -> ShownAs]
  BY DEF Run
<1> HIDE DEF left, creds
<1>2. LET next == [r EXCEPT !.pc = pc, !.left = left, !.id = id, !.got = got, !.creds = creds]
      IN next \in Run /\ next.pc = pc /\ next.id = id /\ next.got = got
         /\ next.creds = creds /\ next.snap = r.snap
  BY <1>1 DEF Run
<1> QED BY <1>2 DEF left, creds

\* What Credential does: to the run, and to the manager when the user is shown
\* with a link to it, or without.
ShowsUser(p, u, pc, id, got, shown) ==
  run' = [run EXCEPT ![p] =
    [run[p] EXCEPT !.pc = pc, !.left = run[p].left \ {u}, !.id = id, !.got = got,
                   !.creds = [run[p].creds EXCEPT ![u] = shown]]]

NoLink(shown) ==
  /\ shown.mode # "manager"
  /\ \/ manager' = manager
     \/ \E k \in Keys : row[k] # NoRow /\ manager' = [manager EXCEPT ![k] = row[k].password]

StoredFirst(id, got, shown) ==
  \E k \in Keys :
    /\ row[k] # NoRow /\ id = row[k].id
    /\ manager' = IF policy = "manager" THEN [manager EXCEPT ![k] = row[k].password] ELSE manager
    /\ got = policy
    /\ shown.mode = "manager" => policy = "manager" /\ shown.key = k

\* Credential does one of the two.
LEMMA CredentialStep ==
  ASSUME TypeInv, NEW p \in Runners, NEW u \in Users, Credential(p, u)
  PROVE  \E pc \in {"creds", "pushed"}, got \in Mode, id \in Nat, shown \in ShownAs :
           /\ ShowsUser(p, u, pc, id, got, shown)
           /\ \/ pc = "creds" /\ NoLink(shown)
              \/ pc = "pushed" /\ StoredFirst(id, got, shown)
<1> USE DEF ShowsUser, NoLink, StoredFirst
<1>1. \A k \in Keys : row[k].id \in Nat
  BY DEF TypeInv, CredType, CredRow
<1>2. \A k \in Newest(u) : k \in Keys /\ row[k] # NoRow
  BY DEF Newest, Cached
<1>3. \A mode \in Mode, key \in Keys : [mode |-> mode, key |-> key] \in ShownAs
  BY DEF ShownAs
<1>4. Reference \in ShownAs /\ Reference.mode = "reference"
  BY DEF ShownAs, Reference, Mode
<1>5. policy \in Mode /\ "reference" \in Mode /\ "inline" \in Mode /\ 0 \in Nat
  BY DEF TypeInv, CredType, Mode
<1> DEFINE shown(mode, key) == IF mode = "reference" THEN Reference ELSE [mode |-> mode, key |-> key]
           shows(pc, mode, id, key) ==
             run' = [run EXCEPT ![p] =
               [run[p] EXCEPT !.pc = pc, !.left = run[p].left \ {u}, !.id = id, !.got = mode,
                              !.creds = [run[p].creds EXCEPT ![u] = shown(mode, key)]]]
<1>6. CASE shows("creds", "reference", 0, <<>>) /\ UNCHANGED manager
  <2>1. shown("reference", <<>>) = Reference
    OBVIOUS
  <2> QED BY <1>4, <1>5, <1>6, <2>1
<1>7. ASSUME NEW k \in Newest(u), shows("creds", "inline", row[k].id, k), UNCHANGED manager
      PROVE  \E sh \in ShownAs, id \in Nat :
               /\ run' = [run EXCEPT ![p] =
                    [run[p] EXCEPT !.pc = "creds", !.left = run[p].left \ {u}, !.id = id,
                                   !.got = "inline",
                                   !.creds = [run[p].creds EXCEPT ![u] = sh]]]
               /\ sh.mode # "manager"
  <2>1. shown("inline", k) \in ShownAs /\ shown("inline", k).mode = "inline"
    BY <1>2, <1>3, <1>5
  <2> HIDE DEF shown
  <2> QED BY <1>1, <1>2, <1>7, <2>1
<1>8. ASSUME NEW k \in Newest(u),
             Store(k, row[k].password, shows("pushed", policy, row[k].id, k),
                   shows("creds", Otherwise, row[k].id, k))
      PROVE  \/ /\ shows("creds", "reference", row[k].id, k)
                /\ \/ manager' = manager
                   \/ manager' = [manager EXCEPT ![k] = row[k].password]
             \/ /\ shows("pushed", policy, row[k].id, k)
                /\ manager' = IF policy = "manager" THEN [manager EXCEPT ![k] = row[k].password]
                                                    ELSE manager
  <2> HIDE DEF shows
  <2> QED BY <1>8 DEF Store, Otherwise
<1>9. ASSUME NEW k \in Newest(u), shows("pushed", policy, row[k].id, k),
             manager' = IF policy = "manager" THEN [manager EXCEPT ![k] = row[k].password] ELSE manager
      PROVE  \E sh \in ShownAs :
               /\ run' = [run EXCEPT ![p] =
                    [run[p] EXCEPT !.pc = "pushed", !.left = run[p].left \ {u}, !.id = row[k].id,
                                   !.got = policy,
                                   !.creds = [run[p].creds EXCEPT ![u] = sh]]]
               /\ sh.mode = "manager" => policy = "manager" /\ sh.key = k
  <2>1. /\ shown(policy, k) \in ShownAs
        /\ shown(policy, k).mode = "manager" => policy = "manager" /\ shown(policy, k).key = k
    BY <1>2, <1>3, <1>4, <1>5
  <2> HIDE DEF shown
  <2> QED BY <1>9, <2>1
<1>10. ASSUME NEW k \in Newest(u), shows("creds", "reference", row[k].id, k)
       PROVE  run' = [run EXCEPT ![p] =
                [run[p] EXCEPT !.pc = "creds", !.left = run[p].left \ {u}, !.id = row[k].id,
                               !.got = "reference",
                               !.creds = [run[p].creds EXCEPT ![u] = Reference]]]
  BY <1>10
<1>11. \/ shows("creds", "reference", 0, <<>>) /\ UNCHANGED manager
       \/ \E k \in Newest(u) : shows("creds", "inline", row[k].id, k) /\ UNCHANGED manager
       \/ \E k \in Newest(u) : Store(k, row[k].password, shows("pushed", policy, row[k].id, k),
                                      shows("creds", Otherwise, row[k].id, k))
  BY DEF Credential
<1> HIDE DEF shows
<1>12. CASE \E k \in Newest(u) : shows("creds", "inline", row[k].id, k) /\ UNCHANGED manager
  BY <1>5, <1>7, <1>12
<1>13. CASE \E k \in Newest(u) : Store(k, row[k].password, shows("pushed", policy, row[k].id, k),
                                      shows("creds", Otherwise, row[k].id, k))
  <2>1. PICK k \in Newest(u) : Store(k, row[k].password, shows("pushed", policy, row[k].id, k),
                                     shows("creds", Otherwise, row[k].id, k))
    BY <1>13
  <2>2. k \in Keys /\ row[k] # NoRow /\ row[k].id \in Nat
    BY <1>1, <1>2
  <2>3. CASE shows("creds", "reference", row[k].id, k)
    BY <1>4, <1>5, <1>8, <1>10, <2>1, <2>2, <2>3
  <2>4. CASE /\ shows("pushed", policy, row[k].id, k)
             /\ manager' = IF policy = "manager" THEN [manager EXCEPT ![k] = row[k].password] ELSE manager
    <3>1. PICK sh \in ShownAs :
            /\ run' = [run EXCEPT ![p] =
                 [run[p] EXCEPT !.pc = "pushed", !.left = run[p].left \ {u}, !.id = row[k].id,
                                !.got = policy,
                                !.creds = [run[p].creds EXCEPT ![u] = sh]]]
            /\ sh.mode = "manager" => policy = "manager" /\ sh.key = k
      BY <1>9, <2>4
    <3> USE <1>5, <2>2
    <3> WITNESS "pushed" \in {"creds", "pushed"}, policy \in Mode, row[k].id \in Nat, sh \in ShownAs
    <3> QED BY <2>2, <2>4, <3>1
  <2> QED BY <1>8, <2>1, <2>3, <2>4
<1> QED BY <1>6, <1>11, <1>12, <1>13 DEF shows

\* The steps from the policy to the published page, and a kill.
LEMMA AccountsTyped ==
  ASSUME TypeInv, NEW p \in Runners,
         \/ ReadPolicy(p) \/ (\E u \in Users : Credential(p, u)) \/ MarkCredential(p)
         \/ Publish(p) \/ KillRun(p)
  PROVE  TypeInv'
<1>1. CredType /\ PageType /\ run[p] \in Run
  BY InRun, NoRunIsNone
     DEF TypeInv, PageType, ReadPolicy, Credential, MarkCredential, Publish, KillRun, Running
<1>2. CASE ReadPolicy(p)
  <2>1. PICK mode \in {policy, cached} : run' = [run EXCEPT ![p].pc = "creds", ![p].mode = mode]
    BY <1>2 DEF ReadPolicy, Policy
  <2>2. mode \in Mode
    BY <1>1 DEF CredType, Mode
  <2>3. [run[p] EXCEPT !.pc = "creds", !.mode = mode] \in Run
    BY <1>1, <2>2 DEF Run, RunPc
  <2>4. run' = [run EXCEPT ![p] = [run[p] EXCEPT !.pc = "creds", !.mode = mode]]
    BY <2>1
  <2>5. run' \in [Runners -> {NoRun} \cup Run]
    BY <1>1, <2>3, <2>4, RunTyped
  <2> QED BY <1>1, <1>2, <2>5 DEF TypeInv, CredType, PageType, ReadPolicy
<1>3. ASSUME NEW u \in Users, Credential(p, u) PROVE TypeInv'
  <2>1. PICK pc \in {"creds", "pushed"}, got \in Mode, id \in Nat, shown \in ShownAs :
           /\ ShowsUser(p, u, pc, id, got, shown)
           /\ \/ pc = "creds" /\ NoLink(shown)
              \/ pc = "pushed" /\ StoredFirst(id, got, shown)
    BY <1>3, CredentialStep
  <2> DEFINE r == [run[p] EXCEPT !.pc = pc, !.left = run[p].left \ {u}, !.id = id, !.got = got,
                                 !.creds = [run[p].creds EXCEPT ![u] = shown]]
  <2>2. r \in Run
    <3>1. pc \in RunPc
      BY DEF RunPc
    <3> QED BY <1>1, <3>1, ShownTyped
  <2>3. run' \in [Runners -> {NoRun} \cup Run]
    <3>1. run' = [run EXCEPT ![p] = r]
      BY <2>1 DEF ShowsUser
    <3> HIDE DEF r
    <3> QED BY <1>1, <2>2, <3>1, RunTyped
  <2>4. manager' \in [Keys -> Nat]
    <3>1. \A k \in Keys : row[k].password \in Nat
      BY <1>1 DEF CredType, CredRow
    <3>2. \/ manager' = manager
          \/ \E k \in Keys : manager' = [manager EXCEPT ![k] = row[k].password]
      BY <2>1 DEF NoLink, StoredFirst
    <3> QED BY <1>1, <3>1, <3>2 DEF CredType
  <2>5. UNCHANGED <<row, push, policy, cached, recorded, machine, snaps, explained, page, runs>>
    BY <1>3 DEF Credential
  <2> QED BY <1>1, <2>3, <2>4, <2>5 DEF TypeInv, CredType, PageType
<1>4. CASE MarkCredential(p)
  <2>1. run' \in [Runners -> {NoRun} \cup Run]
    BY <1>1, <1>4, GoingTyped DEF MarkCredential, RunPc
  <2>2. run[p].got \in Mode
    BY <1>1 DEF Run
  <2>3. row' \in [Keys -> CredRow]
    BY <1>1, <1>4, <2>2, MarkTyped DEF MarkCredential
  <2> QED BY <1>1, <1>4, <2>1, <2>3 DEF TypeInv, CredType, PageType, MarkCredential
<1>5. CASE Publish(p)
  <2> DEFINE written == [taken |-> run[p].snap.taken, note |-> run[p].note, creds |-> run[p].creds]
  <2>1. run' \in [Runners -> {NoRun} \cup Run]
    BY <1>1, <1>5, GoingTyped DEF Publish, RunPc
  <2>2. run[p].snap \in Taken /\ run[p].note \in Nat /\ run[p].creds \in [Users -> ShownAs]
    BY <1>1 DEF Run
  <2>3. run[p].snap.taken \in Nat
    BY <2>2 DEF Taken
  <2>4. written \in [taken : Nat, note : Nat, creds : [Users -> ShownAs]]
    BY <2>2, <2>3
  <2>5. page' \in {page, written}
    BY <1>5 DEF Publish
  <2>6. page' \in [taken : Nat, note : Nat, creds : [Users -> ShownAs]]
    <3> HIDE DEF written
    <3> QED BY <1>1, <2>4, <2>5 DEF PageType
  <2> QED BY <1>1, <1>5, <2>1, <2>6 DEF TypeInv, CredType, PageType, Publish
<1>6. CASE KillRun(p)
  <2>1. run' \in [Runners -> {NoRun} \cup Run]
    BY <1>1, <1>6, RunTyped DEF KillRun, End
  <2> QED BY <1>1, <1>6, <2>1 DEF TypeInv, CredType, PageType, KillRun
<1> QED BY <1>2, <1>3, <1>4, <1>5, <1>6

\* The types hold at the start, and every step keeps them.
LEMMA TypeInit == Init => TypeInv
<1> SUFFICES ASSUME Init PROVE TypeInv
  OBVIOUS
<1>1. CredType
  <2>1. Idle \in Pushing
    BY NoRowTyped DEF Idle, Pushing, Mode
  <2>2. MaxPasswords \in Nat
    BY CredentialsAssumption
  <2> QED BY <2>1, <2>2, NoRowTyped DEF Init, CredentialsInit, CredType, NoPassword
<1>2. PageType
  <2>1. Reference \in ShownAs
    BY DEF Reference, ShownAs, Mode
  <2>2. [taken |-> 0, note |-> Unknown, creds |-> [u \in Users |-> Reference]]
          \in [taken : Nat, note : Nat, creds : [Users -> ShownAs]]
    BY <2>1 DEF Unknown
  <2>3. machine \in Nat \ {0} /\ runs \in Nat
    BY ServerPageAssumption DEF Init, ServerPageInit
  <2> QED BY <2>2, <2>3 DEF Init, ServerPageInit, PageType, Unknown
<1> QED BY <1>1, <1>2 DEF TypeInv

LEMMA TypeNext ==
  ASSUME TypeInv, [Next]_vars
  PROVE  TypeInv'
<1>1. CASE CredentialsNext /\ UNCHANGED pageVars
  BY <1>1, CredentialsTyped DEF TypeInv, PageType, pageVars
<1>2. ASSUME NEW p \in Runners, NEW flags \in SUBSET Flags, Collect(p, flags) PROVE TypeInv'
  BY <1>2, CollectTyped DEF TypeInv, CredType, Collect, credVars
<1>3. ASSUME NEW p \in Timer, TimerRun(p) PROVE TypeInv'
  BY <1>2, <1>3 DEF TimerRun, Runners, Flags
<1>4. ASSUME NEW p \in Commands, Command(p) PROVE TypeInv'
  BY <1>2, <1>4 DEF Command, Runners, Flags
<1>5. ASSUME NEW p \in Commands, Prompt(p) PROVE TypeInv'
  <2>1. \E k \in Keys : Put(k)
    <3>1. PICK u \in Users : Cached(u) = {} /\ Put(<<u, "os">>)
      BY <1>5 DEF Prompt
    <3>2. <<u, "os">> \in Keys
      BY ServerPageAssumption DEF Keys
    <3> QED BY <3>1, <3>2
  <2> QED BY <1>5, <2>1, PutTyped DEF Prompt, TypeInv, CredType, PageType, pageVars
<1>6. ASSUME NEW p \in Runners, RunStep(p) \/ KillRun(p) PROVE TypeInv'
  BY <1>6, SnapshotTyped, AccountsTyped DEF RunStep
<1>7. CASE MachineChanges \/ TimePasses
  BY <1>7, ServerPageAssumption DEF MachineChanges, TimePasses, TypeInv, CredType, PageType, credVars
<1>8. CASE UNCHANGED vars
  BY <1>8 DEF vars, credVars, pageVars, TypeInv, CredType, PageType
<1> QED BY <1>1, <1>3, <1>4, <1>5, <1>6, <1>7, <1>8 DEF Next

----------------------------------------------------------------------------
\* References to the password manager.  Everything is said of a table rows,
\* what the manager has, and the last row id.

\* The id is, and stays, that of k's row.
Owned(rows, last, id, k) == id \in 1..last /\ \A l \in Keys : rows[l].id = id => l = k

\* The row with the id, if there is one, has a password in the manager.
Kept(rows, has, last, id) ==
  id \in 1..last /\ \A k \in Keys : rows[k].id = id => has[k] # NoPassword

Leads(has, shown) == shown.mode = "manager" => shown.key \in Keys /\ has[shown.key] # NoPassword

RowsOK(rows, has, last) ==
  \A k \in Keys :
    /\ rows[k].pushed = "manager" => has[k] # NoPassword
    /\ rows[k] # NoRow => Owned(rows, last, rows[k].id, k) /\ rows[k].password # NoPassword

PushOK(rows, has, last, q) ==
  /\ \A e \in q.left : Owned(rows, last, e[2].id, e[1]) /\ e[2].password # NoPassword
  /\ q.pc = "mark" /\ q.mode = "manager" => Kept(rows, has, last, q.row.id)

RunOK(rows, has, last, r) ==
  /\ r.pc = "pushed" /\ r.got = "manager" => Kept(rows, has, last, r.id)
  /\ \A u \in Users : Leads(has, r.creds[u])

CInv ==
  /\ RowsOK(row, manager, recorded)
  /\ \A p \in Pushers : PushOK(row, manager, recorded, push[p])
  /\ \A p \in Runners : run[p] \in Run => RunOK(row, manager, recorded, run[p])
  /\ \A u \in Users : Leads(manager, page.creds[u])

\* What every step does: a row keeps its id, goes, or gets a new one, and the
\* manager forgets nothing.
Grown(rows, has, last, rows2, has2, last2) ==
  /\ last \in Nat /\ last2 \in Nat /\ last <= last2
  /\ \A k \in Keys : rows2[k].id = rows[k].id \/ rows2[k].id = 0 \/ rows2[k].id > last
  /\ \A k \in Keys : has[k] # NoPassword => has2[k] # NoPassword

\* What is said of an id, a reference, a push or a run survives such a step.
LEMMA GrownKeeps ==
  ASSUME NEW rows, NEW has, NEW last, NEW rows2, NEW has2, NEW last2,
         Grown(rows, has, last, rows2, has2, last2)
  PROVE  /\ \A id, k : Owned(rows, last, id, k) => Owned(rows2, last2, id, k)
         /\ \A id : Kept(rows, has, last, id) => Kept(rows2, has2, last2, id)
         /\ \A shown : Leads(has, shown) => Leads(has2, shown)
         /\ \A q : PushOK(rows, has, last, q) => PushOK(rows2, has2, last2, q)
         /\ \A r : RunOK(rows, has, last, r) => RunOK(rows2, has2, last2, r)
<1>1. ASSUME NEW id, NEW k, Owned(rows, last, id, k) PROVE Owned(rows2, last2, id, k)
  BY <1>1 DEF Grown, Owned
<1>2. ASSUME NEW id, Kept(rows, has, last, id) PROVE Kept(rows2, has2, last2, id)
  BY <1>2 DEF Grown, Kept
<1>3. ASSUME NEW shown, Leads(has, shown) PROVE Leads(has2, shown)
  BY <1>3 DEF Grown, Leads
<1>4. ASSUME NEW q, PushOK(rows, has, last, q) PROVE PushOK(rows2, has2, last2, q)
  BY <1>1, <1>2, <1>4 DEF PushOK
<1>5. ASSUME NEW r, RunOK(rows, has, last, r) PROVE RunOK(rows2, has2, last2, r)
  BY <1>2, <1>3, <1>5 DEF RunOK
<1> QED BY <1>1, <1>2, <1>3, <1>4, <1>5

\* A row that is new, or has a new password, is nobody else's.
LEMMA PutSafe ==
  ASSUME TypeInv, CInv, NEW k \in Keys, Put(k), manager' = manager
  PROVE  /\ Grown(row, manager, recorded, row', manager', recorded')
         /\ RowsOK(row', manager', recorded')
<1>1. \A l \in Keys : row[l] \in CredRow /\ row[l].id \in Nat
  BY DEF TypeInv, CredType, CredRow
<1>2. recorded \in Nat /\ recorded' = recorded + 1
  BY DEF Put, TypeInv, CredType
<1>3. /\ row'[k].id = IF row[k] = NoRow THEN recorded + 1 ELSE row[k].id
      /\ row'[k].password = recorded + 1 /\ row'[k].pushed = "no"
      /\ \A l \in Keys : l # k => row'[l] = row[l]
  BY DEF Put, TypeInv, CredType
<1>4. Grown(row, manager, recorded, row', manager', recorded')
  BY <1>1, <1>2, <1>3 DEF Grown
<1>5. ASSUME NEW l \in Keys, row'[l] # NoRow PROVE Owned(row', recorded', row'[l].id, l)
  <2>1. CASE l = k /\ row[k] = NoRow
    <3>1. \A m \in Keys : row[m].id # recorded + 1
      BY <1>2, NoRowTyped DEF CInv, RowsOK, Owned
    <3> QED BY <1>2, <1>3, <2>1, <3>1 DEF Owned
  <2>2. CASE ~(l = k /\ row[k] = NoRow)
    <3>1. row[l] # NoRow /\ row'[l].id = row[l].id
      BY <1>3, <1>5, <2>2
    <3>2. Owned(row, recorded, row[l].id, l)
      BY <3>1 DEF CInv, RowsOK
    <3> QED BY <1>4, <3>1, <3>2, GrownKeeps
  <2> QED BY <2>1, <2>2
<1>6. ASSUME NEW l \in Keys
      PROVE  /\ row'[l].pushed = "manager" => manager'[l] # NoPassword
             /\ row'[l] # NoRow => row'[l].password # NoPassword
  BY <1>2, <1>3 DEF CInv, RowsOK, NoPassword
<1> QED BY <1>4, <1>5, <1>6 DEF RowsOK

\* A mark is safe on an id whose row is kept, and any other mark is.
LEMMA MarkSafe ==
  ASSUME TypeInv, CInv, NEW id, NEW mode, MarkPushed(id, mode),
         mode = "manager" => Kept(row, manager, recorded, id),
         manager' = manager, recorded' = recorded
  PROVE  /\ Grown(row, manager, recorded, row', manager', recorded')
         /\ RowsOK(row', manager', recorded')
<1>1. \A k \in Keys : row[k] \in CredRow
  BY DEF TypeInv, CredType
<1>2. \A c \in CredRow : /\ [c EXCEPT !.pushed = mode].id = c.id
                         /\ [c EXCEPT !.pushed = mode].password = c.password
                         /\ [c EXCEPT !.pushed = mode].pushed = mode
  BY DEF CredRow
<1>3. \A k \in Keys : /\ row'[k].id = row[k].id /\ row'[k].password = row[k].password
                      /\ \/ row'[k] = row[k]
                         \/ row'[k].pushed = mode /\ row[k].id = id /\ row[k] # NoRow
  BY <1>1, <1>2 DEF MarkPushed
<1>4. recorded \in Nat
  BY DEF TypeInv, CredType
<1>5. Grown(row, manager, recorded, row', manager', recorded')
  BY <1>3, <1>4 DEF Grown
<1>6. ASSUME NEW k \in Keys
      PROVE  /\ row'[k].pushed = "manager" => manager'[k] # NoPassword
             /\ row'[k] # NoRow => row[k] # NoRow
  BY <1>3 DEF CInv, RowsOK, Kept
<1>7. ASSUME NEW k \in Keys, row[k] # NoRow
      PROVE  Owned(row', recorded', row'[k].id, k) /\ row'[k].password # NoPassword
  <2>1. Owned(row, recorded, row[k].id, k) /\ row[k].password # NoPassword
    BY <1>7 DEF CInv, RowsOK
  <2> QED BY <1>3, <1>5, <2>1, GrownKeeps
<1> QED BY <1>5, <1>6, <1>7 DEF RowsOK

\* Storing a password of a row that has one.
LEMMA StoreSafe ==
  ASSUME TypeInv, CInv, NEW k \in Keys, NEW password, password # NoPassword,
         manager' \in {manager, [manager EXCEPT ![k] = password]},
         row' = row, recorded' = recorded
  PROVE  /\ Grown(row, manager, recorded, row', manager', recorded')
         /\ RowsOK(row', manager', recorded')
<1>1. \A l \in Keys : manager[l] # NoPassword => manager'[l] # NoPassword
  BY DEF TypeInv, CredType
<1>2. Grown(row, manager, recorded, row', manager', recorded')
  BY <1>1 DEF Grown, TypeInv, CredType
<1> QED BY <1>1, <1>2 DEF CInv, RowsOK

\* What a step leaves alone is as safe as before.
LEMMA Undisturbed ==
  ASSUME CInv, Grown(row, manager, recorded, row', manager', recorded'),
         RowsOK(row', manager', recorded'),
         \A p \in Pushers : push'[p] = push[p] \/ PushOK(row', manager', recorded', push'[p]),
         \A p \in Runners : \/ run'[p] = run[p] \/ run'[p] = NoRun
                           \/ RunOK(row', manager', recorded', run'[p]),
         \A u \in Users : page'.creds[u] = page.creds[u] \/ Leads(manager', page'.creds[u])
  PROVE  CInv'
<1>1. \A p \in Pushers : PushOK(row', manager', recorded', push'[p])
  BY GrownKeeps DEF CInv
<1>2. \A p \in Runners : run'[p] \in Run => RunOK(row', manager', recorded', run'[p])
  BY GrownKeeps, NoRunIsNone DEF CInv
<1>3. \A u \in Users : Leads(manager', page'.creds[u])
  BY GrownKeeps DEF CInv
<1> QED BY <1>1, <1>2, <1>3 DEF CInv

\* A step that leaves rows, manager and ids alone.
LEMMA StillSafe ==
  ASSUME TypeInv, CInv, UNCHANGED <<row, manager, recorded>>
  PROVE  /\ Grown(row, manager, recorded, row', manager', recorded')
         /\ RowsOK(row', manager', recorded')
<1>1. Grown(row, manager, recorded, row', manager', recorded')
  BY DEF Grown, TypeInv, CredType
<1> QED BY <1>1 DEF CInv

\* A run that has the same table and has not just stored a password.
LEMMA SameTable ==
  ASSUME CInv, Grown(row, manager, recorded, row', manager', recorded'),
         NEW p \in Runners, run[p] \in Run, NEW r, r.creds = run[p].creds, r.pc # "pushed"
  PROVE  RunOK(row', manager', recorded', r)
<1>1. RunOK(row', manager', recorded', run[p])
  BY GrownKeeps DEF CInv
<1> QED BY <1>1 DEF RunOK

----------------------------------------------------------------------------
\* The steps of the cache and of the pushes

\* A password is recorded (credcache.Put).
LEMMA PuttingSafe ==
  ASSUME TypeInv, CInv, NEW k \in Keys, Put(k), UNCHANGED <<manager, push, run, page>>
  PROVE  CInv'
BY PutSafe, Undisturbed

\* A push marks a row whose password it has just stored (runCredentialsPush).
LEMMA PushingSafe ==
  ASSUME TypeInv, CInv, NEW p \in Pushers, UNCHANGED <<run, page>>,
         PushList(p) \/ PushStore(p) \/ PushMark(p) \/ PushEnd(p)
  PROVE  CInv'
<1>1. push \in [Pushers -> Pushing] /\ push[p] \in Pushing
  BY DEF TypeInv, CredType
<1>2. CASE PushList(p)
  <2> DEFINE entries == {<<k, row[k]>> : k \in {l \in Keys : row[l] # NoRow}}
             q == [push[p] EXCEPT !.pc = "next", !.left = entries]
  <2>1. Grown(row, manager, recorded, row', manager', recorded')
        /\ RowsOK(row', manager', recorded')
    BY <1>2, StillSafe DEF PushList
  <2>2. push' = [push EXCEPT ![p] = q]
    BY <1>2 DEF PushList, Policy
  <2>3. q.left = entries /\ q.pc = "next"
    <3> HIDE DEF entries
    <3> QED BY <1>1 DEF Pushing
  <2>4. \A e \in entries : \E k \in Keys : row[k] # NoRow /\ e[1] = k /\ e[2] = row[k]
    OBVIOUS
  <2>5. \A e \in entries : Owned(row, recorded, e[2].id, e[1]) /\ e[2].password # NoPassword
    <3> HIDE DEF entries
    <3> QED BY <2>4 DEF CInv, RowsOK
  <2>6. PushOK(row, manager, recorded, q)
    <3> HIDE DEF entries, q
    <3> QED BY <2>3, <2>5 DEF PushOK
  <2>7. \A s \in Pushers : push'[s] = push[s] \/ PushOK(row', manager', recorded', push'[s])
    <3> HIDE DEF q
    <3>1. PushOK(row', manager', recorded', q)
      BY <2>1, <2>6, GrownKeeps
    <3> QED BY <1>1, <2>2, <3>1
  <2> QED BY <2>1, <2>7, Undisturbed
<1>3. CASE PushStore(p)
  <2> DEFINE q(e, pc, mode) == [pc |-> pc, left |-> push[p].left \ {e}, row |-> e[2], mode |-> mode]
  <2>1. PICK e \in push[p].left :
          Store(e[1], e[2].password,
                push' = [push EXCEPT ![p] = q(e, "mark", policy)],
                push' = [push EXCEPT ![p] = q(e, AfterFailure, "manager")])
    BY <1>3 DEF PushStore
  <2>2. e \in Entry /\ e[1] \in Keys
    BY <1>1 DEF Pushing, Entry
  <2>3. Owned(row, recorded, e[2].id, e[1]) /\ e[2].password # NoPassword
    BY DEF CInv, PushOK
  <2>4. manager' \in {manager, [manager EXCEPT ![e[1]] = e[2].password]}
    BY <2>1 DEF Store
  <2>5. Grown(row, manager, recorded, row', manager', recorded')
        /\ RowsOK(row', manager', recorded')
    BY <1>3, <2>2, <2>3, <2>4, StoreSafe DEF PushStore
  <2>6. \A f \in push[p].left \ {e} :
          Owned(row', recorded', f[2].id, f[1]) /\ f[2].password # NoPassword
    BY <2>5, GrownKeeps DEF CInv, PushOK
  <2>7. CASE push' = [push EXCEPT ![p] = q(e, AfterFailure, "manager")]
    <3>1. PushOK(row', manager', recorded', q(e, AfterFailure, "manager"))
      BY <2>6 DEF PushOK, AfterFailure
    <3>2. \A s \in Pushers : push'[s] = push[s] \/ PushOK(row', manager', recorded', push'[s])
      <4> HIDE DEF q
      <4> QED BY <1>1, <2>7, <3>1
    <3> QED BY <2>5, <3>2, Undisturbed
  <2>8. CASE /\ push' = [push EXCEPT ![p] = q(e, "mark", policy)]
             /\ manager' = IF policy = "manager" THEN [manager EXCEPT ![e[1]] = e[2].password]
                                                 ELSE manager
    <3>1. policy = "manager" => manager'[e[1]] # NoPassword
      BY <2>2, <2>3, <2>8 DEF TypeInv, CredType
    <3>2. policy = "manager" => Kept(row', manager', recorded', e[2].id)
      BY <2>3, <3>1, <1>3 DEF Owned, Kept, PushStore
    <3>3. PushOK(row', manager', recorded', q(e, "mark", policy))
      BY <2>6, <3>2 DEF PushOK
    <3>4. \A s \in Pushers : push'[s] = push[s] \/ PushOK(row', manager', recorded', push'[s])
      <4> HIDE DEF q
      <4> QED BY <1>1, <2>8, <3>3
    <3> QED BY <2>5, <3>4, Undisturbed
  <2> QED BY <2>1, <2>7, <2>8 DEF Store
<1>4. CASE PushMark(p)
  <2> DEFINE q == [push[p] EXCEPT !.pc = "next"]
  <2>1. PushOK(row, manager, recorded, push[p])
    BY DEF CInv
  <2>2. push[p].mode = "manager" => Kept(row, manager, recorded, push[p].row.id)
    BY <1>4, <2>1 DEF PushMark, PushOK
  <2>3. Grown(row, manager, recorded, row', manager', recorded')
        /\ RowsOK(row', manager', recorded')
    BY <1>4, <2>2, MarkSafe DEF PushMark
  <2>4. q.left = push[p].left /\ q.pc = "next" /\ push' = [push EXCEPT ![p] = q]
    BY <1>1, <1>4 DEF Pushing, PushMark
  <2>5. PushOK(row', manager', recorded', push[p])
    BY <2>1, <2>3, GrownKeeps
  <2>6. PushOK(row', manager', recorded', q)
    <3> HIDE DEF q
    <3> QED BY <2>4, <2>5 DEF PushOK
  <2>7. \A s \in Pushers : push'[s] = push[s] \/ PushOK(row', manager', recorded', push'[s])
    <3> HIDE DEF q
    <3> QED BY <1>1, <2>4, <2>6
  <2> QED BY <2>3, <2>7, Undisturbed
<1>5. CASE PushEnd(p)
  <2>1. Grown(row, manager, recorded, row', manager', recorded')
        /\ RowsOK(row', manager', recorded')
    BY <1>5, StillSafe DEF PushEnd
  <2>2. PushOK(row', manager', recorded', Idle)
    BY DEF PushOK, Idle
  <2>3. \A s \in Pushers : push'[s] = push[s] \/ PushOK(row', manager', recorded', push'[s])
    BY <1>1, <1>5, <2>2 DEF PushEnd
  <2> QED BY <2>1, <2>3, Undisturbed
<1> QED BY <1>2, <1>3, <1>4, <1>5

\* Every step of the cache and of the pushes; a forgotten row has no id.
LEMMA CredentialsSafe ==
  ASSUME TypeInv, CInv, CredentialsNext, UNCHANGED <<run, page>>
  PROVE  CInv'
<1>1. ASSUME NEW k \in Keys, Record(k) PROVE CInv'
  BY <1>1, PuttingSafe DEF Record
<1>2. CASE ForgetCredentials
  <2>1. \A k \in Keys : row'[k] = row[k] \/ row'[k] = NoRow
    BY <1>2 DEF ForgetCredentials
  <2>2. Grown(row, manager, recorded, row', manager', recorded')
    BY <1>2, <2>1, NoRowTyped DEF ForgetCredentials, Grown, TypeInv, CredType
  <2>3. \A k \in Keys : row[k] # NoRow => Owned(row', recorded', row[k].id, k)
    BY <2>2, GrownKeeps DEF CInv, RowsOK
  <2>4. RowsOK(row', manager', recorded')
    BY <1>2, <2>1, <2>3, NoRowTyped DEF ForgetCredentials, CInv, RowsOK
  <2> QED BY <1>2, <2>2, <2>4, Undisturbed DEF ForgetCredentials
<1>3. CASE PolicyChanges \/ RefreshDefaults
  BY <1>3, StillSafe, Undisturbed DEF PolicyChanges, RefreshDefaults
<1>4. ASSUME NEW p \in Pushers, PushList(p) \/ PushStore(p) \/ PushMark(p) \/ PushEnd(p)
      PROVE  CInv'
  BY <1>4, PushingSafe
<1> QED BY <1>1, <1>2, <1>3, <1>4 DEF CredentialsNext

----------------------------------------------------------------------------
\* The steps of the runs

\* Every step of a run but those that store, mark or publish.
LEMMA RunStepSafe ==
  ASSUME TypeInv, CInv, NEW p \in Runners, UNCHANGED <<row, manager, push, recorded, page>>,
         NEW r, run' = [run EXCEPT ![p] = r],
         r = NoRun \/ RunOK(row', manager', recorded', r)
  PROVE  CInv'
<1>1. \A s \in Runners : \/ run'[s] = run[s] \/ run'[s] = NoRun
                         \/ RunOK(row', manager', recorded', run'[s])
  BY DEF TypeInv, PageType
<1> QED BY <1>1, StillSafe, Undisturbed

\* A new run shows nobody a link.
LEMMA CollectSafe ==
  ASSUME TypeInv, CInv, NEW p \in Runners, NEW flags, Collect(p, flags)
  PROVE  CInv'
<1> DEFINE r == [pc |-> "latest", flags |-> flags, note |-> Unknown, left |-> Users,
        creds |-> [u \in Users |-> Reference], mode |-> "reference", id |-> 0, got |-> "reference",
        snap |-> [taken |-> runs + 1, state |-> machine, from |-> Unknown,
                  material |-> FALSE, published |-> FALSE]]
<1>1. run' = [run EXCEPT ![p] = r] /\ UNCHANGED <<row, manager, push, recorded, page>>
  BY DEF Collect, credVars
<1>2. RunOK(row', manager', recorded', r)
  BY DEF RunOK, Leads, Reference
<1> HIDE DEF r
<1> QED BY <1>1, <1>2, RunStepSafe

\* The steps of a run that do not touch its table of accounts.
LEMMA SnapshotSafe ==
  ASSUME TypeInv, CInv, NEW p \in Runners,
         \/ Latest(p) \/ Explain(p) \/ StoreSnapshot(p) \/ MarkRun(p) \/ ReadPolicy(p)
         \/ RecordPublished(p) \/ KillRun(p)
  PROVE  CInv'
<1>1. UNCHANGED <<row, manager, push, recorded, page>>
  BY DEF Latest, Explain, StoreSnapshot, MarkRun, ReadPolicy, RecordPublished, KillRun, credVars
<1>2. run[p] \in Run
  BY InRun, NoRunIsNone DEF TypeInv, PageType, Latest, Explain, StoreSnapshot, MarkRun,
       ReadPolicy, RecordPublished, KillRun, Running
<1> DEFINE Same(r) == r.creds = run[p].creds /\ r.pc # "pushed"
<1>3. \/ run' = [run EXCEPT ![p] = NoRun]
      \/ \E r : run' = [run EXCEPT ![p] = r] /\ Same(r)
  <2>1. CASE RecordPublished(p) \/ KillRun(p)
    BY <2>1 DEF RecordPublished, KillRun, End
  <2>2. CASE StoreSnapshot(p) \/ MarkRun(p)
    <3>1. Same([run[p] EXCEPT !.pc = "mark"]) /\ Same([run[p] EXCEPT !.pc = "policy"])
      BY <1>2 DEF Run
    <3>2. \/ run' = [run EXCEPT ![p] = [run[p] EXCEPT !.pc = "mark"]]
          \/ run' = [run EXCEPT ![p] = [run[p] EXCEPT !.pc = "policy"]]
          \/ run' = [run EXCEPT ![p] = NoRun]
      BY <2>2 DEF StoreSnapshot, MarkRun, Goto, End
    <3> HIDE DEF Same
    <3> QED BY <3>1, <3>2
  <2>3. CASE ReadPolicy(p)
    <3>1. PICK mode : run' = [run EXCEPT ![p] = [run[p] EXCEPT !.pc = "creds", !.mode = mode]]
      BY <2>3 DEF ReadPolicy, Policy
    <3>2. Same([run[p] EXCEPT !.pc = "creds", !.mode = mode])
      BY <1>2 DEF Run
    <3> HIDE DEF Same
    <3> QED BY <3>1, <3>2
  <2>4. CASE Latest(p)
    <3>1. PICK state : run' = [run EXCEPT ![p].pc = "explain", ![p].snap.from = state]
      BY <2>4 DEF Latest
    <3> DEFINE snap == [run[p].snap EXCEPT !.from = state]
               r == [run[p] EXCEPT !.pc = "explain", !.snap = snap]
    <3>2. Same(r)
      <4> HIDE DEF snap
      <4> QED BY <1>2 DEF Run
    <3>3. run' = [run EXCEPT ![p] = r]
      BY <3>1
    <3> HIDE DEF r, Same
    <3> QED BY <3>2, <3>3
  <2>5. CASE Explain(p)
    <3>1. PICK note : run' = [run EXCEPT ![p] = IF "dryRun" \in run[p].flags THEN NoRun ELSE
                    [run[p] EXCEPT !.pc = "store", !.note = note,
                                   !.snap.material = Material(run[p].snap)]]
      BY <2>5 DEF Explain
    <3> DEFINE snap == [run[p].snap EXCEPT !.material = Material(run[p].snap)]
               r == [run[p] EXCEPT !.pc = "store", !.note = note, !.snap = snap]
    <3>2. Same(r)
      <4> HIDE DEF snap
      <4> QED BY <1>2 DEF Run
    <3>3. run' = [run EXCEPT ![p] = IF "dryRun" \in run[p].flags THEN NoRun ELSE r]
      BY <3>1
    <3> HIDE DEF r, Same
    <3>4. run' = [run EXCEPT ![p] = NoRun] \/ run' = [run EXCEPT ![p] = r]
      BY <3>3
    <3> QED BY <3>2, <3>4
  <2> QED BY <2>1, <2>2, <2>3, <2>4, <2>5
<1>4. ASSUME NEW r, run' = [run EXCEPT ![p] = r], Same(r) PROVE CInv'
  <2>1. RunOK(row', manager', recorded', r)
    BY <1>1, <1>2, <1>4, StillSafe, SameTable
  <2> QED BY <1>1, <1>4, <2>1, RunStepSafe
<1>5. CASE run' = [run EXCEPT ![p] = NoRun]
  BY <1>1, <1>5, RunStepSafe
<1> HIDE DEF Same
<1> QED BY <1>3, <1>4, <1>5

\* A password shown as a link is stored when the link is made; the mark that
\* follows is on the row that was read.
LEMMA CredentialSafe ==
  ASSUME TypeInv, CInv, NEW p \in Runners, NEW u \in Users, Credential(p, u)
  PROVE  CInv'
<1>1. UNCHANGED <<row, push, recorded, page>> /\ run[p] \in Run /\ run \in [Runners -> {NoRun} \cup Run]
  BY InRun DEF Credential, TypeInv, PageType
<1>2. PICK pc \in {"creds", "pushed"}, got \in Mode, id \in Nat, shown \in ShownAs :
           /\ ShowsUser(p, u, pc, id, got, shown)
           /\ \/ pc = "creds" /\ NoLink(shown)
              \/ pc = "pushed" /\ StoredFirst(id, got, shown)
  BY CredentialStep
<1> DEFINE r == [run[p] EXCEPT !.pc = pc, !.left = run[p].left \ {u}, !.id = id, !.got = got,
                               !.creds = [run[p].creds EXCEPT ![u] = shown]]
<1>3. r.pc = pc /\ r.id = id /\ r.got = got /\ r.creds = [run[p].creds EXCEPT ![u] = shown]
  <2> DEFINE left == run[p].left \ {u}
             creds == [run[p].creds EXCEPT ![u] = shown]
             next == [run[p] EXCEPT !.pc = pc, !.left = left, !.id = id, !.got = got,
                                    !.creds = creds]
  <2>1. next.pc = pc /\ next.id = id /\ next.got = got /\ next.creds = creds
    <3> HIDE DEF left, creds
    <3> QED BY <1>1 DEF Run
  <2> QED BY <2>1
<1>4. run[p].creds \in [Users -> ShownAs]
  BY <1>1 DEF Run
<1>5. run' = [run EXCEPT ![p] = r]
  BY <1>2 DEF ShowsUser
<1> HIDE DEF r
<1>6. \A k \in Keys : row[k] # NoRow => Owned(row, recorded, row[k].id, k) /\ row[k].password # NoPassword
  BY DEF CInv, RowsOK
<1>7. Grown(row, manager, recorded, row', manager', recorded')
      /\ RowsOK(row', manager', recorded')
  <2>1. \/ manager' = manager
        \/ \E k \in Keys : row[k] # NoRow /\ manager' = [manager EXCEPT ![k] = row[k].password]
    BY <1>2 DEF NoLink, StoredFirst
  <2> QED BY <1>1, <1>6, <2>1, StillSafe, StoreSafe
<1>8. \A v \in Users : Leads(manager', run[p].creds[v])
  BY <1>1, <1>7, GrownKeeps DEF CInv, RunOK
<1>9. RunOK(row', manager', recorded', r)
  <2>1. CASE pc = "creds" /\ NoLink(shown)
    BY <1>3, <1>4, <1>8, <2>1 DEF RunOK, Leads, NoLink
  <2>2. CASE pc = "pushed" /\ StoredFirst(id, got, shown)
    <3>1. PICK k \in Keys :
            /\ row[k] # NoRow /\ id = row[k].id
            /\ manager' = IF policy = "manager" THEN [manager EXCEPT ![k] = row[k].password]
                                                ELSE manager
            /\ got = policy
            /\ shown.mode = "manager" => policy = "manager" /\ shown.key = k
      BY <2>2 DEF StoredFirst
    <3>2. policy = "manager" => manager'[k] # NoPassword
      BY <1>6, <3>1 DEF TypeInv, CredType
    <3>3. got = "manager" => Kept(row', manager', recorded', id)
      BY <1>1, <1>6, <3>1, <3>2 DEF Owned, Kept
    <3>4. Leads(manager', shown)
      BY <3>1, <3>2 DEF Leads
    <3> QED BY <1>3, <1>4, <1>8, <3>3, <3>4 DEF RunOK
  <2> QED BY <1>2, <2>1, <2>2
<1>10. \A s \in Runners : run'[s] = run[s] \/ RunOK(row', manager', recorded', run'[s])
  BY <1>1, <1>5, <1>9
<1> QED BY <1>1, <1>7, <1>10, Undisturbed

\* The mark of storedCredential, on the row whose password was stored.
LEMMA MarkCredentialSafe ==
  ASSUME TypeInv, CInv, NEW p \in Runners, MarkCredential(p)
  PROVE  CInv'
<1>1. run[p] \in Run /\ run \in [Runners -> {NoRun} \cup Run]
  BY InRun DEF MarkCredential, TypeInv, PageType
<1>2. run[p].got = "manager" => Kept(row, manager, recorded, run[p].id)
  BY <1>1 DEF CInv, RunOK, MarkCredential
<1>3. Grown(row, manager, recorded, row', manager', recorded')
      /\ RowsOK(row', manager', recorded')
  BY <1>2, MarkSafe DEF MarkCredential
<1> DEFINE r == [run[p] EXCEPT !.pc = "creds"]
<1>4. r.creds = run[p].creds /\ r.pc = "creds" /\ run' = [run EXCEPT ![p] = r]
  BY <1>1 DEF Run, MarkCredential, Goto
<1>5. RunOK(row', manager', recorded', r)
  <2> HIDE DEF r
  <2> QED BY <1>1, <1>3, <1>4, SameTable
<1>6. \A s \in Runners : run'[s] = run[s] \/ RunOK(row', manager', recorded', run'[s])
  <2> HIDE DEF r
  <2> QED BY <1>1, <1>4, <1>5
<1> QED BY <1>3, <1>6, Undisturbed DEF MarkCredential

\* The page has the table of a run.
LEMMA PublishSafe ==
  ASSUME TypeInv, CInv, NEW p \in Runners, Publish(p)
  PROVE  CInv'
<1>1. run[p] \in Run /\ run \in [Runners -> {NoRun} \cup Run]
  BY InRun DEF Publish, TypeInv, PageType
<1>2. Grown(row, manager, recorded, row', manager', recorded')
      /\ RowsOK(row', manager', recorded')
  BY StillSafe DEF Publish
<1>3. page'.creds = page.creds \/ page'.creds = run[p].creds
  BY DEF Publish
<1>4. \A u \in Users : Leads(manager', run[p].creds[u])
  BY <1>1, <1>2, GrownKeeps DEF CInv, RunOK
<1> DEFINE r == [run[p] EXCEPT !.pc = "record"]
<1>5. r.creds = run[p].creds /\ r.pc = "record"
  BY <1>1 DEF Run
<1>6. run' = [run EXCEPT ![p] = r] \/ run' = [run EXCEPT ![p] = NoRun]
  BY DEF Publish, Goto, End
<1>7. RunOK(row', manager', recorded', r)
  <2> HIDE DEF r
  <2> QED BY <1>1, <1>2, <1>5, SameTable
<1>8. \A s \in Runners : \/ run'[s] = run[s] \/ run'[s] = NoRun
                         \/ RunOK(row', manager', recorded', run'[s])
  <2> HIDE DEF r
  <2> QED BY <1>1, <1>6, <1>7
<1> QED BY <1>2, <1>3, <1>4, <1>8, Undisturbed DEF Publish

\* No row, no push, no run and no link at the start; every step keeps CInv.
LEMMA CInit == Init => CInv
<1> SUFFICES ASSUME Init PROVE CInv
  OBVIOUS
<1>1. RowsOK(row, manager, recorded)
  BY DEF Init, CredentialsInit, RowsOK, NoRow
<1>2. \A p \in Pushers : PushOK(row, manager, recorded, push[p])
  BY DEF Init, CredentialsInit, PushOK, Idle
<1>3. \A p \in Runners : run[p] \notin Run
  BY NoRunIsNone DEF Init, ServerPageInit
<1>4. \A u \in Users : Leads(manager, page.creds[u])
  BY DEF Init, ServerPageInit, Leads, Reference
<1> QED BY <1>1, <1>2, <1>3, <1>4 DEF CInv

LEMMA CNext ==
  ASSUME TypeInv, CInv, [Next]_vars
  PROVE  CInv'
<1>1. CASE CredentialsNext /\ UNCHANGED pageVars
  BY <1>1, CredentialsSafe DEF pageVars
<1>2. ASSUME NEW p \in Timer, TimerRun(p) PROVE CInv'
  BY <1>2, CollectSafe DEF TimerRun, Runners
<1>3. ASSUME NEW p \in Commands, Command(p) PROVE CInv'
  BY <1>3, CollectSafe DEF Command, Runners
<1>4. ASSUME NEW p \in Commands, Prompt(p) PROVE CInv'
  <2>1. PICK u \in Users : Put(<<u, "os">>)
    BY <1>4 DEF Prompt
  <2>2. <<u, "os">> \in Keys
    BY ServerPageAssumption DEF Keys
  <2> QED BY <1>4, <2>1, <2>2, PuttingSafe DEF Prompt, pageVars
<1>5. ASSUME NEW p \in Runners, RunStep(p) \/ KillRun(p) PROVE CInv'
  BY <1>5, SnapshotSafe, CredentialSafe, MarkCredentialSafe, PublishSafe DEF RunStep
<1>6. CASE MachineChanges \/ TimePasses \/ UNCHANGED vars
  <2>1. UNCHANGED <<row, manager, push, recorded, page, run>>
    BY <1>6 DEF MachineChanges, TimePasses, vars, credVars, pageVars
  <2> QED BY <2>1, StillSafe, Undisturbed
<1> QED BY <1>1, <1>2, <1>3, <1>4, <1>5, <1>6 DEF Next

\* Types, and what every row, push, run and the page have of the password
\* manager: a mark is only ever put on the row whose password was stored,
\* although rows are replaced and forgotten between the store and the mark.
THEOREM CredentialsInvariant == Spec => [](TypeInv /\ CInv)
<1>1. Init => TypeInv /\ CInv
  BY TypeInit, CInit
<1>2. TypeInv /\ CInv /\ [Next]_vars => (TypeInv /\ CInv)'
  BY TypeNext, CNext
<1> QED BY <1>1, <1>2, PTL DEF Spec

\* Neither the cache (credcache.MarkPushed) nor the accounts table of the page
\* (storedCredential) points at the password manager for a password that is not
\* there: for any accounts, pushes, runs, failures, kills and policies.
THEOREM ReferencesLead == Spec => []ManagerReferencesLead
<1>1. CInv => ManagerReferencesLead
  BY DEF CInv, RowsOK, Leads, ManagerReferencesLead, PushedIsStored
<1> QED BY <1>1, CredentialsInvariant, PTL

----------------------------------------------------------------------------
\* The history.  Everything is said of a set S of rows and a run.

\* Row t is material, or moved little since the row of S just before it.
Told(S, t) ==
  \/ t.material
  \/ \E s \in S : /\ s.taken < t.taken /\ ~Moved(s.state, t.state)
                  /\ \A other \in S : ~(s.taken < other.taken /\ other.taken < t.taken)

\* Two rows that differ in published only.
Like(s, t) ==
  s.taken = t.taken /\ s.state = t.state /\ s.from = t.from /\ s.material = t.material

Fresh == {"latest", "explain", "store"}  \* not stored yet

\* The one run there is was taken last; it is compared with the newest row, and
\* only its own row, once it is stored, was taken when it was.
SnapOK(S, last, r) ==
  /\ r.snap.taken = last
  /\ r.pc = "explain" => \/ r.snap.from = Unknown
                         \/ \E s \in S : /\ s.state = r.snap.from
                                         /\ \A other \in S : other.taken <= s.taken
  /\ r.pc \notin {"latest", "explain"} => Told(S, r.snap)
  /\ \A s \in S : s.taken = r.snap.taken => r.pc \notin Fresh /\ Like(s, r.snap)

HInv ==
  ~overlapped =>
    /\ \A s \in snaps : s.taken <= runs /\ Told(snaps, s)
    /\ \A p \in Runners : run[p] \in Run => SnapOK(snaps, runs, run[p])
    /\ \A p, q \in Runners : run[p] \in Run /\ run[q] \in Run => p = q

\* A row like one of S replaces it, or comes last: what was told still is.
LEMMA ToldKept ==
  ASSUME NEW S, NEW last \in Nat, \A s \in S : s.taken \in Nat,
         NEW snap, snap.taken = last, \A s \in S : s.taken = last => Like(s, snap),
         NEW t, t.taken \in Nat, t.taken <= last, Told(S, t)
  PROVE  Told({s \in S : s.taken # snap.taken} \cup {snap}, t)
<1> DEFINE T == {s \in S : s.taken # snap.taken} \cup {snap}
<1>1. CASE t.material
  BY <1>1 DEF Told
<1>2. CASE ~t.material
  <2>1. PICK s \in S : /\ s.taken < t.taken /\ ~Moved(s.state, t.state)
                       /\ \A other \in S : ~(s.taken < other.taken /\ other.taken < t.taken)
    BY <1>2 DEF Told
  <2>2. s \in T
    BY <2>1
  <2>3. \A other \in T : ~(s.taken < other.taken /\ other.taken < t.taken)
    BY <2>1
  <2> HIDE DEF T
  <2>4. Told(T, t)
    BY <2>1, <2>2, <2>3 DEF Told
  <2> QED BY <2>4 DEF T
<1> QED BY <1>1, <1>2

\* A step of one run, which ends or has its row already.
Others(p) == \A q \in Runners : q # p => run'[q] = run[q]
Later(p) == \/ run'[p] = NoRun
            \/ run'[p].snap = run[p].snap /\ run'[p].pc \notin Fresh

LEMMA OneRun ==
  ASSUME TypeInv, NEW p \in Runners, NEW r, run' = [run EXCEPT ![p] = r]
  PROVE  run'[p] = r /\ Others(p)
BY DEF TypeInv, PageType, Others

\* A step of a run that stores nothing.
LEMMA NothingStored ==
  ASSUME TypeInv, HInv, UNCHANGED <<snaps, runs, overlapped>>, NEW p \in Runners, run[p] \in Run,
         Others(p),
         run'[p] = NoRun \/ (~overlapped => SnapOK(snaps, runs, run'[p]))
  PROVE  HInv'
<1> SUFFICES ASSUME ~overlapped' PROVE HInv'
  BY DEF HInv
<1>1. ~overlapped /\ \A q \in Runners : q # p => run'[q] = run[q]
  BY DEF Others
<1>2. \A q \in Runners : run'[q] \in Run => SnapOK(snaps', runs', run'[q])
  BY <1>1, NoRunIsNone DEF HInv
<1>3. \A q \in Runners : run'[q] \in Run => run[q] \in Run
  BY <1>1, NoRunIsNone
<1>4. \A q, s \in Runners : run'[q] \in Run /\ run'[s] \in Run => q = s
  BY <1>1, <1>3 DEF HInv
<1>5. \A s \in snaps' : s.taken <= runs' /\ Told(snaps', s)
  BY <1>1 DEF HInv
<1> QED BY <1>2, <1>4, <1>5 DEF HInv

\* A step of a run that is stored already, and stays so.
LEMMA StoredStays ==
  ASSUME TypeInv, HInv, UNCHANGED <<snaps, runs, overlapped>>, NEW p \in Runners, run[p] \in Run,
         run[p].pc \notin Fresh, Others(p), Later(p)
  PROVE  HInv'
<1>1. ~overlapped => SnapOK(snaps, runs, run[p])
  BY DEF HInv
<1>2. CASE run'[p] = NoRun
  BY <1>2, NothingStored
<1>3. CASE run'[p].snap = run[p].snap /\ run'[p].pc \notin Fresh
  <2>1. ~overlapped => SnapOK(snaps, runs, run'[p])
    BY <1>1, <1>3 DEF SnapOK, Fresh
  <2> QED BY <2>1, NothingStored
<1> QED BY <1>2, <1>3 DEF Later

\* A step that saves the row of a run.
LEMMA SavedOnce ==
  ASSUME TypeInv, HInv, UNCHANGED <<runs, overlapped>>, NEW p \in Runners, run[p] \in Run,
         run[p].pc \notin {"latest", "explain"},
         NEW snap \in Taken, Like(run[p].snap, snap), SaveSnapshot(snap),
         Others(p), Later(p)
  PROVE  HInv'
<1> SUFFICES ASSUME ~overlapped' PROVE HInv'
  BY DEF HInv
<1> DEFINE own == run[p].snap
<1>1. ~overlapped /\ SnapOK(snaps, runs, run[p]) /\ \A s \in snaps : s.taken <= runs /\ Told(snaps, s)
  BY DEF HInv
<1>2. snaps' = {s \in snaps : s.taken # snap.taken} \cup {snap}
  BY DEF SaveSnapshot
<1>3. runs \in Nat /\ own.taken = runs /\ snap.taken = runs /\ \A s \in snaps : s.taken \in Nat
  BY <1>1 DEF TypeInv, PageType, SnapOK, Like, Taken
<1>4. \A s \in snaps : s.taken = runs => Like(s, snap)
  BY <1>1, <1>3 DEF SnapOK, Like
<1>5. Told(snaps, own) /\ own.state = snap.state /\ own.material = snap.material
  BY <1>1 DEF SnapOK, Like
<1>6. ASSUME NEW t, t.taken \in Nat, t.taken <= runs, Told(snaps, t) PROVE Told(snaps', t)
  BY <1>2, <1>3, <1>4, <1>6, ToldKept
<1>7. Told(snaps', own)
  BY <1>3, <1>5, <1>6
<1>8. Told(snaps', snap)
  BY <1>3, <1>5, <1>7 DEF Told
<1>9. \A s \in snaps' : s.taken <= runs' /\ Told(snaps', s)
  BY <1>1, <1>2, <1>3, <1>6, <1>8
<1>10. \A q \in Runners : run'[q] \in Run => run[q] \in Run
  BY NoRunIsNone DEF Others
<1>11. \A q, s \in Runners : run'[q] \in Run /\ run'[s] \in Run => q = s
  BY <1>1, <1>10 DEF HInv
<1>12. ASSUME NEW q \in Runners, run'[q] \in Run PROVE SnapOK(snaps', runs', run'[q])
  <2>1. q = p
    BY <1>1, <1>10, <1>12 DEF HInv
  <2>2. run'[p].snap = own /\ run'[p].pc \notin Fresh
    BY <1>12, <2>1, NoRunIsNone DEF Later
  <2>3. \A s \in snaps' : s.taken = own.taken => Like(s, own)
    BY <1>2, <1>3 DEF Like
  <2> QED BY <1>3, <1>7, <2>1, <2>2, <2>3 DEF SnapOK, Fresh
<1> QED BY <1>9, <1>11, <1>12 DEF HInv

\* A new run is taken later than anything stored, and alone or overlapping.
LEMMA CollectKeeps ==
  ASSUME TypeInv, HInv, NEW p \in Runners, NEW flags, Collect(p, flags)
  PROVE  HInv'
<1> SUFFICES ASSUME ~overlapped' PROVE HInv'
  BY DEF HInv
<1> DEFINE r == [pc |-> "latest", flags |-> flags, note |-> Unknown, left |-> Users,
        creds |-> [u \in Users |-> Reference], mode |-> "reference", id |-> 0, got |-> "reference",
        snap |-> [taken |-> runs + 1, state |-> machine, from |-> Unknown,
                  material |-> FALSE, published |-> FALSE]]
<1>1. run' = [run EXCEPT ![p] = r] /\ runs' = runs + 1 /\ snaps' = snaps
  BY DEF Collect
<1>2. runs \in Nat /\ snaps \subseteq Taken /\ run \in [Runners -> {NoRun} \cup Run]
  BY DEF TypeInv, PageType
<1>3. r.pc = "latest" /\ r.snap.taken = runs + 1
  OBVIOUS
<1> HIDE DEF r
<1>4. run'[p] = r /\ \A q \in Runners : q # p => run'[q] = run[q]
  BY <1>1, <1>2
<1>5. ~overlapped /\ \A q \in Runners : run[q] \notin Run
  BY NoRunIsNone DEF Collect, Running
<1>6. \A s \in snaps : s.taken \in Nat /\ s.taken <= runs /\ Told(snaps, s)
  BY <1>2, <1>5 DEF HInv, Taken
<1>7. \A q \in Runners : run'[q] \in Run => q = p
  BY <1>4, <1>5
<1>8. SnapOK(snaps', runs', run'[p])
  BY <1>1, <1>2, <1>3, <1>4, <1>6 DEF SnapOK
<1>9. \A s \in snaps' : s.taken <= runs' /\ Told(snaps', s)
  BY <1>1, <1>2, <1>6
<1> QED BY <1>7, <1>8, <1>9 DEF HInv

\* It is compared with the newest row.
LEMMA LatestKeeps ==
  ASSUME TypeInv, HInv, NEW p \in Runners, Latest(p)
  PROVE  HInv'
<1>1. run[p] \in Run /\ run[p].pc = "latest" /\ UNCHANGED <<snaps, runs, overlapped>>
  BY InRun DEF TypeInv, Latest
<1>2. PICK state \in LatestState : run' = [run EXCEPT ![p].pc = "explain", ![p].snap.from = state]
  BY DEF Latest
<1> DEFINE snap == [run[p].snap EXCEPT !.from = state]
           r == [run[p] EXCEPT !.pc = "explain", !.snap = snap]
<1>3. snap.taken = run[p].snap.taken /\ snap.from = state
  BY <1>1 DEF Run, Taken
<1>4. r.pc = "explain" /\ r.snap = snap
  <2> HIDE DEF snap
  <2> QED BY <1>1 DEF Run
<1>5. run' = [run EXCEPT ![p] = r]
  BY <1>2
<1>6. ~overlapped => SnapOK(snaps, runs, run[p])
  BY <1>1 DEF HInv
<1>7. \/ state = Unknown
      \/ \E s \in snaps : s.state = state /\ \A other \in snaps : other.taken <= s.taken
  BY DEF LatestState, NewestOf
<1> HIDE DEF r, snap
<1>8. ~overlapped => SnapOK(snaps, runs, r)
  BY <1>1, <1>3, <1>4, <1>6, <1>7 DEF SnapOK, Fresh
<1>9. run'[p] = r /\ Others(p)
  BY <1>5, OneRun
<1> QED BY <1>1, <1>8, <1>9, NothingStored

\* Compare finds a change unless the newest row is close.
LEMMA ExplainKeeps ==
  ASSUME TypeInv, HInv, NEW p \in Runners, Explain(p)
  PROVE  HInv'
<1>1. run[p] \in Run /\ run[p].pc = "explain" /\ UNCHANGED <<snaps, runs, overlapped>>
  BY InRun DEF TypeInv, Explain
<1>2. PICK note : run' = [run EXCEPT ![p] = IF "dryRun" \in run[p].flags THEN NoRun ELSE
                    [run[p] EXCEPT !.pc = "store", !.note = note,
                                   !.snap.material = Material(run[p].snap)]]
  BY DEF Explain
<1> DEFINE snap == [run[p].snap EXCEPT !.material = Material(run[p].snap)]
           r == [run[p] EXCEPT !.pc = "store", !.note = note, !.snap = snap]
<1>3. /\ snap.taken = run[p].snap.taken /\ snap.state = run[p].snap.state
      /\ snap.from = run[p].snap.from /\ snap.material = Material(run[p].snap)
  BY <1>1 DEF Run, Taken
<1>4. r.pc = "store" /\ r.snap = snap
  <2> HIDE DEF snap
  <2> QED BY <1>1 DEF Run
<1>5. run' = [run EXCEPT ![p] = NoRun] \/ run' = [run EXCEPT ![p] = r]
  BY <1>2
<1> HIDE DEF r, snap
<1>6. ASSUME ~overlapped PROVE SnapOK(snaps, runs, r)
  <2>1. SnapOK(snaps, runs, run[p]) /\ \A s \in snaps : s.taken <= runs
    BY <1>1, <1>6 DEF HInv
  <2>2. snap.taken = runs /\ runs \in Nat /\ \A s \in snaps : s.taken \in Nat /\ s.taken < runs
    BY <1>1, <1>3, <2>1 DEF SnapOK, Fresh, TypeInv, PageType, Taken
  <2>3. Told(snaps, snap)
    <3>1. CASE Material(run[p].snap)
      BY <1>3, <3>1 DEF Told
    <3>2. CASE ~Material(run[p].snap)
      <4>1. snap.from # Unknown /\ ~Moved(snap.from, snap.state)
        BY <1>3, <3>2 DEF Material
      <4>2. PICK s \in snaps : s.state = snap.from /\ \A other \in snaps : other.taken <= s.taken
        BY <1>1, <1>3, <2>1, <4>1 DEF SnapOK
      <4>3. /\ s.taken < snap.taken /\ ~Moved(s.state, snap.state)
            /\ \A other \in snaps : ~(s.taken < other.taken /\ other.taken < snap.taken)
        BY <2>2, <4>1, <4>2
      <4> QED BY <4>3 DEF Told
    <3> QED BY <3>1, <3>2
  <2> QED BY <1>4, <2>2, <2>3 DEF SnapOK
<1>7. Others(p) /\ (run'[p] = NoRun \/ run'[p] = r)
  BY <1>5, OneRun
<1> QED BY <1>1, <1>6, <1>7, NothingStored

\* SaveSnapshot replaces the row of the same run only.
LEMMA StoreKeeps ==
  ASSUME TypeInv, HInv, NEW p \in Runners, StoreSnapshot(p) \/ RecordPublished(p)
  PROVE  HInv'
<1>1. /\ run[p] \in Run /\ UNCHANGED <<runs, overlapped>> /\ run[p].pc \notin {"latest", "explain"}
      /\ run[p].snap \in Taken
  BY InRun DEF TypeInv, StoreSnapshot, RecordPublished, Run
<1>2. CASE StoreSnapshot(p)
  <2> DEFINE r == [run[p] EXCEPT !.pc = "mark"]
  <2>1. r.pc = "mark" /\ r.snap = run[p].snap
    BY <1>1 DEF Run
  <2>2. run' = [run EXCEPT ![p] = r] /\ SaveSnapshot(run[p].snap)
    BY <1>2 DEF StoreSnapshot, Goto
  <2>3. Like(run[p].snap, run[p].snap) /\ r.pc \notin Fresh
    BY <2>1 DEF Like, Fresh
  <2> HIDE DEF r
  <2>4. Others(p) /\ Later(p)
    BY <2>1, <2>2, <2>3, OneRun DEF Later
  <2> QED BY <1>1, <2>2, <2>3, <2>4, SavedOnce
<1>3. CASE RecordPublished(p)
  <2> DEFINE snap == [run[p].snap EXCEPT !.published = TRUE]
  <2>1. snap \in Taken /\ Like(run[p].snap, snap)
    BY <1>1 DEF Taken, Like
  <2>2. run' = [run EXCEPT ![p] = NoRun] /\ SaveSnapshot(snap)
    BY <1>3 DEF RecordPublished, End
  <2> HIDE DEF snap
  <2>3. run'[p] = NoRun /\ Others(p)
    BY <2>2, OneRun
  <2>4. Later(p)
    BY <2>3 DEF Later
  <2> QED BY <1>1, <2>1, <2>2, <2>3, <2>4, SavedOnce
<1> QED BY <1>2, <1>3

\* What follows the stored row leaves the history alone.
LEMMA LaterKeeps ==
  ASSUME TypeInv, HInv, NEW p \in Runners,
         \/ MarkRun(p) \/ ReadPolicy(p) \/ MarkCredential(p) \/ Publish(p)
         \/ \E u \in Users : Credential(p, u)
  PROVE  HInv'
<1>1. run[p] \in Run /\ run[p].pc \notin Fresh /\ UNCHANGED <<snaps, runs, overlapped>>
  BY InRun DEF TypeInv, Fresh, MarkRun, ReadPolicy, MarkCredential, Publish, Credential, credVars
<1> DEFINE Same(r) == r.snap = run[p].snap /\ r.pc \notin Fresh
<1>2. \/ run' = [run EXCEPT ![p] = NoRun]
      \/ \E r : run' = [run EXCEPT ![p] = r] /\ Same(r)
  <2>1. CASE MarkRun(p) \/ MarkCredential(p) \/ Publish(p)
    <3>1. PICK pc \in {"policy", "creds", "record"} :
            run' = [run EXCEPT ![p] = NoRun] \/ run' = [run EXCEPT ![p] = [run[p] EXCEPT !.pc = pc]]
      BY <2>1 DEF MarkRun, MarkCredential, Publish, Goto, End
    <3>2. Same([run[p] EXCEPT !.pc = pc])
      BY <1>1 DEF Run, Fresh
    <3> HIDE DEF Same
    <3> QED BY <3>1, <3>2
  <2>2. CASE ReadPolicy(p)
    <3>1. PICK mode : run' = [run EXCEPT ![p] = [run[p] EXCEPT !.pc = "creds", !.mode = mode]]
      BY <2>2 DEF ReadPolicy, Policy
    <3>2. Same([run[p] EXCEPT !.pc = "creds", !.mode = mode])
      BY <1>1 DEF Run, Fresh
    <3> HIDE DEF Same
    <3> QED BY <3>1, <3>2
  <2>3. ASSUME NEW u \in Users, Credential(p, u)
        PROVE  \E r : run' = [run EXCEPT ![p] = r] /\ Same(r)
    <3>1. PICK pc \in {"creds", "pushed"}, got \in Mode, id \in Nat, shown \in ShownAs :
           /\ ShowsUser(p, u, pc, id, got, shown)
           /\ \/ pc = "creds" /\ NoLink(shown)
              \/ pc = "pushed" /\ StoredFirst(id, got, shown)
      BY <2>3, CredentialStep
    <3> DEFINE left == run[p].left \ {u}
               creds == [run[p].creds EXCEPT ![u] = shown]
               r == [run[p] EXCEPT !.pc = pc, !.left = left, !.id = id, !.got = got,
                                   !.creds = creds]
    <3>2. Same(r)
      <4> HIDE DEF left, creds
      <4> QED BY <1>1 DEF Run, Fresh
    <3>3. run' = [run EXCEPT ![p] = r]
      BY <3>1 DEF ShowsUser
    <3> HIDE DEF r, Same
    <3> QED BY <3>2, <3>3
  <2> QED BY <2>1, <2>2, <2>3
<1>3. Others(p) /\ Later(p)
  <2> HIDE DEF Same
  <2>1. CASE run' = [run EXCEPT ![p] = NoRun]
    <3>1. run'[p] = NoRun /\ Others(p)
      BY <2>1, OneRun
    <3> QED BY <3>1 DEF Later
  <2>2. ASSUME NEW r, run' = [run EXCEPT ![p] = r], Same(r)
        PROVE  Others(p) /\ Later(p)
    <3>1. run'[p] = r /\ Others(p)
      BY <2>2, OneRun
    <3> QED BY <2>2, <3>1 DEF Later, Same
  <2> QED BY <1>2, <2>1, <2>2
<1> QED BY <1>1, <1>3, StoredStays

\* Nothing is stored at the start; every step keeps HInv.
LEMMA HInit == Init => HInv
<1> SUFFICES ASSUME Init PROVE HInv
  OBVIOUS
<1>1. snaps = {} /\ \A p \in Runners : run[p] \notin Run
  BY NoRunIsNone DEF Init, ServerPageInit
<1> QED BY <1>1 DEF HInv

LEMMA HNext ==
  ASSUME TypeInv, HInv, [Next]_vars
  PROVE  HInv'
<1>1. CASE UNCHANGED <<snaps, runs, run, overlapped>>
  BY <1>1 DEF HInv
<1>2. ASSUME NEW p \in Timer, TimerRun(p) PROVE HInv'
  BY <1>2, CollectKeeps DEF TimerRun, Runners
<1>3. ASSUME NEW p \in Commands, Command(p) PROVE HInv'
  BY <1>3, CollectKeeps DEF Command, Runners
<1>4. ASSUME NEW p \in Runners, RunStep(p) PROVE HInv'
  BY <1>4, LatestKeeps, ExplainKeeps, StoreKeeps, LaterKeeps DEF RunStep
<1>5. ASSUME NEW p \in Runners, KillRun(p) PROVE HInv'
  <2>1. run[p] \in Run /\ run' = [run EXCEPT ![p] = NoRun]
       /\ UNCHANGED <<snaps, runs, overlapped>>
    BY <1>5, NoRunIsNone DEF KillRun, Running, End, TypeInv, PageType
  <2>2. run'[p] = NoRun /\ Others(p)
    BY <2>1, OneRun
  <2> QED BY <2>1, <2>2, NothingStored
<1>6. CASE \/ CredentialsNext /\ UNCHANGED pageVars
           \/ \E p \in Commands : Prompt(p)
           \/ MachineChanges \/ TimePasses \/ UNCHANGED vars
  BY <1>1, <1>6 DEF Prompt, MachineChanges, TimePasses, vars, pageVars
<1> QED BY <1>2, <1>3, <1>4, <1>5, <1>6 DEF Next

\* Unless runs overlapped, the first snapshot, and each whose state moved since
\* the one before it, is recorded as material (Store.LatestSnapshot, SaveSnapshot,
\* snapshot.Compare), although runs fail, are killed or save their row again.
THEOREM HistoryComplete == Spec => []HistoryHasEveryChange
<1>1. HInv => HistoryHasEveryChange
  <2> SUFFICES ASSUME HInv, ~overlapped, NEW t \in snaps, ~t.material
               PROVE  \E s \in snaps : Consecutive(s, t) /\ ~Moved(s.state, t.state)
    BY DEF HistoryHasEveryChange
  <2>1. Told(snaps, t)
    BY DEF HInv
  <2> QED BY <2>1 DEF Told, Consecutive
<1>2. Init => TypeInv /\ HInv
  BY TypeInit, HInit
<1>3. TypeInv /\ HInv /\ [Next]_vars => (TypeInv /\ HInv)'
  BY TypeNext, HNext
<1> QED BY <1>1, <1>2, <1>3, PTL DEF Spec

----------------------------------------------------------------------------
\* Everything stays within what was recorded, seen and allowed.

Known == States \cup {Unknown}

\* A push marks with the policy it stored with.
PushFits(q) ==
  /\ \A e \in q.left : e[2] \in Row
  /\ q.row \in Row
  /\ q.pc = "mark" => q.mode \in Modes

RunFits(r) ==
  /\ r.snap \in Snap /\ r.note \in Known
  /\ r.mode \in Modes \cup {"reference"} /\ r.creds \in [Users -> Shown]
  /\ r.pc = "pushed" => r.got \in Modes

CredFits ==
  /\ row \in [Keys -> Row] /\ manager \in [Keys -> 0..MaxPasswords]
  /\ \A p \in Pushers : PushFits(push[p])
  /\ recorded \in 0..MaxPasswords /\ failures \in 0..MaxFailures

PageFits ==
  /\ machine \in States /\ due \in BOOLEAN /\ explained \in Known /\ runs \in 0..MaxSnapshots
  /\ moves \in 0..MaxChanges
  /\ snaps \subseteq Snap /\ \A s, t \in snaps : s.taken = t.taken => s = t
  /\ page \in PageRecord
  /\ \A p \in Runners : run[p] \in Run => RunFits(run[p])

FitInv == CredFits /\ PageFits

\* What fails is counted up to the bound.
LEMMA FailuresFit ==
  ASSUME CredFits, CanFail \/ failures' = failures
  PROVE  failures' \in 0..MaxFailures
BY CredentialsAssumption DEF CredFits, CanFail

\* A row that is recorded, or marked with a policy, is one of the cache's.
LEMMA PutFits ==
  ASSUME CredFits, NEW k \in Keys, Put(k)
  PROVE  row' \in [Keys -> Row] /\ recorded' \in 0..MaxPasswords
<1> DEFINE new == [id |-> IF row[k] = NoRow THEN recorded + 1 ELSE row[k].id,
                   password |-> recorded + 1, at |-> recorded + 1, pushed |-> "no"]
<1>1. row[k] \in Row /\ recorded + 1 \in 0..MaxPasswords
  BY CredentialsAssumption DEF CredFits, Put
<1>2. row[k].id \in 0..MaxPasswords
  BY <1>1 DEF Row
<1>3. new \in Row
  BY <1>1, <1>2 DEF Row
<1>4. row' = [row EXCEPT ![k] = new] /\ recorded' = recorded + 1
  BY DEF Put
<1> HIDE DEF new
<1> QED BY <1>1, <1>3, <1>4 DEF CredFits

LEMMA MarkFits ==
  ASSUME CredFits, NEW id, NEW mode \in Modes, MarkPushed(id, mode)
  PROVE  row' \in [Keys -> Row]
<1>1. \A r \in Row : [r EXCEPT !.pushed = mode] \in Row
  BY DEF Row
<1> QED BY <1>1 DEF CredFits, MarkPushed

\* A password of a row that is stored.
LEMMA StoreFits ==
  ASSUME CredFits, NEW k \in Keys, NEW r \in Row,
         \/ manager' = IF policy = "manager" THEN [manager EXCEPT ![k] = r.password] ELSE manager
         \/ manager' = manager
  PROVE  manager' \in [Keys -> 0..MaxPasswords]
<1>1. r.password \in 0..MaxPasswords
  BY DEF Row
<1> QED BY <1>1 DEF CredFits

\* A step of one push.
LEMMA OnePushFits ==
  ASSUME TypeInv, CredFits, NEW p \in Pushers, NEW q, PushFits(q),
         push' = [push EXCEPT ![p] = q]
  PROVE  \A s \in Pushers : PushFits(push'[s])
BY DEF TypeInv, CredType, CredFits

LEMMA CredentialsFit ==
  ASSUME TypeInv, CredFits, CredentialsNext
  PROVE  CredFits'
<1>1. CredType /\ \A p \in Pushers : push[p] \in Pushing /\ PushFits(push[p])
  BY DEF TypeInv, CredType, CredFits
<1>2. NoRow \in Row /\ NoRow.id = 0
  BY CredentialsAssumption DEF NoRow, Row, NoPassword
<1>3. ASSUME NEW k \in Keys, Record(k) PROVE CredFits'
  BY <1>3, PutFits DEF Record, CredFits
<1>4. CASE ForgetCredentials
  <2>1. row' \in [Keys -> Row]
    BY <1>2, <1>4 DEF ForgetCredentials, CredFits
  <2>2. failures' \in 0..MaxFailures
    BY <1>4, FailuresFit DEF ForgetCredentials
  <2> QED BY <1>4, <2>1, <2>2 DEF ForgetCredentials, CredFits
<1>5. CASE PolicyChanges \/ RefreshDefaults
  BY <1>5 DEF PolicyChanges, RefreshDefaults, CredFits
<1>6. ASSUME NEW p \in Pushers, PushList(p) PROVE CredFits'
  <2> DEFINE entries == {<<k, row[k]>> : k \in {l \in Keys : row[l] # NoRow}}
             q == [push[p] EXCEPT !.pc = "next", !.left = entries]
  <2>1. \A e \in entries : e[2] \in Row
    BY DEF CredFits
  <2>2. PushFits(q)
    <3>1. q.left = entries /\ q.pc = "next" /\ q.row = push[p].row
      <4> HIDE DEF entries
      <4> QED BY <1>1 DEF Pushing
    <3> HIDE DEF q, entries
    <3> QED BY <1>1, <2>1, <3>1 DEF PushFits
  <2>3. push' = [push EXCEPT ![p] = q]
    BY <1>6 DEF PushList, Policy
  <2>4. \A s \in Pushers : PushFits(push'[s])
    <3> HIDE DEF q
    <3> QED BY <2>2, <2>3, OnePushFits
  <2>5. failures' \in 0..MaxFailures
    BY <1>6, FailuresFit DEF PushList, Policy
  <2> QED BY <1>6, <2>4, <2>5 DEF PushList, CredFits
<1>7. ASSUME NEW p \in Pushers, PushStore(p) PROVE CredFits'
  <2>1. PICK e \in push[p].left :
          Store(e[1], e[2].password,
                push' = [push EXCEPT ![p] = [pc |-> "mark", left |-> push[p].left \ {e},
                                             row |-> e[2], mode |-> policy]],
                push' = [push EXCEPT ![p] = [pc |-> AfterFailure, left |-> push[p].left \ {e},
                                             row |-> e[2], mode |-> "manager"]])
    BY <1>7 DEF PushStore
  <2>2. e[1] \in Keys /\ e[2] \in Row /\ policy \in Modes
    BY <1>1, <2>1 DEF Pushing, Entry, PushFits, CredType
  <2>3. manager' \in [Keys -> 0..MaxPasswords]
    BY <2>1, <2>2, StoreFits DEF Store
  <2>4. PICK pc \in {"next", "mark"}, mode \in {policy, "manager"} :
          /\ pc = "mark" => mode = policy
          /\ push' = [push EXCEPT ![p] = [pc |-> pc, left |-> push[p].left \ {e},
                                          row |-> e[2], mode |-> mode]]
    BY <2>1 DEF Store, AfterFailure
  <2>5. PushFits([pc |-> pc, left |-> push[p].left \ {e}, row |-> e[2], mode |-> mode])
    BY <1>1, <2>2, <2>4 DEF PushFits
  <2>6. \A s \in Pushers : PushFits(push'[s])
    BY <2>4, <2>5, OnePushFits
  <2>7. failures' \in 0..MaxFailures
    BY <2>1, FailuresFit DEF Store
  <2> QED BY <1>7, <2>3, <2>6, <2>7 DEF PushStore, CredFits
<1>8. ASSUME NEW p \in Pushers, PushMark(p) PROVE CredFits'
  <2> DEFINE q == [push[p] EXCEPT !.pc = "next"]
  <2>1. PushFits(q)
    BY <1>1 DEF Pushing, PushFits
  <2>2. push' = [push EXCEPT ![p] = q]
    BY <1>8 DEF PushMark
  <2>3. \A s \in Pushers : PushFits(push'[s])
    <3> HIDE DEF q
    <3> QED BY <2>1, <2>2, OnePushFits
  <2>4. row' \in [Keys -> Row]
    BY <1>1, <1>8, MarkFits DEF PushMark, PushFits
  <2> QED BY <1>8, <2>3, <2>4 DEF PushMark, CredFits
<1>9. ASSUME NEW p \in Pushers, PushEnd(p) PROVE CredFits'
  <2>1. PushFits(Idle)
    BY <1>2 DEF Idle, PushFits
  <2>2. \A s \in Pushers : PushFits(push'[s])
    BY <1>9, <2>1, OnePushFits DEF PushEnd
  <2>3. failures' \in 0..MaxFailures
    BY <1>9, FailuresFit DEF PushEnd
  <2> QED BY <1>9, <2>2, <2>3 DEF PushEnd, CredFits
<1> QED BY <1>3, <1>4, <1>5, <1>6, <1>7, <1>8, <1>9 DEF CredentialsNext

\* A step of one run, which goes on with r or ends.
LEMMA OneRunFits ==
  ASSUME TypeInv, PageFits, NEW p \in Runners, NEW r, RunFits(r) \/ r = NoRun,
         run' = [run EXCEPT ![p] = r]
  PROVE  \A q \in Runners : run'[q] \in Run => RunFits(run'[q])
BY NoRunIsNone DEF TypeInv, PageType, PageFits

\* A run that goes on without a new snapshot, note or account.
LEMMA GoingFits ==
  ASSUME TypeInv, PageFits, NEW p \in Runners, run[p] \in Run, NEW pc,
         Goto(p, pc) \/ End(p), pc # "pushed"
  PROVE  \A q \in Runners : run'[q] \in Run => RunFits(run'[q])
<1>1. CASE End(p)
  BY <1>1, OneRunFits DEF End
<1>2. CASE Goto(p, pc)
  <2>1. RunFits([run[p] EXCEPT !.pc = pc])
    BY DEF PageFits, Run, RunFits
  <2>2. run' = [run EXCEPT ![p] = [run[p] EXCEPT !.pc = pc]]
    BY <1>2 DEF Goto
  <2> QED BY <2>1, <2>2, OneRunFits
<1> QED BY <1>1, <1>2

\* A snapshot that is saved replaces the one of the same run.
LEMMA SaveFits ==
  ASSUME PageFits, NEW snap \in Snap, SaveSnapshot(snap)
  PROVE  snaps' \subseteq Snap /\ \A s, t \in snaps' : s.taken = t.taken => s = t
BY DEF PageFits, SaveSnapshot

LEMMA CollectFits ==
  ASSUME TypeInv, PageFits, NEW p \in Runners, NEW flags, Collect(p, flags)
  PROVE  PageFits'
<1> DEFINE snap == [taken |-> runs + 1, state |-> machine, from |-> Unknown,
                    material |-> FALSE, published |-> FALSE]
           creds == [u \in Users |-> Reference]
           r == [pc |-> "latest", flags |-> flags, note |-> Unknown, left |-> Users,
                 creds |-> creds, mode |-> "reference", id |-> 0,
                 got |-> "reference", snap |-> snap]
<1>1. runs + 1 \in 1..MaxSnapshots /\ runs' = runs + 1
  BY ServerPageAssumption DEF Collect, PageFits
<1>2. snap \in Snap
  BY <1>1 DEF Snap, PageFits
<1>3. creds \in [Users -> Shown]
  BY DEF Reference, Shown
<1>4. RunFits(r)
  <2> HIDE DEF snap, creds
  <2> QED BY <1>2, <1>3 DEF RunFits, Known
<1>5. run' = [run EXCEPT ![p] = r]
  BY DEF Collect
<1> HIDE DEF r
<1>6. \A q \in Runners : run'[q] \in Run => RunFits(run'[q])
  BY <1>4, <1>5, OneRunFits
<1>7. runs' \in 0..MaxSnapshots
  BY <1>1, ServerPageAssumption
<1> QED BY <1>6, <1>7 DEF PageFits, Collect

\* The steps of a run until its snapshot is stored, and the last.
LEMMA SnapshotFits ==
  ASSUME TypeInv, FitInv, NEW p \in Runners,
         Latest(p) \/ Explain(p) \/ StoreSnapshot(p) \/ MarkRun(p) \/ RecordPublished(p)
  PROVE  FitInv'
<1>1. PageFits /\ CredFits /\ run[p] \in Run
  BY InRun DEF TypeInv, FitInv, Latest, Explain, StoreSnapshot, MarkRun, RecordPublished
<1>2. RunFits(run[p]) /\ run[p].snap \in Snap
  BY <1>1 DEF PageFits, RunFits
<1>3. CASE Latest(p)
  <2>1. PICK state \in LatestState :
          run' = [run EXCEPT ![p].pc = "explain", ![p].snap.from = state]
    BY <1>3 DEF Latest
  <2> DEFINE snap == [run[p].snap EXCEPT !.from = state]
             r == [run[p] EXCEPT !.pc = "explain", !.snap = snap]
  <2>2. state \in Known
    BY <1>1 DEF LatestState, NewestOf, PageFits, Snap, Known
  <2>3. snap \in Snap
    BY <1>2, <2>2 DEF Snap, Known
  <2>4. RunFits(r)
    <3> HIDE DEF snap
    <3> QED BY <1>1, <1>2, <2>3 DEF Run, RunFits
  <2>5. run' = [run EXCEPT ![p] = r]
    BY <2>1
  <2>6. \A q \in Runners : run'[q] \in Run => RunFits(run'[q])
    <3> HIDE DEF r
    <3> QED BY <1>1, <2>4, <2>5, OneRunFits
  <2> QED BY <1>1, <1>3, <2>6 DEF FitInv, CredFits, PageFits, Latest, credVars
<1>4. CASE Explain(p)
  <2> DEFINE snap == [run[p].snap EXCEPT !.material = Material(run[p].snap)]
             next(note) == [run[p] EXCEPT !.pc = "store", !.note = note, !.snap = snap]
  <2>1. PICK note \in {Unknown, explained, run[p].snap.state} :
          run' = [run EXCEPT ![p] = IF "dryRun" \in run[p].flags THEN NoRun ELSE
                    [run[p] EXCEPT !.pc = "store", !.note = note,
                                   !.snap.material = Material(run[p].snap)]]
    BY <1>4 DEF Explain
  <2>2. note \in Known /\ run[p].snap.state \in Known
    BY <1>1, <1>2 DEF Known, PageFits, Snap
  <2>3. snap \in Snap
    BY <1>2 DEF Snap, Material, Moved
  <2>4. RunFits(next(note))
    <3> HIDE DEF snap
    <3> QED BY <1>1, <1>2, <2>2, <2>3 DEF Run, RunFits
  <2>5. run' = [run EXCEPT ![p] = IF "dryRun" \in run[p].flags THEN NoRun ELSE next(note)]
    BY <2>1
  <2>6. \A q \in Runners : run'[q] \in Run => RunFits(run'[q])
    <3> HIDE DEF next
    <3> QED BY <1>1, <2>4, <2>5, OneRunFits
  <2>7. explained' \in Known
    BY <1>1, <1>4, <2>2 DEF PageFits, Explain
  <2>8. failures' \in 0..MaxFailures
    BY <1>1, <1>4, FailuresFit DEF Explain
  <2> QED BY <1>1, <1>4, <2>6, <2>7, <2>8 DEF FitInv, CredFits, PageFits, Explain
<1>5. CASE StoreSnapshot(p)
  <2>1. \A q \in Runners : run'[q] \in Run => RunFits(run'[q])
    BY <1>1, <1>5, GoingFits DEF StoreSnapshot
  <2>2. snaps' \subseteq Snap /\ \A s, t \in snaps' : s.taken = t.taken => s = t
    BY <1>1, <1>2, <1>5, SaveFits DEF StoreSnapshot
  <2> QED BY <1>1, <1>5, <2>1, <2>2 DEF FitInv, CredFits, PageFits, StoreSnapshot, credVars
<1>6. CASE MarkRun(p)
  <2>1. \A q \in Runners : run'[q] \in Run => RunFits(run'[q])
    BY <1>1, <1>6, GoingFits DEF MarkRun
  <2> QED BY <1>1, <1>6, <2>1 DEF FitInv, CredFits, PageFits, MarkRun, credVars
<1>7. CASE RecordPublished(p)
  <2>1. \A q \in Runners : run'[q] \in Run => RunFits(run'[q])
    BY <1>1, <1>7, GoingFits DEF RecordPublished
  <2>2. [run[p].snap EXCEPT !.published = TRUE] \in Snap
    BY <1>2 DEF Snap
  <2>3. snaps' \subseteq Snap /\ \A s, t \in snaps' : s.taken = t.taken => s = t
    BY <1>1, <1>7, <2>2, SaveFits DEF RecordPublished
  <2> QED BY <1>1, <1>7, <2>1, <2>3 DEF FitInv, CredFits, PageFits, RecordPublished, credVars
<1> QED BY <1>3, <1>4, <1>5, <1>6, <1>7

\* What Credential does to a run and to the manager, whichever way it goes.
LEMMA CredentialFits ==
  ASSUME TypeInv, FitInv, NEW p \in Runners, run[p] \in Run, NEW u \in Users, Credential(p, u)
  PROVE  FitInv'
<1>1. PageFits /\ CredFits /\ RunFits(run[p]) /\ policy \in Modes
  BY DEF FitInv, PageFits, TypeInv, CredType
<1> DEFINE sh(mode, key) == IF mode = "reference" THEN Reference ELSE [mode |-> mode, key |-> key]
           next(pc, mode, id, key) ==
             [run[p] EXCEPT !.pc = pc, !.left = run[p].left \ {u}, !.id = id, !.got = mode,
                            !.creds = [run[p].creds EXCEPT ![u] = sh(mode, key)]]
           shows(pc, mode, id, key) == run' = [run EXCEPT ![p] = next(pc, mode, id, key)]
<1>2. \A k \in Newest(u) : k \in Keys /\ row[k] \in Row
  BY <1>1 DEF Newest, Cached, CredFits
<1>3. ASSUME NEW pc \in RunPc, NEW mode \in Modes \cup {"reference"}, NEW id,
             NEW key \in Keys \cup {<<>>}, pc = "pushed" => mode \in Modes,
             shows(pc, mode, id, key)
      PROVE  \A q \in Runners : run'[q] \in Run => RunFits(run'[q])
  <2>1. sh(mode, key) \in Shown
    BY DEF Shown, Reference
  <2> DEFINE creds == [run[p].creds EXCEPT ![u] = sh(mode, key)]
  <2>2. creds \in [Users -> Shown]
    <3> HIDE DEF sh
    <3> QED BY <1>1, <2>1 DEF RunFits
  <2>3. RunFits(next(pc, mode, id, key))
    <3> HIDE DEF creds, sh
    <3>1. RunFits([run[p] EXCEPT !.pc = pc, !.left = run[p].left \ {u}, !.id = id, !.got = mode,
                                 !.creds = creds])
      BY <1>1, <1>3, <2>2 DEF Run, RunFits
    <3> QED BY <3>1 DEF creds
  <2> HIDE DEF next
  <2> QED BY <1>1, <1>3, <2>3, OneRunFits
<1>4. UNCHANGED <<row, push, recorded, machine, snaps, due, explained, page, runs, moves>>
  BY DEF Credential
<1>5. SUFFICES ASSUME TRUE
               PROVE  /\ \A q \in Runners : run'[q] \in Run => RunFits(run'[q])
                      /\ manager' \in [Keys -> 0..MaxPasswords]
                      /\ failures' \in 0..MaxFailures
  BY <1>1, <1>4 DEF FitInv, CredFits, PageFits
<1>6. CASE /\ shows("creds", "reference", 0, <<>>)
           /\ UNCHANGED <<manager, failures>>
  <2>1. \A q \in Runners : run'[q] \in Run => RunFits(run'[q])
    <3> HIDE DEF shows
    <3> QED BY <1>3, <1>6 DEF RunPc
  <2> QED BY <1>1, <1>6, <2>1 DEF CredFits
<1>7. ASSUME NEW k \in Newest(u), run[p].mode = "inline",
             shows("creds", "inline", row[k].id, k), UNCHANGED <<manager, failures>>
      PROVE  /\ \A q \in Runners : run'[q] \in Run => RunFits(run'[q])
             /\ manager' \in [Keys -> 0..MaxPasswords]
             /\ failures' \in 0..MaxFailures
  <2>1. "inline" \in Modes
    BY <1>1, <1>7 DEF RunFits
  <2>2. \A q \in Runners : run'[q] \in Run => RunFits(run'[q])
    <3> HIDE DEF shows
    <3> QED BY <1>2, <1>3, <1>7, <2>1 DEF RunPc
  <2> QED BY <1>1, <1>7, <2>2 DEF CredFits
<1>8. ASSUME NEW k \in Newest(u),
             Store(k, row[k].password, shows("pushed", policy, row[k].id, k),
                   shows("creds", Otherwise, row[k].id, k))
      PROVE  /\ \A q \in Runners : run'[q] \in Run => RunFits(run'[q])
             /\ manager' \in [Keys -> 0..MaxPasswords]
             /\ failures' \in 0..MaxFailures
  <2> HIDE DEF shows
  <2>1. manager' \in [Keys -> 0..MaxPasswords]
    BY <1>1, <1>2, <1>8, StoreFits DEF Store
  <2>2. failures' \in 0..MaxFailures
    BY <1>1, <1>8, FailuresFit DEF Store
  <2>3. shows("pushed", policy, row[k].id, k) \/ shows("creds", "reference", row[k].id, k)
    BY <1>8 DEF Store, Otherwise
  <2>4. \A q \in Runners : run'[q] \in Run => RunFits(run'[q])
    BY <1>1, <1>2, <1>3, <2>3 DEF RunPc
  <2> QED BY <2>1, <2>2, <2>4
<1>9. \/ shows("creds", "reference", 0, <<>>) /\ UNCHANGED <<manager, failures>>
      \/ \E k \in Newest(u) : /\ run[p].mode = "inline" /\ shows("creds", "inline", row[k].id, k)
                              /\ UNCHANGED <<manager, failures>>
      \/ \E k \in Newest(u) : Store(k, row[k].password, shows("pushed", policy, row[k].id, k),
                                   shows("creds", Otherwise, row[k].id, k))
  BY DEF Credential
<1> HIDE DEF shows
<1> QED BY <1>6, <1>7, <1>8, <1>9

\* The other steps from the policy to the published page, and a kill.
LEMMA AccountsFit ==
  ASSUME TypeInv, FitInv, NEW p \in Runners,
         ReadPolicy(p) \/ MarkCredential(p) \/ Publish(p) \/ KillRun(p)
  PROVE  FitInv'
<1>1. PageFits /\ CredFits /\ policy \in Modes /\ cached \in Modes /\ run[p] \in Run
  BY InRun, NoRunIsNone DEF TypeInv, CredType, PageType, FitInv, ReadPolicy, MarkCredential,
                           Publish, KillRun, Running
<1>2. RunFits(run[p])
  BY <1>1 DEF PageFits
<1>3. CASE ReadPolicy(p)
  <2>1. PICK mode \in {policy, cached} : run' = [run EXCEPT ![p].pc = "creds", ![p].mode = mode]
    BY <1>3 DEF ReadPolicy, Policy
  <2>2. RunFits([run[p] EXCEPT !.pc = "creds", !.mode = mode])
    BY <1>1, <1>2 DEF Run, RunFits
  <2>3. run' = [run EXCEPT ![p] = [run[p] EXCEPT !.pc = "creds", !.mode = mode]]
    BY <2>1
  <2>4. \A q \in Runners : run'[q] \in Run => RunFits(run'[q])
    BY <1>1, <2>2, <2>3, OneRunFits
  <2>5. failures' \in 0..MaxFailures
    BY <1>1, <1>3, FailuresFit DEF ReadPolicy, Policy
  <2> QED BY <1>1, <1>3, <2>4, <2>5 DEF FitInv, CredFits, PageFits, ReadPolicy
<1>4. CASE MarkCredential(p)
  <2>1. \A q \in Runners : run'[q] \in Run => RunFits(run'[q])
    BY <1>1, <1>4, GoingFits DEF MarkCredential
  <2>2. row' \in [Keys -> Row]
    BY <1>1, <1>2, <1>4, MarkFits DEF MarkCredential, RunFits
  <2> QED BY <1>1, <1>4, <2>1, <2>2 DEF FitInv, CredFits, PageFits, MarkCredential
<1>5. CASE Publish(p)
  <2> DEFINE written == [taken |-> run[p].snap.taken, note |-> run[p].note, creds |-> run[p].creds]
  <2>1. \A q \in Runners : run'[q] \in Run => RunFits(run'[q])
    BY <1>1, <1>5, GoingFits DEF Publish
  <2>2. written \in PageRecord
    BY <1>2, ServerPageAssumption DEF RunFits, Snap, PageRecord, Known
  <2>3. page' \in {page, written}
    BY <1>5 DEF Publish
  <2>4. page' \in PageRecord
    <3> HIDE DEF written
    <3> QED BY <1>1, <2>2, <2>3 DEF PageFits
  <2>5. failures' \in 0..MaxFailures
    BY <1>1, <1>5, FailuresFit DEF Publish
  <2> QED BY <1>1, <1>5, <2>1, <2>4, <2>5 DEF FitInv, CredFits, PageFits, Publish
<1>6. CASE KillRun(p)
  <2>1. \A q \in Runners : run'[q] \in Run => RunFits(run'[q])
    BY <1>1, <1>6, OneRunFits DEF KillRun, End
  <2>2. failures' \in 0..MaxFailures
    BY <1>1, <1>6, FailuresFit DEF KillRun
  <2> QED BY <1>1, <1>6, <2>1, <2>2 DEF FitInv, CredFits, PageFits, KillRun
<1> QED BY <1>3, <1>4, <1>5, <1>6

LEMMA FitInit == Init => FitInv
<1> SUFFICES ASSUME Init PROVE FitInv
  OBVIOUS
<1>1. NoRow \in Row /\ NoPassword \in 0..MaxPasswords
  BY CredentialsAssumption DEF NoRow, Row, NoPassword
<1>2. PushFits(Idle)
  BY <1>1 DEF PushFits, Idle
<1>3. CredFits
  BY <1>1, <1>2, CredentialsAssumption DEF Init, CredentialsInit, CredFits
<1>4. Reference \in Shown /\ Unknown \in Known
  BY DEF Reference, Shown, Known
<1>5. page \in PageRecord
  BY <1>4, ServerPageAssumption DEF Init, ServerPageInit, PageRecord, Known
<1>6. \A p \in Runners : run[p] \notin Run
  BY NoRunIsNone DEF Init, ServerPageInit
<1>7. PageFits
  BY <1>4, <1>5, <1>6 DEF Init, ServerPageInit, PageFits
<1> QED BY <1>3, <1>7 DEF FitInv

LEMMA FitNext ==
  ASSUME TypeInv, FitInv, [Next]_vars
  PROVE  FitInv'
<1>1. CASE CredentialsNext /\ UNCHANGED pageVars
  BY <1>1, CredentialsFit DEF FitInv, PageFits, pageVars
<1>2. ASSUME NEW p \in Runners, NEW flags, Collect(p, flags) PROVE FitInv'
  BY <1>2, CollectFits DEF FitInv, CredFits, Collect, credVars
<1>3. ASSUME NEW p \in Timer, TimerRun(p) PROVE FitInv'
  BY <1>2, <1>3 DEF TimerRun, Runners
<1>4. ASSUME NEW p \in Commands, Command(p) PROVE FitInv'
  BY <1>2, <1>4 DEF Command, Runners
<1>5. ASSUME NEW p \in Commands, Prompt(p) PROVE FitInv'
  <2>1. PICK u \in Users : Put(<<u, "os">>)
    BY <1>5 DEF Prompt
  <2>2. <<u, "os">> \in Keys
    BY ServerPageAssumption DEF Keys
  <2> QED BY <1>5, <2>1, <2>2, PutFits DEF Prompt, FitInv, CredFits, PageFits, pageVars
<1>6. ASSUME NEW p \in Runners, RunStep(p) \/ KillRun(p) PROVE FitInv'
  <2>1. ASSUME NEW u \in Users, Credential(p, u) PROVE FitInv'
    <3>1. run[p] \in Run
      BY <2>1, InRun DEF TypeInv, Credential
    <3> QED BY <2>1, <3>1, CredentialFits
  <2> QED BY <1>6, <2>1, SnapshotFits, AccountsFit DEF RunStep
<1>7. CASE MachineChanges
  <2>1. machine' \in States
    BY <1>7 DEF MachineChanges
  <2>2. moves' \in 0..MaxChanges
    BY <1>7, ServerPageAssumption DEF MachineChanges, FitInv, PageFits
  <2> QED BY <1>7, <2>1, <2>2 DEF MachineChanges, FitInv, CredFits, PageFits, credVars
<1>8. CASE TimePasses \/ UNCHANGED vars
  BY <1>8 DEF TimePasses, FitInv, CredFits, PageFits, vars, credVars, pageVars
<1> QED BY <1>1, <1>3, <1>4, <1>5, <1>6, <1>7, <1>8 DEF Next

\* The types and bounds of the run that checks them: the cache's rows have the
\* ids they were given, a mark has a mode of the company's policy, the history
\* has one row of a run (Store.SaveSnapshot), and everything shown on the page
\* was seen on this machine.
THEOREM ServerPageTyped == Spec => []ServerPageTypeOK
<1>1. Init => TypeInv /\ CInv /\ FitInv
  BY TypeInit, CInit, FitInit
<1>2. TypeInv /\ CInv /\ FitInv /\ [Next]_vars => (TypeInv /\ CInv /\ FitInv)'
  BY TypeNext, CNext, FitNext
<1>3. TypeInv /\ CInv /\ FitInv => ServerPageTypeOK
  <2> SUFFICES ASSUME TypeInv, CInv, FitInv PROVE ServerPageTypeOK
    OBVIOUS
  <2>1. \A k \in Keys : row[k].id = 0 => row[k] = NoRow
    BY DEF CInv, RowsOK, Owned
  <2>2. ASSUME NEW p \in Pushers
        PROVE  /\ push[p].pc \in {"idle", "next", "mark"}
               /\ \A e \in push[p].left : e[1] \in Keys /\ e[2] \in Row
               /\ push[p].row \in Row
    <3>1. push[p] \in Pushing /\ PushFits(push[p])
      BY DEF TypeInv, CredType, FitInv, CredFits
    <3> QED BY <3>1 DEF Pushing, Entry, PushFits
  <2>3. CredentialsTypeOK
    BY <2>1, <2>2 DEF CredentialsTypeOK, FitInv, CredFits, TypeInv, CredType
  <2>4. ASSUME NEW p \in Runners, run[p] # NoRun
        PROVE  /\ run[p].pc \in {"latest", "explain", "store", "mark", "policy",
                                  "creds", "pushed", "record"}
               /\ run[p].snap \in Snap /\ run[p].note \in States \cup {Unknown}
               /\ run[p].mode \in Modes \cup {"reference"} /\ run[p].creds \in [Users -> Shown]
               /\ run[p].left \subseteq Users
               /\ run[p].flags \subseteq {"publish", "force", "dryRun", "noLLM"}
    <3>1. run[p] \in Run /\ RunFits(run[p])
      BY <2>4 DEF TypeInv, PageType, FitInv, PageFits
    <3> QED BY <3>1 DEF Run, RunPc, RunFits, Known, Flags
  <2> QED BY <2>3, <2>4 DEF ServerPageTypeOK, FitInv, PageFits, Known
<1> QED BY <1>1, <1>2, <1>3, PTL DEF Spec
=============================================================================
