---------------------------- MODULE Credentials ----------------------------
(***************************************************************************)
(* The local credential cache (internal/credcache, `codeument credentials`) *)
(* and the company's password manager behind engine.StoreCredential.  A    *)
(* password is recorded by hand or seen in a command; a push reads all of  *)
(* them, stores each in the manager and marks its row as pushed.           *)
(***************************************************************************)
EXTENDS Integers, FiniteSets

CONSTANTS
  Users,         \* accounts of this host
  Kinds,         \* "os", "db", "service"
  Pushers,       \* `codeument credentials push` processes
  Modes,         \* values of credentials.mode the company uses
  MaxPasswords,  \* bound on passwords recorded
  MaxFailures,   \* bound on requests that fail, kills and forgets
  MaxPolicies    \* bound on changes of the policy

ASSUME CredentialsAssumption ==
  /\ MaxPasswords \in Nat /\ MaxFailures \in Nat /\ MaxPolicies \in Nat
  /\ Modes \subseteq {"reference", "manager", "inline"} /\ Modes # {}

VARIABLES
  row,       \* credentials: the row of a user and kind
  manager,   \* what the password manager has for a user and kind
  push,      \* what each pusher still has to store, and the row it is on
  policy,    \* credentials.mode of the relay
  cached,    \* its value when this host last asked for the defaults
  recorded,  \* passwords recorded; the next row id and time as well
  failures, changes  \* what the bounds count

credVars == <<row, manager, push, policy, cached, recorded, failures, changes>>

NoPassword == 0
Keys == Users \X Kinds

\* A row keeps its id when its password is replaced; at orders the rows by
\* created_at; pushed is the mode of its reference.
NoRow == [id |-> 0, password |-> NoPassword, at |-> 0, pushed |-> "no"]
Row == [id : 0..MaxPasswords, password : 0..MaxPasswords, at : 0..MaxPasswords,
        pushed : Modes \cup {"no"}]
Idle == [pc |-> "idle", left |-> {}, row |-> NoRow, mode |-> "no"]

CredentialsTypeOK ==
  /\ row \in [Keys -> Row] /\ \A k \in Keys : row[k].id = 0 => row[k] = NoRow
  /\ manager \in [Keys -> 0..MaxPasswords]
  /\ \A p \in Pushers :
       /\ push[p].pc \in {"idle", "next", "mark"}
       /\ \A e \in push[p].left : e[1] \in Keys /\ e[2] \in Row
       /\ push[p].row \in Row
  /\ policy \in Modes /\ cached \in Modes
  /\ recorded \in 0..MaxPasswords /\ failures \in 0..MaxFailures

\* With a bound used up no password is recorded, no policy changed.
CredentialsInit ==
  /\ row = [k \in Keys |-> NoRow]
  /\ manager = [k \in Keys |-> NoPassword]
  /\ push = [p \in Pushers |-> Idle]
  /\ policy \in Modes /\ cached = policy
  /\ recorded \in {0, MaxPasswords} /\ failures = 0 /\ changes \in {0, MaxPolicies}

CanFail == failures < MaxFailures /\ failures' = failures + 1

Cached(u) == {k \in Keys : k[1] = u /\ row[k] # NoRow}

\* Put: the password is new, so the row is not pushed any more.
Put(k) ==
  /\ recorded < MaxPasswords /\ recorded' = recorded + 1
  /\ row' = [row EXCEPT ![k] =
       [id |-> IF @ = NoRow THEN recorded + 1 ELSE @.id,
        password |-> recorded + 1, at |-> recorded + 1, pushed |-> "no"]]

\* `credentials add`, or a command the shell hook saw.
Record(k) == Put(k) /\ UNCHANGED <<manager, push, policy, cached, failures, changes>>

\* Get: the newest of the user's rows, whatever its kind.
Newest(u) == {k \in Cached(u) : \A l \in Cached(u) : row[l].at <= row[k].at}

\* credentialPolicy: the relay's, or the one kept when it cannot be asked.
Policy(asked, kept) ==
  \/ asked /\ UNCHANGED failures
  \/ kept /\ CanFail

\* StoreCredential, which applies the policy of now; the answer may be lost.
Store(k, password, stored, failed) ==
  LET kept == IF policy = "manager" THEN [manager EXCEPT ![k] = password] ELSE manager
  IN \/ manager' = kept /\ stored /\ UNCHANGED failures
     \/ manager' \in {manager, kept} /\ failed /\ CanFail

\* MarkPushed finds the row by its id.
MarkPushed(id, mode) ==
  row' = [k \in Keys |-> IF row[k].id = id /\ row[k] # NoRow
                         THEN [row[k] EXCEPT !.pushed = mode] ELSE row[k]]

\* The company changes its policy; a tick asks for the defaults.
PolicyChanges ==
  /\ changes < MaxPolicies /\ changes' = changes + 1
  /\ policy' \in Modes \ {policy}
  /\ UNCHANGED <<row, manager, push, cached, recorded, failures>>

RefreshDefaults ==
  /\ cached # policy /\ cached' = policy
  /\ UNCHANGED <<row, manager, push, policy, recorded, failures, changes>>

\* Forget: one user's rows, or all.
ForgetCredentials ==
  /\ CanFail
  /\ \E gone \in {{k \in Keys : k[1] = u} : u \in Users} \cup {Keys} :
       row' = [k \in Keys |-> IF k \in gone THEN NoRow ELSE row[k]]
  /\ UNCHANGED <<manager, push, policy, cached, recorded, changes>>

PushList(p) ==
  /\ push[p].pc = "idle"
  /\ LET entries == {<<k, row[k]>> : k \in {l \in Keys : row[l] # NoRow}}
         begin(mode) == mode = "manager" /\ push' = [push EXCEPT ![p].pc = "next", ![p].left = entries]
     IN entries # {} /\ Policy(begin(policy), begin(cached))
  /\ UNCHANGED <<row, manager, policy, cached, recorded, changes>>

\* Mutant: an entry is marked, stored or not.
AfterFailureMark == "mark"
\* An entry that could not be stored is passed over.
AfterFailure == "next"

\* The newest entry first.
PushStore(p) ==
  /\ push[p].pc = "next"
  /\ \E e \in push[p].left :
       LET on(pc, mode) == push' = [push EXCEPT ![p] =
             [pc |-> pc, left |-> @.left \ {e}, row |-> e[2], mode |-> mode]]
       IN /\ \A f \in push[p].left : f[2].at <= e[2].at
          /\ Store(e[1], e[2].password, on("mark", policy), on(AfterFailure, "manager"))
  /\ UNCHANGED <<row, policy, cached, recorded, changes>>

PushMark(p) ==
  /\ push[p].pc = "mark"
  /\ MarkPushed(push[p].row.id, push[p].mode)
  /\ push' = [push EXCEPT ![p].pc = "next"]
  /\ UNCHANGED <<manager, policy, cached, recorded, failures, changes>>

\* The end of a push, or a kill.
PushEnd(p) ==
  /\ push[p].pc # "idle"
  /\ \/ push[p].pc = "next" /\ push[p].left = {} /\ UNCHANGED failures
     \/ CanFail
  /\ push' = [push EXCEPT ![p] = Idle]
  /\ UNCHANGED <<row, manager, policy, cached, recorded, changes>>

CredentialsNext ==
  \/ \E k \in Keys : Record(k)
  \/ ForgetCredentials \/ PolicyChanges \/ RefreshDefaults
  \/ \E p \in Pushers : PushList(p) \/ PushStore(p) \/ PushMark(p) \/ PushEnd(p)

----------------------------------------------------------------------------
\* A row whose reference leads to the password manager has a password there,
\* whatever failed and however the policy changed meanwhile.
PushedIsStored ==
  \A k \in Keys : row[k].pushed = "manager" => manager[k] # NoPassword
=============================================================================
