------------------------------- MODULE Relay -------------------------------
(***************************************************************************)
(* The relay (internal/relay/server) and the machines that enrol with it   *)
(* and use it (internal/relay/client, the enroll command).  The relay has  *)
(* one database connection, so a transaction is a step; two statements of  *)
(* a handler are two.  Its rate limiter is in memory.  A machine runs one  *)
(* command at a time, and maybe a `config set` besides.                    *)
(***************************************************************************)
EXTENDS Integers, FiniteSets, Sequences

CONSTANTS
  Machines,      \* all behind one address
  Editors,       \* the machines where someone runs `config set`
  Codes,         \* enrollment codes, of one client name
  CodeLife,      \* --ttl
  Limit, Window, \* enrollment attempts in a window
  Rate, Burst,   \* requests of a client: per unit of time, and at once
  MaxEnrols, MaxRequests, MaxRevokes, MaxEdits, MaxFaults, MaxTime  \* bounds

ASSUME RelayAssumption ==
  /\ Editors \subseteq Machines
  /\ CodeLife \in Nat /\ Window \in Nat /\ MaxTime \in Nat
  /\ MaxEnrols \in Nat /\ MaxRequests \in Nat /\ MaxRevokes \in Nat
  /\ MaxEdits \in Nat /\ MaxFaults \in Nat
  /\ Limit \in Nat \ {0} /\ Rate \in Nat \ {0} /\ Burst \in Nat \ {0}

VARIABLES
  now,
  code,      \* enroll_codes
  client,    \* clients: who enrolled, by number
  attempts,  \* enroll_attempts: the row of the address
  bucket,    \* the limiter's buckets, of the clients it has seen
  conf,      \* what enrolling wrote to each machine's configuration file
  token,     \* each machine's token file
  call,      \* the command each machine is in
  edit,      \* the file a `config set` has read and not written yet
  enrols, requests, revokes, edits, faults,  \* what the bounds count
  allowed, raced, admitted       \* what happened: attempts and requests let in

vars == <<now, code, client, attempts, bucket, conf, token, call, edit,
          enrols, requests, revokes, edits, faults, allowed, raced, admitted>>

None == 0
NoCall == [pc |-> "idle"]
NoEdit == [reading |-> FALSE, file |-> {}]
\* relay.ca_file is written with relay.url, as far as anyone can tell them apart.
ConfigKeys == {"mode", "relay.url", "relay.token_file"}
Ids == 1..MaxEnrols

\* Handlers of the relay: those that ask the model, the one that gets a page, and
\* those that publish one or look for one.
Handlers == {"llm", "get", "publish"}

\* Errors of an engine that its callers tell apart.
Errors == {"none", "ErrRateLimited", "ErrRefused", "ErrUnavailable", "ErrInvalidJSON",
           "ErrNotFound", "other"}

EngineErrors(handler) ==
  IF handler = "llm" THEN Errors \ {"ErrNotFound"} ELSE {"none", "ErrNotFound", "other"}

RelayTypeOK ==
  /\ now \in 0..MaxTime
  /\ code \in [Codes -> [state : {"none", "open", "used"}, expires : 0..(MaxTime + CodeLife)]]
  /\ client \in Seq([code : Codes, revoked : BOOLEAN]) /\ Len(client) <= MaxEnrols
  /\ \A i \in DOMAIN client : code[client[i].code].state = "used"
  /\ attempts.count \in Nat /\ attempts.start \in 0..MaxTime
  /\ DOMAIN bucket \subseteq Ids
  /\ \A i \in DOMAIN bucket : bucket[i] \in [tokens : 0..Burst, last : 0..now]
  /\ conf \in [Machines -> SUBSET ConfigKeys]
  /\ token \in [Machines -> {None} \cup DOMAIN client]
  /\ \A m \in Machines :
       /\ call[m].pc \in {"idle", "attempt", "count", "enroll", "save", "config", "write",
                          "auth", "limit", "handle", "told"}
       /\ edit[m].file \subseteq ConfigKeys

Init ==
  /\ now = 0
  /\ code = [c \in Codes |-> [state |-> "none", expires |-> 0]]
  /\ client = <<>> /\ attempts = [count |-> 0, start |-> 0]
  /\ bucket = <<>>
  /\ conf = [m \in Machines |-> {}] /\ token = [m \in Machines |-> None]
  /\ call = [m \in Machines |-> NoCall] /\ edit = [m \in Machines |-> NoEdit]
  /\ enrols = 0 /\ requests = 0 /\ revokes = 0 /\ edits = 0 /\ faults = 0
  /\ allowed = <<>> /\ raced = FALSE /\ admitted = <<>>

----------------------------------------------------------------------------
Goto(m, pc) == call' = [call EXCEPT ![m].pc = pc]
End(m) == call' = [call EXCEPT ![m] = NoCall]
Faulty == faults < MaxFaults /\ faults' = faults + 1

Tick ==
  /\ now < MaxTime /\ now' = now + 1
  /\ UNCHANGED <<code, client, attempts, bucket, conf, token, call, edit,
                 enrols, requests, revokes, edits, faults, allowed, raced,
                 admitted>>

\* `relay client add`.
NewEnrollCode(c) ==
  /\ code[c].state = "none"
  /\ code' = [code EXCEPT ![c] = [state |-> "open", expires |-> now + CodeLife]]
  /\ UNCHANGED <<now, client, attempts, bucket, conf, token, call, edit, enrols,
                 requests, revokes, edits, faults, allowed, raced, admitted>>

\* `relay client revoke`, by id, or by name: all of them.
RevokeClient ==
  /\ revokes < MaxRevokes /\ revokes' = revokes + 1
  /\ \E gone \in {{i} : i \in DOMAIN client} \cup {DOMAIN client} :
       /\ \E i \in gone : ~client[i].revoked
       /\ client' = [i \in DOMAIN client |->
            IF i \in gone THEN [client[i] EXCEPT !.revoked = TRUE] ELSE client[i]]
  /\ UNCHANGED <<now, code, attempts, bucket, conf, token, call, edit, enrols,
                 requests, edits, faults, allowed, raced, admitted>>

----------------------------------------------------------------------------
\* `codeument enroll` and handleEnroll

StartEnroll(m) ==
  /\ call[m] = NoCall /\ enrols < MaxEnrols /\ enrols' = enrols + 1
  /\ \E c \in Codes :
       /\ code[c].state # "none"
       /\ call' = [call EXCEPT ![m] = [pc |-> "attempt", code |-> c, seen |-> attempts, at |-> now,
                     id |-> None, left |-> ConfigKeys, key |-> "", file |-> {}]]
  /\ UNCHANGED <<now, code, client, attempts, bucket, conf, token, edit,
                 requests, revokes, edits, faults, allowed, raced, admitted>>

\* Mutant: the count starts anew a second early.
WindowEarly(row) == row.count = 0 \/ now - row.start >= Window
\* No row yet, or one whose window is over.
WindowOver(row) == row.count = 0 \/ now - row.start > Window

\* EnrollAttempt reads the count, and
ReadAttempts(m) ==
  /\ call[m].pc = "attempt"
  /\ call' = [call EXCEPT ![m].pc = "count", ![m].at = now,
       ![m].seen = IF WindowOver(attempts) THEN [count |-> 0, start |-> now] ELSE attempts]
  /\ raced' = (raced \/ \E n \in Machines : call[n].pc = "count")
  /\ UNCHANGED <<now, code, client, attempts, bucket, conf, token, edit, enrols,
                 requests, revokes, edits, faults, allowed, admitted>>

\* writes it, one more.
CountAttempt(m) ==
  LET count == call[m].seen.count + 1
  IN /\ call[m].pc = "count"
     /\ attempts' = [call[m].seen EXCEPT !.count = count]
     /\ \/ count > Limit /\ End(m) /\ UNCHANGED allowed
        \/ count <= Limit /\ Goto(m, "enroll") /\ allowed' = Append(allowed, call[m].at)
     /\ UNCHANGED <<now, code, client, bucket, conf, token, edit, enrols,
                    requests, revokes, edits, faults, raced, admitted>>

\* Mutant: a code is good until it expires.
UsableAgain(c) == now <= code[c].expires
Usable(c) == code[c].state = "open" /\ now <= code[c].expires

\* Enroll, a transaction: the code is used up and there is a client.
EnrollClient(m) ==
  LET c == call[m].code
  IN /\ call[m].pc = "enroll"
     /\ \/ ~Usable(c) /\ End(m) /\ UNCHANGED <<code, client>>
        \/ /\ Usable(c)
           /\ client' = Append(client, [code |-> c, revoked |-> FALSE])
           /\ code' = [code EXCEPT ![c].state = "used"]
           /\ call' = [call EXCEPT ![m].pc = "save", ![m].id = Len(client) + 1]
     /\ UNCHANGED <<now, attempts, bucket, conf, token, edit, enrols, requests,
                    revokes, edits, faults, allowed, raced, admitted>>

\* The token file, by rename; before the configuration.
SaveToken(m) ==
  /\ call[m].pc = "save"
  /\ token' = [token EXCEPT ![m] = call[m].id]
  /\ Goto(m, "config")
  /\ UNCHANGED <<now, code, client, attempts, bucket, conf, edit, enrols,
                 requests, revokes, edits, faults, allowed, raced, admitted>>

\* SetValue of one key, in the order of a Go map: it reads the whole file
ReadConfig(m) ==
  /\ call[m].pc = "config"
  /\ \E k \in call[m].left :
       call' = [call EXCEPT ![m].pc = "write", ![m].key = k, ![m].file = conf[m]]
  /\ UNCHANGED <<now, code, client, attempts, bucket, conf, token, edit, enrols,
                 requests, revokes, edits, faults, allowed, raced, admitted>>

\* Mutant: the first key is the last.
AfterFirstKey(left) == {}
AfterKey(left) == left

\* and writes it.
WriteConfig(m) ==
  LET left == AfterKey(call[m].left \ {call[m].key})
  IN /\ call[m].pc = "write"
     /\ conf' = [conf EXCEPT ![m] = call[m].file \cup {call[m].key}]
     /\ IF left = {} THEN End(m)
        ELSE call' = [call EXCEPT ![m].pc = "config", ![m].left = left]
     /\ UNCHANGED <<now, code, client, attempts, bucket, token, edit, enrols,
                    requests, revokes, edits, faults, allowed, raced, admitted>>

\* `config set` of some other key, meanwhile.
ReadToEdit(m) ==
  /\ m \in Editors /\ ~edit[m].reading
  /\ edits < MaxEdits /\ edits' = edits + 1
  /\ edit' = [edit EXCEPT ![m] = [reading |-> TRUE, file |-> conf[m]]]
  /\ UNCHANGED <<now, code, client, attempts, bucket, conf, token, call, enrols,
                 requests, revokes, faults, allowed, raced, admitted>>

WriteEdited(m) ==
  /\ edit[m].reading
  /\ conf' = [conf EXCEPT ![m] = edit[m].file]
  /\ edit' = [edit EXCEPT ![m] = NoEdit]
  /\ UNCHANGED <<now, code, client, attempts, bucket, token, call, enrols,
                 requests, revokes, edits, faults, allowed, raced, admitted>>

----------------------------------------------------------------------------
\* Requests: the client's do, the middleware, a handler

Reach == {"mode", "relay.url"}

StartRequest(m) ==
  /\ call[m] = NoCall /\ requests < MaxRequests /\ requests' = requests + 1
  /\ Reach \subseteq conf[m] /\ token[m] # None
  /\ call' = [call EXCEPT ![m] = [pc |-> "auth", id |-> token[m]]]
  /\ UNCHANGED <<now, code, client, attempts, bucket, conf, token, edit, enrols,
                 revokes, edits, faults, allowed, raced, admitted>>

\* Authenticate: the row of the token's hash.
Authentic(i) == ~client[i].revoked

Authenticate(m) ==
  /\ call[m].pc = "auth"
  /\ IF Authentic(call[m].id) THEN Goto(m, "limit") ELSE End(m)
  /\ UNCHANGED <<now, code, client, attempts, bucket, conf, token, edit, enrols,
                 requests, revokes, edits, faults, allowed, raced, admitted>>

\* Mutant: what was not used is saved up.
Saved(b) == b.tokens + (now - b.last) * Rate
\* The bucket, filled up to now.
Filled(b) ==
  LET tokens == b.tokens + (now - b.last) * Rate
  IN IF tokens > Burst THEN Burst ELSE tokens

\* The first request of a client finds a full bucket.
Tokens(i) == IF i \in DOMAIN bucket THEN Filled(bucket[i]) ELSE Burst

Leave(i, tokens) ==
  bucket' = [j \in DOMAIN bucket \cup {i} |->
               IF j = i THEN [tokens |-> tokens, last |-> now] ELSE bucket[j]]

\* limiter.allow, under its mutex; then a client of an old version is turned away,
\* its token spent.
Admit(m) ==
  LET i == call[m].id
  IN /\ call[m].pc = "limit"
     /\ \/ /\ Tokens(i) < 1 /\ End(m)
           /\ Leave(i, Tokens(i)) /\ UNCHANGED admitted
        \/ /\ Tokens(i) >= 1 /\ (Goto(m, "handle") \/ End(m))
           /\ Leave(i, Tokens(i) - 1)
           /\ admitted' = Append(admitted, [id |-> i, at |-> now])
     /\ UNCHANGED <<now, code, client, attempts, conf, token, edit, enrols,
                    requests, revokes, edits, faults, allowed, raced>>

\* llmCode and the handlers: the code an engine's error is answered with.
ErrorCode(handler, err) ==
  CASE err = "ErrRateLimited" -> "rate_limited"
    [] err = "ErrRefused"     -> "refused"
    [] err = "ErrUnavailable" -> "llm_unavailable"
    [] err = "ErrInvalidJSON" -> "invalid_output"
    [] err = "ErrNotFound" /\ handler = "get" -> "not_found"
    [] OTHER -> IF handler = "llm" THEN "llm_error" ELSE "docs_error"

\* Mutant: a refusal is an error like any other.
ClientErrorNoRefusal(c) ==
  CASE c = "rate_limited"    -> "ErrRateLimited"
    [] c = "llm_unavailable" -> "ErrUnavailable"
    [] c = "invalid_output"  -> "ErrInvalidJSON"
    [] c = "not_found"       -> "ErrNotFound"
    [] OTHER                 -> "other"

\* do: the error a caller of the client gets.
ClientError(c) ==
  CASE c = "rate_limited"    -> "ErrRateLimited"
    [] c = "refused"         -> "ErrRefused"
    [] c = "llm_unavailable" -> "ErrUnavailable"
    [] c = "invalid_output"  -> "ErrInvalidJSON"
    [] c = "not_found"       -> "ErrNotFound"
    [] OTHER                 -> "other"

\* The relay's engine answers, or fails in one of its ways.
Handle(m) ==
  /\ call[m].pc = "handle"
  /\ \E handler \in Handlers : \E err \in EngineErrors(handler) :
       call' = [call EXCEPT ![m] = [pc |-> "told", handler |-> handler, err |-> err,
                  told |-> IF err = "none" THEN err ELSE ClientError(ErrorCode(handler, err))]]
  /\ UNCHANGED <<now, code, client, attempts, bucket, conf, token, edit, enrols,
                 requests, revokes, edits, faults, allowed, raced, admitted>>

Answer(m) ==
  /\ call[m].pc = "told" /\ End(m)
  /\ UNCHANGED <<now, code, client, attempts, bucket, conf, token, edit, enrols,
                 requests, revokes, edits, faults, allowed, raced, admitted>>

----------------------------------------------------------------------------
\* A command is killed, cannot write a file, or its connection is lost.
Kill(m) ==
  /\ call[m] # NoCall /\ Faulty /\ End(m)
  /\ UNCHANGED <<now, code, client, attempts, bucket, conf, token, edit, enrols,
                 requests, revokes, edits, allowed, raced, admitted>>

AtRelay == {"attempt", "count", "enroll", "auth", "limit", "handle"}

\* The relay restarts: whoever waits for it gets an error.
RelayRestart ==
  /\ Faulty
  /\ bucket' = <<>> /\ admitted' = <<>>
  /\ call' = [m \in Machines |-> IF call[m].pc \in AtRelay THEN NoCall ELSE call[m]]
  /\ UNCHANGED <<now, code, client, attempts, conf, token, edit, enrols,
                 requests, revokes, edits, allowed, raced>>

EnrollStep(m) ==
  \/ ReadAttempts(m) \/ CountAttempt(m) \/ EnrollClient(m) \/ SaveToken(m)
  \/ ReadConfig(m) \/ WriteConfig(m)

RequestStep(m) == Authenticate(m) \/ Admit(m) \/ Handle(m) \/ Answer(m)

Next ==
  \/ Tick \/ RevokeClient \/ RelayRestart
  \/ \E c \in Codes : NewEnrollCode(c)
  \/ \E m \in Machines :
       \/ StartEnroll(m) \/ EnrollStep(m) \/ StartRequest(m) \/ RequestStep(m)
       \/ ReadToEdit(m) \/ WriteEdited(m) \/ Kill(m)

Spec == Init /\ [][Next]_vars

\* A command that began goes on.
FairSpec ==
  Spec /\ \A m \in Machines : WF_vars(EnrollStep(m)) /\ WF_vars(RequestStep(m))

----------------------------------------------------------------------------
\* Properties

\* A code makes one client, however many machines use it at once.
OneClientPerCode ==
  \A i, j \in DOMAIN client : client[i].code = client[j].code => i = j

\* Between two requests of a client the relay let in there are no more than the
\* rate and the burst allow.
RateKept ==
  \A i, j \in DOMAIN admitted :
    i <= j => Cardinality({k \in i..j : admitted[k].id = admitted[i].id})
                <= Burst + Rate * (admitted[j].at - admitted[i].at)

\* In no period of the length of a window are as many attempts let in as twice
\* the limit: the count starts anew in its midst, but the first attempt that was
\* counted before is not in it.  Two attempts counted as one are set aside.
Between(from) == {k \in DOMAIN allowed : allowed[k] \in from..(from + Window)}

AttemptsKept ==
  ~raced => \A i \in DOMAIN allowed : Cardinality(Between(allowed[i])) < 2 * Limit

\* The worker sees the same error through the relay as with an engine of its
\* own: a batch is given up at once if, and only if, the model refused it.  Who
\* publishes a page or looks for one asks only whether that failed.
SameError ==
  \A m \in Machines : call[m].pc = "told" =>
    \/ call[m].told = call[m].err
    \/ call[m].handler = "publish" /\ call[m].err = "ErrNotFound" /\ call[m].told = "other"

\* An enrolment that was granted ends with the machine able to use the relay,
\* unless something failed or someone changed the configuration meanwhile.
Enrolled(m) == conf[m] = ConfigKeys /\ token[m] # None

GrantedIsEnrolled ==
  \A m \in Machines \ Editors : call[m].pc = "save" ~> Enrolled(m) \/ faults > 0
=============================================================================
