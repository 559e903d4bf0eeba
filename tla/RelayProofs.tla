---------------------------- MODULE RelayProofs ----------------------------
(***************************************************************************)
(* Proofs about Relay, for any number of machines, codes and requests, any *)
(* limits, and any deaths and restarts.                                    *)
(***************************************************************************)
EXTENDS Relay, FiniteSetTheorems, SequenceTheorems, TLAPS

\* The commands a machine can be in.
FileKeys == ConfigKeys \cup {""}
EnrollCall ==
  [pc : {"attempt", "count", "enroll", "save", "config", "write"}, code : Codes,
   seen : [count : Nat, start : Nat], at : Nat, id : Nat, left : SUBSET FileKeys,
   key : FileKeys, file : SUBSET FileKeys]
RequestCall == [pc : {"auth", "limit", "handle"}, id : Nat]
ToldCall == [pc : {"told"}, handler : Handlers, err : Errors, told : Errors]

Client == [code : Codes, revoked : BOOLEAN]
Code == [state : {"none", "open", "used"}, expires : Nat]

\* Types, as far as the rest needs them.
TypeInv ==
  /\ now \in Nat
  /\ code \in [Codes -> Code]
  /\ client \in Seq(Client)
  /\ attempts \in [count : Nat, start : Nat]
  /\ conf \in [Machines -> SUBSET FileKeys]
  /\ edit \in [Machines -> [reading : BOOLEAN, file : SUBSET FileKeys]]
  /\ token \in [Machines -> Nat]
  /\ call \in [Machines -> {NoCall} \cup EnrollCall \cup RequestCall \cup ToldCall]

\* A code that made a client is used up.
CodeInv ==
  /\ \A i \in DOMAIN client : code[client[i].code].state = "used"
  /\ OneClientPerCode

EInv == TypeInv /\ CodeInv /\ SameError

----------------------------------------------------------------------------
\* Enrolment

\* Where a machine is tells what its command is.
LEMMA CallKinds ==
  ASSUME TypeInv, NEW m \in Machines
  PROVE  /\ call[m].pc \in {"attempt", "count", "enroll", "save", "config", "write"}
              => call[m] \in EnrollCall
         /\ call[m].pc \in {"auth", "limit", "handle"} => call[m] \in RequestCall
<1>1. NoCall.pc = "idle" BY DEF NoCall
<1>2. \A c \in EnrollCall :
        c.pc \in {"attempt", "count", "enroll", "save", "config", "write"}
  BY DEF EnrollCall
<1>3. \A c \in RequestCall : c.pc \in {"auth", "limit", "handle"} BY DEF RequestCall
<1>4. \A c \in ToldCall : c.pc = "told" BY DEF ToldCall
<1> QED BY <1>1, <1>2, <1>3, <1>4 DEF TypeInv

\* What a caller is told of an engine's error is that error, or for a publish that
\* it failed.
RightlyTold(c) ==
  \/ c.told = c.err
  \/ c.handler = "publish" /\ c.err = "ErrNotFound" /\ c.told = "other"

\* A step of one machine's command leaves the other machines' alone.
LEMMA CallChange ==
  ASSUME TypeInv, SameError, NEW m \in Machines,
         NEW c \in {NoCall} \cup EnrollCall \cup RequestCall \cup ToldCall,
         c.pc = "told" => RightlyTold(c),
         call' = [call EXCEPT ![m] = c]
  PROVE  /\ call' \in [Machines -> {NoCall} \cup EnrollCall \cup RequestCall \cup ToldCall]
         /\ SameError'
BY DEF TypeInv, SameError, RightlyTold

\* What the relay answers and the client makes of it is the engine's error.
LEMMA ErrorsArrive ==
  ASSUME NEW handler \in Handlers, NEW err \in EngineErrors(handler), err # "none"
  PROVE  ClientError(ErrorCode(handler, err)) =
           IF err = "ErrNotFound" /\ handler = "publish" THEN "other" ELSE err
<1>1. CASE err = "ErrRateLimited"
  <2>1. ErrorCode(handler, err) = "rate_limited" BY <1>1, Zenon DEF ErrorCode
  <2> QED BY <1>1, <2>1, Zenon DEF ClientError
<1>2. CASE err = "ErrRefused"
  <2>1. ErrorCode(handler, err) = "refused" BY <1>2, Zenon DEF ErrorCode
  <2> QED BY <1>2, <2>1, Zenon DEF ClientError
<1>3. CASE err = "ErrUnavailable"
  <2>1. ErrorCode(handler, err) = "llm_unavailable" BY <1>3, Zenon DEF ErrorCode
  <2> QED BY <1>3, <2>1, Zenon DEF ClientError
<1>4. CASE err = "ErrInvalidJSON"
  <2>1. ErrorCode(handler, err) = "invalid_output" BY <1>4, Zenon DEF ErrorCode
  <2> QED BY <1>4, <2>1, Zenon DEF ClientError
<1>5. CASE err = "ErrNotFound" /\ handler = "get"
  <2>1. ErrorCode(handler, err) = "not_found" BY <1>5, Zenon DEF ErrorCode
  <2>2. handler # "publish" BY <1>5
  <2> QED BY <1>5, <2>1, <2>2, Zenon DEF ClientError
<1>6. CASE err = "ErrNotFound" /\ handler = "publish"
  <2>1. handler # "get" /\ handler # "llm" BY <1>6
  <2>2. ErrorCode(handler, err) = "docs_error" BY <1>6, <2>1, Zenon DEF ErrorCode
  <2> QED BY <1>6, <2>2, Zenon DEF ClientError
<1>7. CASE err = "other"
  <2>1. ErrorCode(handler, err) = IF handler = "llm" THEN "llm_error" ELSE "docs_error"
    BY <1>7, Zenon DEF ErrorCode
  <2>2. ErrorCode(handler, err) \in {"llm_error", "docs_error"} BY <2>1
  <2> QED BY <1>7, <2>2, Zenon DEF ClientError
<1>8. err \in {"ErrRateLimited", "ErrRefused", "ErrUnavailable", "ErrInvalidJSON", "other"}
        \/ (err = "ErrNotFound" /\ handler \in {"get", "publish"})
  BY DEF EngineErrors, Errors, Handlers
<1> QED BY <1>1, <1>2, <1>3, <1>4, <1>5, <1>6, <1>7, <1>8

\* At the start there are no clients.
LEMMA EnrollInit ==
  ASSUME Init
  PROVE  EInv
<1> USE DEF Init
<1>1. TypeInv
  BY DEF TypeInv, Code, Client, NoCall, NoEdit, None
<1>2. CodeInv
  BY DEF CodeInv, OneClientPerCode
<1>3. SameError
  BY DEF SameError, NoCall
<1> QED BY <1>1, <1>2, <1>3 DEF EInv

\* The clients and codes stay while neither changes.
LEMMA CodesUntouched ==
  ASSUME CodeInv, UNCHANGED <<code, client>>
  PROVE  CodeInv'
BY DEF CodeInv, OneClientPerCode

\* Nothing but an enrolment adds a client, and it takes a code no client has.
LEMMA EnrollClientStep ==
  ASSUME EInv, NEW m \in Machines, EnrollClient(m)
  PROVE  EInv'
<1> DEFINE c == call[m].code
<1>1. call[m] \in EnrollCall /\ c \in Codes
  BY CallKinds DEF EInv, EnrollClient, EnrollCall
<1>2. CASE ~Usable(c) /\ End(m) /\ UNCHANGED <<code, client>>
  <2>1. NoCall.pc # "told" BY DEF NoCall
  <2>2. /\ call' \in [Machines -> {NoCall} \cup EnrollCall \cup RequestCall \cup ToldCall]
        /\ SameError'
    BY <1>2, <2>1, CallChange DEF EInv, End
  <2>3. CodeInv' BY <1>2, CodesUntouched DEF EInv
  <2> QED BY <1>2, <2>2, <2>3 DEF EInv, TypeInv, EnrollClient
<1>3. CASE /\ Usable(c)
           /\ client' = Append(client, [code |-> c, revoked |-> FALSE])
           /\ code' = [code EXCEPT ![c].state = "used"]
           /\ call' = [call EXCEPT ![m].pc = "save", ![m].id = Len(client) + 1]
  <2> DEFINE d == [call[m] EXCEPT !.pc = "save", !.id = Len(client) + 1]
  <2>1. client \in Seq(Client) /\ Len(client) \in Nat
    BY DEF EInv, TypeInv
  <2>2. d \in EnrollCall /\ d.pc # "told"
    <3>1. \A e \in EnrollCall, n \in Nat :
            /\ [e EXCEPT !.pc = "save", !.id = n] \in EnrollCall
            /\ [e EXCEPT !.pc = "save", !.id = n].pc = "save"
      BY DEF EnrollCall
    <3>2. Len(client) + 1 \in Nat
      BY <2>1
    <3>3. d \in EnrollCall /\ d.pc = "save"
      BY <1>1, <3>1, <3>2, Zenon
    <3> QED BY <3>3
  <2>3. call' = [call EXCEPT ![m] = d]
    BY <1>3
  <2>4. /\ call' \in [Machines -> {NoCall} \cup EnrollCall \cup RequestCall \cup ToldCall]
        /\ SameError'
    BY <2>2, <2>3, CallChange DEF EInv
  <2>5. code' \in [Codes -> Code] /\ client' \in Seq(Client)
    <3>1. code' = [code EXCEPT ![c] = [code[c] EXCEPT !.state = "used"]]
      BY <1>3
    <3>2. [code[c] EXCEPT !.state = "used"] \in Code
      <4>1. code[c] \in Code
        BY <1>1 DEF EInv, TypeInv
      <4> QED BY <4>1 DEF Code
    <3>3. [code |-> c, revoked |-> FALSE] \in Client
      BY <1>1 DEF Client
    <3> QED BY <1>1, <1>3, <2>1, <3>1, <3>2, <3>3 DEF EInv, TypeInv
  <2>6. /\ DOMAIN client' = 1..(Len(client) + 1)
        /\ \A i \in DOMAIN client : client'[i] = client[i] /\ client[i].code \in Codes
        /\ client'[Len(client) + 1].code = c
    <3>1. [code |-> c, revoked |-> FALSE] \in Client
      BY <1>1 DEF Client
    <3>2. \A i \in 1..Len(client) : client[i].code \in Codes
      <4>1. \A i \in 1..Len(client) : client[i] \in Client BY <2>1, ElementOfSeq
      <4>2. \A e \in Client : e.code \in Codes BY DEF Client
      <4> QED BY <4>1, <4>2
    <3> QED BY <1>3, <2>1, <3>1, <3>2, AppendProperties, LenProperties
  <2>7. \A i \in DOMAIN client : client[i].code # c
    <3>1. code[c].state = "open" BY <1>3 DEF Usable
    <3>2. \A i \in DOMAIN client : code[client[i].code].state = "used" BY DEF EInv, CodeInv
    <3> QED BY <3>1, <3>2
  <2>8. CodeInv'
    <3>1. \A i \in DOMAIN client' : code'[client'[i].code].state = "used"
      BY <1>1, <1>3, <2>1, <2>6 DEF EInv, CodeInv, TypeInv, Code
    <3>2. ASSUME NEW i \in DOMAIN client', NEW j \in DOMAIN client',
                 client'[i].code = client'[j].code
          PROVE  i = j
      BY <2>1, <2>6, <2>7, <3>2 DEF EInv, CodeInv, OneClientPerCode
    <3> QED BY <3>1, <3>2 DEF CodeInv, OneClientPerCode
  <2> QED BY <2>4, <2>5, <2>8 DEF EInv, TypeInv, EnrollClient
<1> QED BY <1>2, <1>3 DEF EnrollClient

\* A client that is revoked keeps its code.
LEMMA RevokeStep ==
  ASSUME EInv, RevokeClient
  PROVE  EInv'
<1>1. client \in Seq(Client)
  BY DEF EInv, TypeInv
<1>2. /\ client' \in Seq(Client) /\ DOMAIN client' = DOMAIN client
      /\ \A i \in DOMAIN client : client'[i].code = client[i].code
  <2>1. PICK gone \in {{i} : i \in DOMAIN client} \cup {DOMAIN client} :
          client' = [i \in DOMAIN client |->
            IF i \in gone THEN [client[i] EXCEPT !.revoked = TRUE] ELSE client[i]]
    BY DEF RevokeClient
  <2>2. DOMAIN client = 1..Len(client) /\ Len(client) \in Nat
    BY <1>1
  <2>3. \A i \in 1..Len(client) : client'[i] \in Client /\ client'[i].code = client[i].code
    <3>1. \A i \in 1..Len(client) : client[i] \in Client
      BY <1>1, ElementOfSeq
    <3>2. \A e \in Client : /\ [e EXCEPT !.revoked = TRUE] \in Client
                            /\ [e EXCEPT !.revoked = TRUE].code = e.code
      BY DEF Client
    <3>3. \A i \in 1..Len(client) :
            client'[i] = IF i \in gone THEN [client[i] EXCEPT !.revoked = TRUE] ELSE client[i]
      BY <2>1, <2>2, Zenon
    <3> QED BY <3>1, <3>2, <3>3, Zenon
  <2>4. client' \in [1..Len(client) -> Client]
    BY <2>1, <2>2, <2>3
  <2>5. client' \in Seq(Client)
    BY <2>2, <2>4, SeqDef
  <2> QED BY <2>1, <2>2, <2>3, <2>5
<1>3. CodeInv'
  BY <1>2 DEF EInv, CodeInv, OneClientPerCode, RevokeClient
<1>4. SameError'
  BY DEF EInv, SameError, RevokeClient
<1> QED BY <1>2, <1>3, <1>4 DEF EInv, TypeInv, RevokeClient

\* A new code is one no client has.
LEMMA NewCodeStep ==
  ASSUME EInv, NEW c \in Codes, NewEnrollCode(c)
  PROVE  EInv'
<1>1. code' = [code EXCEPT ![c] = [state |-> "open", expires |-> now + CodeLife]]
  BY DEF NewEnrollCode
<1>2. [state |-> "open", expires |-> now + CodeLife] \in Code
  BY RelayAssumption DEF EInv, TypeInv, Code
<1>3. code' \in [Codes -> Code]
  BY <1>1, <1>2 DEF EInv, TypeInv
<1>4. code[c].state = "none"
  BY DEF NewEnrollCode
<1>5. \A i \in DOMAIN client : client[i].code # c
  BY <1>4 DEF EInv, CodeInv
<1>6. CodeInv'
  BY <1>1, <1>5 DEF EInv, CodeInv, TypeInv, OneClientPerCode, NewEnrollCode
<1> QED BY <1>3, <1>6 DEF EInv, TypeInv, SameError, NewEnrollCode

\* The steps of a command, but for the one that adds a client.
LEMMA CommandStep ==
  ASSUME EInv, NEW m \in Machines,
         \/ StartEnroll(m) \/ ReadAttempts(m) \/ CountAttempt(m) \/ SaveToken(m)
         \/ ReadConfig(m) \/ WriteConfig(m) \/ StartRequest(m) \/ RequestStep(m)
         \/ ReadToEdit(m) \/ WriteEdited(m) \/ Kill(m)
  PROVE  EInv'
<1> DEFINE Calls == {NoCall} \cup EnrollCall \cup RequestCall \cup ToldCall
<1>1. TypeInv /\ SameError /\ CodeInv
  BY DEF EInv
<1>2. NoCall \in Calls /\ NoCall.pc # "told"
  BY DEF NoCall
\* It is enough to look at the variables a step changes.
<1>3. ASSUME UNCHANGED <<now, code, client, token, conf, edit>>,
             attempts' \in [count : Nat, start : Nat],
             NEW c \in Calls, c.pc = "told" => RightlyTold(c),
             call' = [call EXCEPT ![m] = c]
      PROVE  EInv'
  <2>1. call' \in [Machines -> Calls] /\ SameError'
    BY <1>1, <1>3, CallChange
  <2>2. CodeInv'
    BY <1>1, <1>3, CodesUntouched
  <2> QED BY <1>1, <1>3, <2>1, <2>2 DEF EInv, TypeInv
<1>4. attempts \in [count : Nat, start : Nat] /\ now \in Nat
  BY <1>1 DEF TypeInv
<1>5. ASSUME End(m) PROVE call' = [call EXCEPT ![m] = NoCall]
  BY <1>5 DEF End
<1>6. CASE StartEnroll(m)
  <2>1. PICK c \in Codes :
          call' = [call EXCEPT ![m] = [pc |-> "attempt", code |-> c, seen |-> attempts,
                     at |-> now, id |-> None, left |-> ConfigKeys, key |-> "", file |-> {}]]
    BY <1>6 DEF StartEnroll
  <2> DEFINE d == [pc |-> "attempt", code |-> c, seen |-> attempts,
                     at |-> now, id |-> None, left |-> ConfigKeys, key |-> "", file |-> {}]
  <2>2. d \in EnrollCall /\ d.pc # "told"
    BY <1>4 DEF EnrollCall, FileKeys, None
  <2> QED BY <1>3, <1>4, <1>6, <2>1, <2>2 DEF StartEnroll
<1>7. CASE ReadAttempts(m)
  <2> DEFINE seen == IF WindowOver(attempts) THEN [count |-> 0, start |-> now] ELSE attempts
             d == [call[m] EXCEPT !.pc = "count", !.at = now, !.seen = seen]
  <2>1. call[m] \in EnrollCall
    BY <1>1, <1>7, CallKinds DEF ReadAttempts
  <2>2. seen \in [count : Nat, start : Nat]
    BY <1>4
  <2>3. \A e \in EnrollCall, n \in Nat, r \in [count : Nat, start : Nat] :
          /\ [e EXCEPT !.pc = "count", !.at = n, !.seen = r] \in EnrollCall
          /\ [e EXCEPT !.pc = "count", !.at = n, !.seen = r].pc # "told"
    BY DEF EnrollCall
  <2>4. d \in EnrollCall /\ d.pc # "told"
    BY <1>4, <2>1, <2>2, <2>3, Zenon
  <2>5. call' = [call EXCEPT ![m] = d]
    BY <1>7 DEF ReadAttempts
  <2> QED BY <1>3, <1>4, <1>7, <2>4, <2>5 DEF ReadAttempts
<1>8. ASSUME NEW pc \in {"count", "enroll", "save", "config", "write"},
             call[m] \in EnrollCall, Goto(m, pc)
      PROVE  \E c \in Calls : c.pc # "told" /\ call' = [call EXCEPT ![m] = c]
  <2>1. \A e \in EnrollCall :
          [e EXCEPT !.pc = pc] \in EnrollCall /\ [e EXCEPT !.pc = pc].pc # "told"
    BY <1>8 DEF EnrollCall
  <2>2. call' = [call EXCEPT ![m] = [call[m] EXCEPT !.pc = pc]]
    BY <1>8 DEF Goto
  <2> QED BY <1>8, <2>1, <2>2
<1>9. ASSUME NEW pc \in {"auth", "limit", "handle"}, call[m] \in RequestCall, Goto(m, pc)
      PROVE  \E c \in Calls : c.pc # "told" /\ call' = [call EXCEPT ![m] = c]
  <2>1. \A e \in RequestCall :
          [e EXCEPT !.pc = pc] \in RequestCall /\ [e EXCEPT !.pc = pc].pc # "told"
    BY <1>9 DEF RequestCall
  <2>2. call' = [call EXCEPT ![m] = [call[m] EXCEPT !.pc = pc]]
    BY <1>9 DEF Goto
  <2> QED BY <1>9, <2>1, <2>2
<1>10. CASE CountAttempt(m)
  <2>1. call[m] \in EnrollCall
    BY <1>1, <1>10, CallKinds DEF CountAttempt
  <2>2. \A e \in EnrollCall : [e.seen EXCEPT !.count = e.seen.count + 1] \in [count : Nat, start : Nat]
    BY DEF EnrollCall
  <2>3. attempts' \in [count : Nat, start : Nat]
    BY <1>10, <2>1, <2>2 DEF CountAttempt
  <2>4. End(m) \/ Goto(m, "enroll")
    BY <1>10 DEF CountAttempt
  <2>5. \E c \in Calls : c.pc # "told" /\ call' = [call EXCEPT ![m] = c]
    BY <1>2, <1>5, <1>8, <2>1, <2>4
  <2> QED BY <1>3, <1>10, <2>3, <2>5 DEF CountAttempt
<1>11. CASE SaveToken(m)
  <2>1. call[m] \in EnrollCall /\ call[m].id \in Nat
    BY <1>1, <1>11, CallKinds DEF SaveToken, EnrollCall
  <2>2. token' \in [Machines -> Nat]
    BY <1>1, <1>11, <2>1 DEF SaveToken, TypeInv
  <2>3. PICK c \in Calls : c.pc # "told" /\ call' = [call EXCEPT ![m] = c]
    BY <1>8, <1>11, <2>1 DEF SaveToken
  <2>4. call' \in [Machines -> Calls] /\ SameError'
    BY <1>1, <2>3, CallChange
  <2>5. CodeInv'
    BY <1>1, <1>11, CodesUntouched DEF SaveToken
  <2> QED BY <1>1, <1>11, <2>2, <2>4, <2>5 DEF EInv, TypeInv, SaveToken
<1>12. CASE ReadConfig(m)
  <2>1. call[m] \in EnrollCall
    BY <1>1, <1>12, CallKinds DEF ReadConfig
  <2>2. PICK k \in call[m].left :
          call' = [call EXCEPT ![m] = [call[m] EXCEPT !.pc = "write", !.key = k, !.file = conf[m]]]
    BY <1>12 DEF ReadConfig
  <2>3. k \in FileKeys /\ conf[m] \in SUBSET FileKeys
    BY <1>1, <2>1 DEF TypeInv, EnrollCall
  <2>4. \A e \in EnrollCall, j \in FileKeys, f \in SUBSET FileKeys :
          /\ [e EXCEPT !.pc = "write", !.key = j, !.file = f] \in EnrollCall
          /\ [e EXCEPT !.pc = "write", !.key = j, !.file = f].pc # "told"
    BY DEF EnrollCall
  <2>5. PICK c \in Calls : c.pc # "told" /\ call' = [call EXCEPT ![m] = c]
    BY <2>1, <2>2, <2>3, <2>4, Zenon
  <2> QED BY <1>3, <1>4, <1>12, <2>5 DEF ReadConfig
<1>13. CASE WriteConfig(m)
  <2> DEFINE left == AfterKey(call[m].left \ {call[m].key})
  <2>1. /\ call[m] \in EnrollCall /\ call[m].file \subseteq FileKeys
        /\ call[m].key \in FileKeys /\ left \subseteq FileKeys
    BY <1>1, <1>13, CallKinds DEF WriteConfig, EnrollCall, AfterKey
  <2>2. conf' \in [Machines -> SUBSET FileKeys]
    BY <1>1, <1>13, <2>1 DEF WriteConfig, TypeInv
  <2>3. \A e \in EnrollCall, k \in SUBSET FileKeys :
          /\ [e EXCEPT !.pc = "config", !.left = k] \in EnrollCall
          /\ [e EXCEPT !.pc = "config", !.left = k].pc # "told"
    BY DEF EnrollCall
  <2>4. \/ End(m)
        \/ call' = [call EXCEPT ![m] = [call[m] EXCEPT !.pc = "config", !.left = left]]
    BY <1>13 DEF WriteConfig
  <2>5. PICK c \in Calls : c.pc # "told" /\ call' = [call EXCEPT ![m] = c]
    BY <1>2, <1>5, <2>1, <2>3, <2>4, Zenon
  <2>6. call' \in [Machines -> Calls] /\ SameError'
    BY <1>1, <2>5, CallChange
  <2>7. CodeInv'
    BY <1>1, <1>13, CodesUntouched DEF WriteConfig
  <2> QED BY <1>1, <1>13, <2>2, <2>6, <2>7 DEF EInv, TypeInv, WriteConfig
<1>14. CASE StartRequest(m)
  <2> DEFINE d == [pc |-> "auth", id |-> token[m]]
  <2>1. d \in RequestCall /\ d.pc # "told"
    BY <1>1 DEF TypeInv, RequestCall
  <2> QED BY <1>3, <1>4, <1>14, <2>1 DEF StartRequest
<1>15. CASE Authenticate(m)
  <2>1. call[m] \in RequestCall
    BY <1>1, <1>15, CallKinds DEF Authenticate
  <2>2. \E c \in Calls : c.pc # "told" /\ call' = [call EXCEPT ![m] = c]
    BY <1>2, <1>5, <1>9, <1>15, <2>1 DEF Authenticate
  <2> QED BY <1>3, <1>4, <1>15, <2>2 DEF Authenticate
<1>16. CASE Admit(m)
  <2>1. call[m] \in RequestCall
    BY <1>1, <1>16, CallKinds DEF Admit
  <2>2. End(m) \/ Goto(m, "handle")
    BY <1>16 DEF Admit
  <2>3. \E c \in Calls : c.pc # "told" /\ call' = [call EXCEPT ![m] = c]
    BY <1>2, <1>5, <1>9, <2>1, <2>2
  <2> QED BY <1>3, <1>4, <1>16, <2>3 DEF Admit
<1>17. CASE Handle(m)
  <2>0. PICK handler \in Handlers : \E err \in EngineErrors(handler) :
          call' = [call EXCEPT ![m] = [pc |-> "told", handler |-> handler, err |-> err,
                     told |-> IF err = "none" THEN err ELSE ClientError(ErrorCode(handler, err))]]
    BY <1>17 DEF Handle
  <2>1. PICK err \in EngineErrors(handler) :
          call' = [call EXCEPT ![m] = [pc |-> "told", handler |-> handler, err |-> err,
                     told |-> IF err = "none" THEN err ELSE ClientError(ErrorCode(handler, err))]]
    BY <2>0
  <2>2. err \in Errors
    BY DEF EngineErrors, Errors
  <2>3. PICK told : told = IF err = "none" THEN err ELSE ClientError(ErrorCode(handler, err))
    OBVIOUS
  <2>4. told = IF err = "ErrNotFound" /\ handler = "publish" THEN "other" ELSE err
    <3>1. CASE err = "none" BY <2>3, <3>1
    <3>2. CASE err # "none" BY <2>3, <3>2, ErrorsArrive
    <3> QED BY <3>1, <3>2
  <2> DEFINE d == [pc |-> "told", handler |-> handler, err |-> err, told |-> told]
  <2>5. told \in Errors
    BY <2>2, <2>4 DEF Errors
  <2>6. d \in ToldCall /\ RightlyTold(d)
    BY <2>2, <2>4, <2>5 DEF ToldCall, RightlyTold
  <2>7. call' = [call EXCEPT ![m] = d]
    BY <2>1, <2>3
  <2> HIDE DEF d
  <2> QED BY <1>3, <1>4, <1>17, <2>6, <2>7 DEF Handle
<1>18. CASE Answer(m)
  BY <1>2, <1>3, <1>4, <1>5, <1>18 DEF Answer
<1>19. CASE Kill(m)
  BY <1>2, <1>3, <1>4, <1>5, <1>19 DEF Kill
<1>20. CASE ReadToEdit(m)
  <2>1. edit' \in [Machines -> [reading : BOOLEAN, file : SUBSET FileKeys]]
    BY <1>1, <1>20 DEF TypeInv, ReadToEdit
  <2>2. CodeInv' BY <1>1, <1>20, CodesUntouched DEF ReadToEdit
  <2> QED BY <1>1, <1>20, <2>1, <2>2 DEF EInv, TypeInv, SameError, ReadToEdit
<1>21. CASE WriteEdited(m)
  <2>1. NoEdit \in [reading : BOOLEAN, file : SUBSET FileKeys]
    BY DEF NoEdit
  <2>2. /\ edit' \in [Machines -> [reading : BOOLEAN, file : SUBSET FileKeys]]
        /\ conf' \in [Machines -> SUBSET FileKeys]
    BY <1>1, <1>21, <2>1 DEF TypeInv, WriteEdited
  <2>3. CodeInv' BY <1>1, <1>21, CodesUntouched DEF WriteEdited
  <2> QED BY <1>1, <1>21, <2>2, <2>3 DEF EInv, TypeInv, SameError, WriteEdited
<1> QED
  BY <1>6, <1>7, <1>10, <1>11, <1>12, <1>13, <1>14, <1>15, <1>16, <1>17, <1>18, <1>19,
     <1>20, <1>21 DEF RequestStep

\* A relay that restarts has its database, and nobody waits for it.
LEMMA RestartStep ==
  ASSUME EInv, RelayRestart
  PROVE  EInv'
<1>1. call' \in [Machines -> {NoCall} \cup EnrollCall \cup RequestCall \cup ToldCall]
  BY DEF EInv, TypeInv, RelayRestart
<1>2. NoCall.pc # "told"
  BY DEF NoCall
<1>3. SameError'
  BY <1>2 DEF EInv, SameError, RelayRestart
<1>4. CodeInv'
  BY CodesUntouched DEF EInv, RelayRestart
<1> QED BY <1>1, <1>3, <1>4 DEF EInv, TypeInv, RelayRestart

\* Time alone changes no code.
LEMMA TickStep ==
  ASSUME EInv, Tick
  PROVE  EInv'
<1>1. CodeInv' BY CodesUntouched DEF EInv, Tick
<1> QED BY <1>1 DEF EInv, TypeInv, SameError, Tick

\* Every step keeps the invariant.
LEMMA EnrollNext ==
  ASSUME EInv, [Next]_vars
  PROVE  EInv'
<1>1. CASE Tick BY <1>1, TickStep
<1>2. CASE RevokeClient BY <1>2, RevokeStep
<1>3. CASE RelayRestart BY <1>3, RestartStep
<1>4. ASSUME NEW c \in Codes, NewEnrollCode(c) PROVE EInv' BY <1>4, NewCodeStep
<1>5. ASSUME NEW m \in Machines, EnrollClient(m) PROVE EInv' BY <1>5, EnrollClientStep
<1>6. ASSUME NEW m \in Machines,
             \/ StartEnroll(m) \/ EnrollStep(m) \/ StartRequest(m) \/ RequestStep(m)
             \/ ReadToEdit(m) \/ WriteEdited(m) \/ Kill(m)
      PROVE  EInv'
  BY <1>5, <1>6, CommandStep DEF EnrollStep
<1>7. CASE UNCHANGED vars
  <2>1. CodeInv' BY <1>7, CodesUntouched DEF EInv, vars
  <2> QED BY <1>7, <2>1 DEF EInv, TypeInv, SameError, vars
<1> QED BY <1>1, <1>2, <1>3, <1>4, <1>6, <1>7 DEF Next

\* The inductive invariant of enrolling and of errors.
THEOREM EnrollInvariant == Spec => []EInv
BY EnrollInit, EnrollNext, PTL DEF Spec

\* handleEnroll: an enrollment code makes one client, whatever machines use it
\* at once, die or are revoked.
THEOREM CodesAreSingleUse == Spec => []OneClientPerCode
<1>1. EInv => OneClientPerCode BY DEF EInv, CodeInv
<1> QED BY <1>1, EnrollInvariant, PTL

\* The error the client of a relay is told is the one the relay's engine had.
THEOREM ErrorsKeepTheirMeaning == Spec => []SameError
<1>1. EInv => SameError BY DEF EInv
<1> QED BY <1>1, EnrollInvariant, PTL

----------------------------------------------------------------------------
\* The rate limiter

Admitted == [id : Nat, at : Nat]

\* The requests of the client of request j the relay let in since, j included.
SinceIn(list, j) == {k \in j..Len(list) : list[k].id = list[j].id}

\* What a client has left in its bucket and what was let in since one of its
\* requests together are within what the rate and the burst allow.
WithinRate(j) ==
  LET b == bucket[admitted[j].id]
  IN /\ admitted[j].id \in DOMAIN bucket
     /\ admitted[j].at <= b.last
     /\ Cardinality(SinceIn(admitted, j)) + b.tokens <= Burst + Rate * (b.last - admitted[j].at)

RateInv ==
  /\ admitted \in Seq(Admitted)
  /\ \A i \in DOMAIN bucket : bucket[i] \in [tokens : 0..Burst, last : 0..now]
  /\ \A j \in DOMAIN admitted : WithinRate(j)
  /\ RateKept

\* What a rate allows in two periods it allows in the two as one.
LEMMA RateAdds ==
  ASSUME NEW a \in Int, NEW b \in Int, NEW c \in Int
  PROVE  Rate * (c - b) + Rate * (b - a) = Rate * (c - a)
BY RelayAssumption

\* What a rate allows in a longer period is no less.
LEMMA RateGrows ==
  ASSUME NEW a \in Int, NEW b \in Int, a <= b
  PROVE  Rate * a <= Rate * b
<1>1. Rate * (b - a) >= 0
  BY RelayAssumption
<1>2. Rate * (b - a) = Rate * b - Rate * a
  BY RelayAssumption
<1> QED BY <1>1, <1>2, RelayAssumption

\* Filling a bucket keeps it between empty and full.
LEMMA FilledBounds ==
  ASSUME NEW b, b.tokens \in 0..Burst, b.last \in Nat, now \in Nat, b.last <= now
  PROVE  /\ Filled(b) \in 0..Burst
         /\ Filled(b) <= b.tokens + Rate * (now - b.last)
<1>1. (now - b.last) * Rate \in Int /\ (now - b.last) * Rate = Rate * (now - b.last)
  BY RelayAssumption
<1>2. Rate * (now - b.last) >= 0
  BY RelayAssumption
<1> QED BY <1>1, <1>2, RelayAssumption DEF Filled

\* Requests since are finitely many.
LEMMA SinceFinite ==
  ASSUME RateInv, NEW j \in DOMAIN admitted
  PROVE  /\ IsFiniteSet(SinceIn(admitted, j)) /\ Cardinality(SinceIn(admitted, j)) \in Nat
         /\ Len(admitted) + 1 \notin SinceIn(admitted, j)
<1>1. j \in Int /\ Len(admitted) \in Int
  BY DEF RateInv
<1>2. IsFiniteSet(j..Len(admitted))
  BY <1>1, FS_Interval
<1>3. IsFiniteSet(SinceIn(admitted, j))
  BY <1>2, FS_Subset DEF SinceIn
<1> QED BY <1>1, <1>3, FS_CardinalityType DEF SinceIn

\* A bucket that was looked at just now holds at least nothing, and no more
\* than before and what flowed in since.
LEMMA TokensBounds ==
  ASSUME RateInv, now \in Nat, NEW i
  PROVE  /\ Tokens(i) \in 0..Burst
         /\ i \in DOMAIN bucket =>
              Tokens(i) <= bucket[i].tokens + Rate * (now - bucket[i].last)
<1>1. CASE i \in DOMAIN bucket
  <2>1. /\ bucket[i].tokens \in 0..Burst /\ bucket[i].last \in Nat /\ bucket[i].last <= now
    BY <1>1 DEF RateInv
  <2>2. /\ Filled(bucket[i]) \in 0..Burst
        /\ Filled(bucket[i]) <= bucket[i].tokens + Rate * (now - bucket[i].last)
    BY <2>1, FilledBounds
  <2> QED BY <1>1, <2>2 DEF Tokens
<1>2. CASE i \notin DOMAIN bucket
  BY <1>2, RelayAssumption DEF Tokens
<1> QED BY <1>1, <1>2

\* What a request leaves in the bucket of its client, and in the others.
LEMMA Left ==
  ASSUME RateInv, now \in Nat, NEW i, NEW tokens \in 0..Burst, Leave(i, tokens), now' = now
  PROVE  /\ DOMAIN bucket' = DOMAIN bucket \cup {i}
         /\ bucket'[i].tokens = tokens /\ bucket'[i].last = now
         /\ \A j \in DOMAIN bucket : j # i => bucket'[j] = bucket[j]
         /\ \A j \in DOMAIN bucket' :
              bucket'[j] \in [tokens : 0..Burst, last : 0..now']
<1>1. /\ DOMAIN bucket' = DOMAIN bucket \cup {i}
      /\ bucket'[i] = [tokens |-> tokens, last |-> now]
      /\ \A j \in DOMAIN bucket : j # i => bucket'[j] = bucket[j]
  BY DEF Leave
<1>2. now \in 0..now
  OBVIOUS
<1> QED BY <1>1, <1>2 DEF RateInv

\* Time that flows in makes room for as much as it adds.
LEMMA StillWithin ==
  ASSUME RateInv, now \in Nat, NEW j \in DOMAIN admitted
  PROVE  /\ admitted[j].at \in Nat /\ admitted[j].at <= now
         /\ Cardinality(SinceIn(admitted, j)) + Tokens(admitted[j].id)
              <= Burst + Rate * (now - admitted[j].at)
<1> DEFINE i == admitted[j].id
           at == admitted[j].at
           n == Cardinality(SinceIn(admitted, j))
<1>1. i \in Nat /\ at \in Nat
  <2>1. admitted[j] \in Admitted BY ElementOfSeq DEF RateInv
  <2> QED BY <2>1 DEF Admitted
<1>2. /\ i \in DOMAIN bucket /\ at <= bucket[i].last
      /\ n + bucket[i].tokens <= Burst + Rate * (bucket[i].last - at)
  BY DEF RateInv, WithinRate
<1>3. /\ bucket[i].tokens \in Nat /\ bucket[i].last \in Nat /\ bucket[i].last <= now
  BY <1>2 DEF RateInv
<1>4. Tokens(i) \in Nat /\ Tokens(i) <= bucket[i].tokens + Rate * (now - bucket[i].last)
  BY <1>2, TokensBounds
<1>5. Rate * (now - bucket[i].last) + Rate * (bucket[i].last - at) = Rate * (now - at)
  BY <1>1, <1>3, RateAdds
<1>6. n \in Nat
  BY SinceFinite
<1>7. /\ Rate * (now - bucket[i].last) \in Int /\ Rate * (bucket[i].last - at) \in Int
      /\ Rate * (now - at) \in Int
  BY <1>1, <1>3, RelayAssumption
<1>8. at <= now
  BY <1>1, <1>2, <1>3
<1>9. n + Tokens(i) <= Burst + Rate * (now - at)
  <2> HIDE DEF i, at, n
  <2> QED BY <1>2, <1>3, <1>4, <1>5, <1>6, <1>7, RelayAssumption
<1> QED BY <1>1, <1>8, <1>9

\* A request the limiter refuses keeps every client within its rate.
LEMMA RefuseStep ==
  ASSUME RateInv, now \in Nat, NEW i, Leave(i, Tokens(i)), UNCHANGED <<now, admitted>>
  PROVE  RateInv'
<1>1. Tokens(i) \in 0..Burst
  BY TokensBounds
<1>2. /\ DOMAIN bucket' = DOMAIN bucket \cup {i}
      /\ bucket'[i].tokens = Tokens(i) /\ bucket'[i].last = now
      /\ \A j \in DOMAIN bucket : j # i => bucket'[j] = bucket[j]
      /\ \A j \in DOMAIN bucket' :
           bucket'[j] \in [tokens : 0..Burst, last : 0..now']
  BY <1>1, Left
<1>3. ASSUME NEW j \in DOMAIN admitted PROVE WithinRate(j)'
  <2>1. SinceIn(admitted', j) = SinceIn(admitted, j)
    BY DEF SinceIn
  <2>2. CASE admitted[j].id = i
    BY <1>2, <2>1, <2>2, StillWithin DEF WithinRate
  <2>3. CASE admitted[j].id # i
    BY <1>2, <2>1, <2>3 DEF RateInv, WithinRate
  <2> QED BY <2>2, <2>3
<1>4. RateKept'
  BY DEF RateInv, RateKept
<1> QED BY <1>2, <1>3, <1>4 DEF RateInv

\* With what is left in the bucket, and more time, there is as much room.
LEMMA RoomGrows ==
  ASSUME NEW c \in Nat, NEW tokens \in 0..Burst, NEW n \in Nat, NEW last \in 0..n,
         NEW at \in Nat, c + tokens <= Burst + Rate * (last - at)
  PROVE  c <= Burst + Rate * (n - at)
<1>1. Rate * (last - at) <= Rate * (n - at)
  BY RateGrows
<1>2. Rate * (last - at) \in Int /\ Rate * (n - at) \in Int
  BY RelayAssumption
<1> QED BY <1>1, <1>2, RelayAssumption

\* So does one it lets in.
LEMMA AdmitStep ==
  ASSUME RateInv, now \in Nat, NEW i \in Nat, Tokens(i) >= 1, Leave(i, Tokens(i) - 1),
         admitted' = Append(admitted, [id |-> i, at |-> now]), now' = now
  PROVE  RateInv'
<1> DEFINE n == Len(admitted)
<1>1. Tokens(i) \in 0..Burst /\ Tokens(i) - 1 \in 0..Burst
  BY TokensBounds, RelayAssumption
<1>2. /\ DOMAIN bucket' = DOMAIN bucket \cup {i}
      /\ bucket'[i].tokens = Tokens(i) - 1 /\ bucket'[i].last = now
      /\ \A j \in DOMAIN bucket : j # i => bucket'[j] = bucket[j]
      /\ \A j \in DOMAIN bucket' :
           bucket'[j] \in [tokens : 0..Burst, last : 0..now']
  BY <1>1, Left
<1>3. /\ admitted' \in Seq(Admitted) /\ n \in Nat /\ Len(admitted') = n + 1
      /\ DOMAIN admitted = 1..n /\ DOMAIN admitted' = 1..(n + 1)
      /\ \A j \in 1..n : admitted'[j] = admitted[j]
      /\ admitted'[n + 1] = [id |-> i, at |-> now]
  <2>1. [id |-> i, at |-> now] \in Admitted BY DEF Admitted
  <2>2. admitted \in Seq(Admitted) BY DEF RateInv
  <2> QED BY <2>1, <2>2, AppendProperties, LenProperties
<1> HIDE DEF n
<1>4. ASSUME NEW j \in 1..n
      PROVE  SinceIn(admitted', j) = IF admitted[j].id = i THEN SinceIn(admitted, j) \cup {n + 1} ELSE SinceIn(admitted, j)
  <2>1. j..(n + 1) = (j..n) \cup {n + 1} /\ n + 1 \notin j..n
    BY <1>3
  <2>2. \A k \in j..n : k \in 1..n
    BY <1>3
  <2>3. SinceIn(admitted', j) = {k \in j..(n + 1) : admitted'[k].id = admitted[j].id}
    BY <1>3 DEF SinceIn
  <2>4. SinceIn(admitted, j) = {k \in j..n : admitted[k].id = admitted[j].id}
    BY DEF SinceIn, n
  <2>5. admitted'[n + 1].id = i
    BY <1>3
  <2>6. \A k \in j..n : admitted'[k].id = admitted[k].id
    BY <1>3, <2>2
  <2>7. CASE admitted[j].id = i BY <2>1, <2>3, <2>4, <2>5, <2>6, <2>7
  <2>8. CASE admitted[j].id # i BY <2>1, <2>3, <2>4, <2>5, <2>6, <2>8
  <2> QED BY <2>7, <2>8
<1>5. SinceIn(admitted', n + 1) = {n + 1}
  BY <1>3 DEF SinceIn
<1>6. ASSUME NEW j \in 1..(n + 1) PROVE WithinRate(j)'
  <2>1. CASE j = n + 1
    <3>1. Cardinality(SinceIn(admitted', j)) = 1
      BY <1>5, <2>1, FS_Singleton
    <3>2. admitted'[j].id = i /\ admitted'[j].at = now
      BY <1>3, <2>1
    <3>3. 1 + (Tokens(i) - 1) <= Burst + Rate * (now - now)
      <4>1. now - now = 0 /\ Rate * 0 = 0 /\ Burst \in Nat
        BY RelayAssumption
      <4>2. Tokens(i) \in Nat /\ Tokens(i) <= Burst
        BY <1>1, <4>1
      <4>3. 1 + (Tokens(i) - 1) = Tokens(i) /\ Burst + 0 = Burst
        BY <4>1, <4>2
      <4> QED BY <4>1, <4>2, <4>3
    <3>4. /\ admitted'[j].id \in DOMAIN bucket'
          /\ bucket'[admitted'[j].id].tokens = Tokens(i) - 1
          /\ bucket'[admitted'[j].id].last = now
      BY <1>2, <3>2
    <3>5. now <= now
      OBVIOUS
    <3> QED BY <3>1, <3>2, <3>3, <3>4, <3>5, Zenon DEF WithinRate
  <2>2. CASE j \in 1..n /\ admitted[j].id = i
    <3> DEFINE c == Cardinality(SinceIn(admitted, j))
               room == Burst + Rate * (now - admitted[j].at)
    <3>1. j \in DOMAIN admitted
      BY <1>3, <2>2
    <3>2. IsFiniteSet(SinceIn(admitted, j)) /\ c \in Nat /\ n + 1 \notin SinceIn(admitted, j)
      BY <3>1, SinceFinite DEF n
    <3>3. Cardinality(SinceIn(admitted', j)) = c + 1
      BY <1>4, <2>2, <3>2, FS_AddElement
    <3>4. /\ admitted[j].at \in Nat /\ admitted[j].at <= now
          /\ c + Tokens(i) <= room
      BY <2>2, <3>1, StillWithin
    <3>5. room \in Int
      <4>1. now - admitted[j].at \in Int BY <3>4
      <4>2. Rate \in Int /\ Burst \in Int BY RelayAssumption
      <4> QED BY <4>1, <4>2
    <3>6. Tokens(i) \in Int
      BY <1>1, RelayAssumption
    <3>7. (c + 1) + (Tokens(i) - 1) <= room
      <4> HIDE DEF c, room
      <4> QED BY <3>2, <3>4, <3>5, <3>6
    <3>8. admitted'[j] = admitted[j]
      BY <1>3, <2>2
    <3> HIDE DEF c
    <3> QED BY <1>2, <2>2, <3>3, <3>4, <3>7, <3>8 DEF WithinRate
  <2>3. CASE j \in 1..n /\ admitted[j].id # i
    <3>1. SinceIn(admitted', j) = SinceIn(admitted, j) /\ admitted'[j] = admitted[j]
      BY <1>3, <1>4, <2>3
    <3>2. WithinRate(j) /\ admitted[j].id \in DOMAIN bucket
      BY <1>3, <2>3 DEF RateInv, WithinRate
    <3>3. /\ admitted[j].id \in DOMAIN bucket'
          /\ bucket'[admitted[j].id] = bucket[admitted[j].id]
      BY <1>2, <2>3, <3>2
    <3> QED BY <3>1, <3>2, <3>3 DEF WithinRate
  <2> QED BY <2>1, <2>2, <2>3, <1>3
<1>7. RateKept'
  <2> SUFFICES ASSUME NEW a \in 1..(n + 1), NEW b \in 1..(n + 1), a <= b
               PROVE  Cardinality({k \in a..b : admitted'[k].id = admitted'[a].id})
                        <= Burst + Rate * (admitted'[b].at - admitted'[a].at)
    BY <1>3 DEF RateKept
  <2>1. CASE b \in 1..n
    <3>1. a \in 1..n /\ a..b \subseteq 1..n
      BY <1>3, <2>1
    <3>2. {k \in a..b : admitted'[k].id = admitted'[a].id}
            = {k \in a..b : admitted[k].id = admitted[a].id}
      BY <1>3, <3>1
    <3> QED BY <1>3, <2>1, <3>1, <3>2 DEF RateInv, RateKept
  <2>2. CASE b = n + 1
    <3> DEFINE b1 == bucket'[admitted'[a].id]
               at == admitted'[a].at
    <3>1. {k \in a..b : admitted'[k].id = admitted'[a].id} = SinceIn(admitted', a)
      BY <1>3, <2>2 DEF SinceIn
    <3>2. /\ admitted'[a].id \in DOMAIN bucket' /\ at <= b1.last
          /\ Cardinality(SinceIn(admitted', a)) + b1.tokens <= Burst + Rate * (b1.last - at)
      BY <1>6 DEF WithinRate
    <3>3. b1.tokens \in 0..Burst /\ b1.last \in 0..now
      BY <1>2, <3>2
    <3>4. at \in Nat
      <4>1. admitted'[a] \in Admitted BY <1>3, ElementOfSeq
      <4> QED BY <4>1 DEF Admitted
    <3>5. Cardinality(SinceIn(admitted', a)) \in Nat
      <4>1. IsFiniteSet(a..b) BY FS_Interval, <1>3
      <4>2. IsFiniteSet(SinceIn(admitted', a)) BY <3>1, <4>1, FS_Subset
      <4> QED BY <4>2, FS_CardinalityType
    <3>6. Cardinality(SinceIn(admitted', a)) <= Burst + Rate * (now - at)
      <4> HIDE DEF b1, at
      <4> QED BY <3>2, <3>3, <3>4, <3>5, RoomGrows
    <3>7. admitted'[b].at = now
      BY <1>3, <2>2
    <3> QED BY <3>1, <3>6, <3>7
  <2>3. b \in 1..n \/ b = n + 1
    BY <1>3
  <2> QED BY <2>1, <2>2, <2>3
<1> QED BY <1>2, <1>3, <1>6, <1>7 DEF RateInv

\* No request was let in yet.
LEMMA RateInit ==
  ASSUME Init
  PROVE  RateInv
<1>1. admitted = <<>> /\ bucket = <<>> BY DEF Init
<1>2. DOMAIN admitted = {} /\ DOMAIN bucket = {} BY <1>1
<1>3. admitted \in Seq(Admitted) BY <1>1
<1> QED BY <1>2, <1>3 DEF RateInv, RateKept

\* The limiter is untouched by everything but requests that reach it; time may
\* pass.
LEMMA LimiterUntouched ==
  ASSUME RateInv, now \in Nat, UNCHANGED <<bucket, admitted>>, now' \in Nat, now <= now'
  PROVE  RateInv'
<1>1. \A i \in DOMAIN bucket : bucket[i] \in [tokens : 0..Burst, last : 0..now']
  BY DEF RateInv
<1>2. \A j \in DOMAIN admitted : WithinRate(j)'
  BY DEF RateInv, WithinRate
<1>3. RateKept' BY DEF RateInv, RateKept
<1> QED BY <1>1, <1>2, <1>3 DEF RateInv

\* Every step keeps every client within its rate.
LEMMA RateNext ==
  ASSUME EInv, RateInv, [Next]_vars
  PROVE  RateInv'
<1>1. now \in Nat
  BY DEF EInv, TypeInv
<1>2. CASE Tick
  BY <1>1, <1>2, LimiterUntouched DEF Tick
<1>3. CASE RelayRestart
  <2>1. admitted' = <<>> /\ bucket' = <<>> BY <1>3 DEF RelayRestart
  <2>2. DOMAIN admitted' = {} /\ DOMAIN bucket' = {} BY <2>1
  <2>3. admitted' \in Seq(Admitted) BY <2>1
  <2> QED BY <2>2, <2>3 DEF RateInv, RateKept
<1>4. ASSUME NEW m \in Machines, Admit(m) PROVE RateInv'
  <2>1. call[m].id \in Nat
    <3>1. call[m] \in RequestCall BY <1>4, CallKinds DEF EInv, Admit
    <3> QED BY <3>1 DEF RequestCall
  <2>2. now' = now BY <1>4 DEF Admit
  <2>3. CASE Leave(call[m].id, Tokens(call[m].id)) /\ UNCHANGED admitted
    BY <1>1, <2>2, <2>3, RefuseStep
  <2>4. CASE /\ Tokens(call[m].id) >= 1 /\ Leave(call[m].id, Tokens(call[m].id) - 1)
             /\ admitted' = Append(admitted, [id |-> call[m].id, at |-> now])
    BY <1>1, <2>1, <2>2, <2>4, AdmitStep
  <2> QED BY <1>4, <2>3, <2>4 DEF Admit
<1>5. ASSUME UNCHANGED <<now, bucket, admitted>> PROVE RateInv'
  BY <1>1, <1>5, LimiterUntouched
<1>6. CASE RevokeClient \/ UNCHANGED vars
  BY <1>5, <1>6 DEF RevokeClient, vars
<1>7. ASSUME NEW c \in Codes, NewEnrollCode(c) PROVE RateInv'
  BY <1>5, <1>7 DEF NewEnrollCode
<1>8. ASSUME NEW m \in Machines, EnrollStep(m) PROVE RateInv'
  BY <1>5, <1>8 DEF EnrollStep, ReadAttempts, CountAttempt, EnrollClient, SaveToken,
                    ReadConfig, WriteConfig
<1>9. ASSUME NEW m \in Machines, StartEnroll(m) \/ StartRequest(m) \/ Authenticate(m)
             \/ Handle(m) \/ Answer(m) \/ ReadToEdit(m) \/ WriteEdited(m) \/ Kill(m)
      PROVE  RateInv'
  BY <1>5, <1>9 DEF StartEnroll, StartRequest, Authenticate, Handle, Answer, ReadToEdit,
                    WriteEdited, Kill
<1> QED BY <1>2, <1>3, <1>4, <1>6, <1>7, <1>8, <1>9 DEF Next, RequestStep

\* limiter.allow: in any period the relay lets in no more requests of a client
\* than its rate and burst allow, however long it was idle or was refused.
THEOREM RateIsKept == Spec => []RateKept
<1>1. Init => EInv /\ RateInv BY EnrollInit, RateInit
<1>2. EInv /\ RateInv /\ [Next]_vars => (EInv /\ RateInv)' BY EnrollNext, RateNext
<1>3. RateInv => RateKept BY DEF RateInv
<1> QED BY <1>1, <1>2, <1>3, PTL DEF Spec
----------------------------------------------------------------------------
\* The attempts of an address

\* The attempts let in at a time from lo to hi.
In(list, lo, hi) == {k \in DOMAIN list : list[k] \in lo..hi}

\* What the row of the address says of the attempts let in: in its window are no
\* more than it counts, the first of them at its start; in the window's length
\* before it one less than the limit, as the first of those was earlier; and in any
\* other period less than twice the limit.
RowHolds(list, count, start) ==
  /\ \A k \in DOMAIN list : list[k] <= start + Window
  /\ Cardinality(In(list, start, start + Window)) <= count
  /\ Cardinality(In(list, start + 1, start + Window)) <= IF count = 0 THEN 0 ELSE count - 1
  /\ Cardinality(In(list, start + 1, start + Window)) < Limit
  /\ Cardinality(In(list, start - Window, start - 1)) < Limit
  /\ \A from \in Nat : Cardinality(In(list, from, from + Window)) < 2 * Limit

\* What a machine read is the row still, or a new row if that one's window is
\* over.
ReadHolds(c) ==
  /\ c.at <= now
  /\ \/ /\ c.seen = attempts /\ attempts.count > 0
        /\ c.at \in attempts.start..(attempts.start + Window)
     \/ /\ c.seen = [count |-> 0, start |-> c.at]
        /\ attempts.count = 0 \/ c.at > attempts.start + Window

\* As long as no two machines were counting at once: one is, at most, and the
\* row and what that one read hold.
CountingInv ==
  /\ \A m, n \in Machines : call[m].pc = "count" /\ call[n].pc = "count" => m = n
  /\ \A m \in Machines : call[m].pc = "count" => ReadHolds(call[m])
  /\ attempts.start <= now
  /\ attempts.count = 0 => allowed = <<>>
  /\ RowHolds(allowed, attempts.count, attempts.start)

AttemptsInv == allowed \in Seq(Nat) /\ (~raced => CountingInv)

\* The limits of attempts are numbers.
LEMMA LimitIsNumber == Limit \in Nat /\ Limit > 0 /\ Window \in Nat
BY RelayAssumption

\* The attempts of some time are finitely many.
LEMMA InFinite ==
  ASSUME NEW list \in Seq(Nat), NEW lo \in Int, NEW hi \in Int
  PROVE  IsFiniteSet(In(list, lo, hi)) /\ Cardinality(In(list, lo, hi)) \in Nat
<1>1. IsFiniteSet(1..Len(list)) BY FS_Interval
<1>2. In(list, lo, hi) \subseteq 1..Len(list) BY DEF In
<1> QED BY <1>1, <1>2, FS_Subset, FS_CardinalityType

\* Of fewer attempts there are not more.
LEMMA InFewer ==
  ASSUME NEW list \in Seq(Nat), NEW lo \in Int, NEW hi \in Int,
         NEW S, S \subseteq In(list, lo, hi)
  PROVE  /\ IsFiniteSet(S) /\ Cardinality(S) \in Nat
         /\ Cardinality(S) <= Cardinality(In(list, lo, hi))
BY InFinite, FS_Subset, FS_CardinalityType

\* One more attempt is one more at its time, and none at another.
LEMMA InAppend ==
  ASSUME NEW list \in Seq(Nat), NEW lo \in Int, NEW hi \in Int, NEW t \in Nat
  PROVE  /\ Append(list, t) \in Seq(Nat)
         /\ In(Append(list, t), lo, hi) =
              IF t \in lo..hi THEN In(list, lo, hi) \cup {Len(list) + 1} ELSE In(list, lo, hi)
         /\ Cardinality(In(Append(list, t), lo, hi)) =
              IF t \in lo..hi THEN Cardinality(In(list, lo, hi)) + 1
                              ELSE Cardinality(In(list, lo, hi))
<1> DEFINE n == Len(list)
           more == Append(list, t)
<1>1. /\ n \in Nat /\ more \in Seq(Nat) /\ DOMAIN list = 1..n /\ DOMAIN more = 1..(n + 1)
      /\ \A k \in 1..n : more[k] = list[k]
      /\ more[n + 1] = t
  BY AppendProperties, LenProperties
<1> HIDE DEF more, n
<1>2. 1..(n + 1) = (1..n) \cup {n + 1} /\ n + 1 \notin 1..n
  BY <1>1
<1>3. In(list, lo, hi) = {k \in 1..n : list[k] \in lo..hi}
  BY <1>1 DEF In
<1>4. In(more, lo, hi) = {k \in (1..n) \cup {n + 1} : more[k] \in lo..hi}
  BY <1>1, <1>2 DEF In
<1>5. In(more, lo, hi) = IF t \in lo..hi THEN In(list, lo, hi) \cup {n + 1} ELSE In(list, lo, hi)
  BY <1>1, <1>3, <1>4
<1>6. n + 1 \notin In(list, lo, hi)
  BY <1>2, <1>3
<1>7. IsFiniteSet(In(list, lo, hi))
  BY InFinite
<1>8. Cardinality(In(list, lo, hi) \cup {n + 1}) = Cardinality(In(list, lo, hi)) + 1
  BY <1>6, <1>7, FS_AddElement
<1> QED BY <1>1, <1>5, <1>8 DEF more, n

\* The row counts an attempt it lets in.
LEMMA RowCounts ==
  ASSUME NEW list \in Seq(Nat), NEW count \in Nat, NEW start \in Nat, NEW t \in Nat,
         RowHolds(list, count, start), t \in start..(start + Window), count + 1 <= Limit,
         count = 0 => t = start
  PROVE  RowHolds(Append(list, t), count + 1, start)
<1> DEFINE more == Append(list, t)
           here == In(list, start, start + Window)
           later == In(list, start + 1, start + Window)
           before == In(list, start - Window, start - 1)
<1>1. Window \in Nat /\ Limit \in Nat /\ Limit > 0
  BY LimitIsNumber
<1>2. \A k \in DOMAIN more : more[k] <= start + Window
  <2>1. /\ DOMAIN more = 1..(Len(list) + 1) /\ DOMAIN list = 1..Len(list) /\ Len(list) \in Nat
        /\ \A k \in 1..Len(list) : more[k] = list[k]
        /\ more[Len(list) + 1] = t
    BY AppendProperties, LenProperties
  <2>2. \A k \in 1..Len(list) : list[k] <= start + Window
    BY <2>1 DEF RowHolds
  <2>3. t <= start + Window
    BY <1>1
  <2> HIDE DEF more
  <2>4. ASSUME NEW k \in 1..(Len(list) + 1) PROVE more[k] <= start + Window
    <3>1. k \in 1..Len(list) \/ k = Len(list) + 1
      BY <2>1
    <3> QED BY <2>1, <2>2, <2>3, <3>1
  <2> QED BY <2>1, <2>4
<1>3. Cardinality(In(more, start, start + Window)) = Cardinality(here) + 1
  BY <1>1, InAppend
<1>4. Cardinality(In(more, start - Window, start - 1)) = Cardinality(before)
  <2>1. t \notin (start - Window)..(start - 1) BY <1>1
  <2> QED BY <1>1, <2>1, InAppend
<1>5. Cardinality(here) \in Nat /\ Cardinality(before) \in Nat /\ Cardinality(later) \in Nat
  BY <1>1, InFinite
<1>6. /\ Cardinality(here) <= count /\ Cardinality(before) < Limit
      /\ Cardinality(later) <= IF count = 0 THEN 0 ELSE count - 1
  BY DEF RowHolds
<1>7. ASSUME NEW from \in Nat
      PROVE  Cardinality(In(more, from, from + Window)) < 2 * Limit
  <2> DEFINE old == In(list, from, from + Window)
  <2>1. Cardinality(old) \in Nat /\ Cardinality(old) < 2 * Limit
    <3>1. from + Window \in Int BY <1>1
    <3> QED BY <3>1, InFinite DEF RowHolds
  <2>2. CASE t \notin from..(from + Window)
    BY <1>1, <2>1, <2>2, InAppend
  <2>3. CASE t \in from..(from + Window)
    <3>1. Cardinality(In(more, from, from + Window)) = Cardinality(old) + 1
      BY <1>1, <2>3, InAppend
    <3>2. old \subseteq here \cup before
      <4> SUFFICES ASSUME NEW k \in old PROVE k \in here \cup before
        OBVIOUS
      <4>1. k \in DOMAIN list /\ list[k] \in Nat /\ list[k] >= from /\ list[k] <= start + Window
        BY DEF In, RowHolds
      <4>2. from >= start - Window
        BY <1>1, <2>3
      <4>3. list[k] \in start..(start + Window) \/ list[k] \in (start - Window)..(start - 1)
        BY <1>1, <4>1, <4>2
      <4> QED BY <4>1, <4>3 DEF In
    <3>3. IsFiniteSet(here) /\ IsFiniteSet(before)
      BY <1>1, InFinite
    <3>4. /\ IsFiniteSet(here \cup before)
          /\ Cardinality(here \cup before) = Cardinality(here) + Cardinality(before) - Cardinality(here \cap before)
      BY <3>3, FS_Union
    <3>5. Cardinality(here \cap before) \in Nat
      BY <3>3, FS_Intersection, FS_CardinalityType
    <3>6. Cardinality(old) <= Cardinality(here \cup before)
      BY <3>2, <3>4, FS_Subset
    <3>7. Cardinality(here \cup before) \in Nat
      BY <3>4, FS_CardinalityType
    <3> HIDE DEF old, here, before, more
    <3>8. Cardinality(old) <= Cardinality(here) + Cardinality(before)
      <4> DEFINE a == Cardinality(here)   b == Cardinality(before)   o == Cardinality(old)
                 c == Cardinality(here \cap before)   u == Cardinality(here \cup before)
      <4>1. a \in Nat /\ b \in Nat /\ c \in Nat /\ u \in Nat /\ o \in Nat
        BY <1>5, <2>1, <3>5, <3>7
      <4>2. u = a + b - c /\ o <= u
        BY <3>4, <3>6
      <4> HIDE DEF a, b, c, o, u
      <4>3. o <= a + b
        BY <4>1, <4>2
      <4> QED BY <4>3 DEF a, b, o
    <3>9. Cardinality(here) < Limit /\ Cardinality(before) < Limit
      BY <1>1, <1>5, <1>6
    <3> QED BY <1>1, <1>5, <2>1, <3>1, <3>8, <3>9
  <2> QED BY <2>2, <2>3
<1>8. /\ Cardinality(here) + 1 <= count + 1
      /\ count + 1 # 0 /\ count + 1 - 1 = count
  <2> HIDE DEF here
  <2> QED BY <1>1, <1>5, <1>6
<1>9. /\ Cardinality(In(more, start + 1, start + Window)) <= count
      /\ Cardinality(In(more, start + 1, start + Window)) < Limit
  <2>1. CASE t = start
    <3>1. t \notin (start + 1)..(start + Window) BY <2>1
    <3>2. Cardinality(In(more, start + 1, start + Window)) = Cardinality(later)
      BY <1>1, <3>1, InAppend
    <3> HIDE DEF later, more
    <3> QED BY <1>1, <1>5, <1>6, <3>2
  <2>2. CASE t # start
    <3>1. t \in (start + 1)..(start + Window) /\ count # 0 BY <1>1, <2>2
    <3>2. Cardinality(In(more, start + 1, start + Window)) = Cardinality(later) + 1
      BY <1>1, <3>1, InAppend
    <3> HIDE DEF later, more
    <3> QED BY <1>1, <1>5, <1>6, <3>1, <3>2
  <2> QED BY <2>1, <2>2
<1> HIDE DEF here, before, later, more
<1>10. RowHolds(more, count + 1, start)
  BY <1>2, <1>3, <1>4, <1>6, <1>7, <1>8, <1>9 DEF RowHolds
<1> QED BY <1>10 DEF more

\* It counts one it refuses, too.
LEMMA RowRefuses ==
  ASSUME NEW list \in Seq(Nat), NEW count \in Nat, NEW start \in Nat,
         RowHolds(list, count, start)
  PROVE  RowHolds(list, count + 1, start)
<1> DEFINE here == Cardinality(In(list, start, start + Window))
           later == Cardinality(In(list, start + 1, start + Window))
<1>1. here \in Nat /\ later \in Nat
  <2>1. start + Window \in Int /\ start + 1 \in Int BY LimitIsNumber
  <2> QED BY <2>1, InFinite
<1>2. here <= count /\ later <= IF count = 0 THEN 0 ELSE count - 1
  BY DEF RowHolds
<1> HIDE DEF here, later
<1>3. here <= count + 1 /\ later <= IF count + 1 = 0 THEN 0 ELSE count + 1 - 1
  BY <1>1, <1>2
<1> QED BY <1>3 DEF RowHolds, here, later

\* A row may begin anew when its window is over.
LEMMA RowBegins ==
  ASSUME NEW list \in Seq(Nat), NEW count \in Nat, NEW start \in Nat, NEW t \in Nat,
         RowHolds(list, count, start), t > start + Window
  PROVE  RowHolds(list, 0, t)
<1>1. Window \in Nat /\ Limit \in Nat /\ Limit > 0
  BY LimitIsNumber
<1>2. \A k \in DOMAIN list : list[k] \in Nat /\ list[k] <= start + Window
  BY DEF RowHolds
<1>3. \A k \in DOMAIN list : list[k] < t
  BY <1>1, <1>2
<1>4. In(list, t, t + Window) = {} /\ In(list, t + 1, t + Window) = {}
  BY <1>1, <1>3 DEF In
<1>5. /\ Cardinality(In(list, t, t + Window)) = 0
      /\ Cardinality(In(list, t + 1, t + Window)) = 0
  BY <1>4, FS_EmptySet
<1>6. In(list, t - Window, t - 1) \subseteq In(list, start + 1, start + Window)
  BY <1>1, <1>2 DEF In
<1>7. /\ Cardinality(In(list, t - Window, t - 1)) \in Nat
      /\ Cardinality(In(list, t - Window, t - 1)) <= Cardinality(In(list, start + 1, start + Window))
      /\ Cardinality(In(list, start + 1, start + Window)) \in Nat
  BY <1>1, <1>6, InFewer, InFinite
<1>8. Cardinality(In(list, start + 1, start + Window)) < Limit
  BY DEF RowHolds
<1>9. Cardinality(In(list, t - Window, t - 1)) < Limit
  BY <1>1, <1>7, <1>8
<1>10. \A k \in DOMAIN list : list[k] <= t + Window
  BY <1>1, <1>2
<1>11. 0 <= 0 /\ 0 < Limit /\ (IF 0 = 0 THEN 0 ELSE 0 - 1) = 0
  BY <1>1
<1>12. \A from \in Nat : Cardinality(In(list, from, from + Window)) < 2 * Limit
  BY DEF RowHolds
<1> QED BY <1>5, <1>9, <1>10, <1>11, <1>12 DEF RowHolds

\* A row without attempts holds.
LEMMA RowEmpty ==
  ASSUME NEW start \in Nat
  PROVE  RowHolds(<<>>, 0, start)
<1>1. Limit \in Nat /\ 0 < Limit /\ 0 < 2 * Limit
  BY LimitIsNumber
<1>2. DOMAIN <<>> = {}
  OBVIOUS
<1>3. \A lo, hi \in Int : In(<<>>, lo, hi) = {}
  BY <1>2 DEF In
<1>4. Window \in Nat
  BY LimitIsNumber
<1>5. \A lo, hi \in Int : Cardinality(In(<<>>, lo, hi)) = 0
  BY <1>3, FS_EmptySet
<1> QED BY <1>1, <1>2, <1>4, <1>5 DEF RowHolds

\* No attempt was made yet.
LEMMA AttemptsInit ==
  ASSUME Init
  PROVE  AttemptsInv
<1>1. RowHolds(<<>>, 0, 0)
  BY RowEmpty
<1>2. \A m \in Machines : call[m].pc # "count"
  BY DEF Init, NoCall
<1>3. allowed = <<>> /\ attempts.count = 0 /\ attempts.start = 0 /\ now = 0
  BY DEF Init
<1>4. allowed \in Seq(Nat)
  BY <1>3
<1> QED BY <1>1, <1>2, <1>3, <1>4 DEF AttemptsInv, CountingInv

\* Steps that count nothing: time may pass, and a command may end.
LEMMA AttemptsUntouched ==
  ASSUME AttemptsInv, EInv, UNCHANGED <<attempts, allowed, raced>>,
         now' \in Nat, now <= now',
         \A m \in Machines : call'[m].pc = "count" => call'[m] = call[m]
  PROVE  AttemptsInv'
<1> SUFFICES ASSUME ~raced
             PROVE  CountingInv'
  BY DEF AttemptsInv
<1>1. CountingInv
  BY DEF AttemptsInv
<1>2. now \in Nat /\ attempts \in [count : Nat, start : Nat]
  BY DEF EInv, TypeInv
<1>3. ASSUME NEW m \in Machines, call'[m].pc = "count" PROVE ReadHolds(call[m])'
  <2>1. call[m].pc = "count" /\ call'[m] = call[m]
    BY <1>3
  <2>2. ReadHolds(call[m]) /\ call[m].at \in Nat
    BY <1>1, <2>1, CallKinds DEF CountingInv, EInv, EnrollCall
  <2>3. call[m].at <= now'
    BY <1>2, <2>2 DEF ReadHolds
  <2> QED BY <2>1, <2>2, <2>3 DEF ReadHolds
<1>4. \A m, n \in Machines : call'[m].pc = "count" /\ call'[n].pc = "count" => m = n
  BY <1>1 DEF CountingInv
<1>5. attempts.start <= now'
  BY <1>1, <1>2 DEF CountingInv
<1>6. RowHolds(allowed, attempts.count, attempts.start)'
  BY <1>1 DEF CountingInv, RowHolds
<1> QED BY <1>1, <1>3, <1>4, <1>5, <1>6 DEF CountingInv

\* EnrollAttempt reads the row, alone unless it races.
LEMMA ReadAttemptsStep ==
  ASSUME AttemptsInv, EInv, NEW m \in Machines, ReadAttempts(m)
  PROVE  AttemptsInv'
<1> SUFFICES ASSUME ~raced'
             PROVE  CountingInv'
  BY DEF AttemptsInv, ReadAttempts
<1>1. CountingInv /\ \A n \in Machines : call[n].pc # "count"
  BY DEF AttemptsInv, ReadAttempts
<1>2. /\ now \in Nat /\ attempts \in [count : Nat, start : Nat]
      /\ now' = now /\ attempts' = attempts /\ allowed' = allowed
  BY DEF EInv, TypeInv, ReadAttempts
<1> DEFINE seen == IF WindowOver(attempts) THEN [count |-> 0, start |-> now] ELSE attempts
<1>3. /\ call'[m].seen = seen /\ call'[m].at = now
      /\ \A n \in Machines : n # m => call'[n] = call[n]
  <2>1. call[m] \in EnrollCall
    BY CallKinds DEF EInv, ReadAttempts
  <2>2. \A c \in EnrollCall : \A s, t :
          /\ [c EXCEPT !.pc = "count", !.at = t, !.seen = s].seen = s
          /\ [c EXCEPT !.pc = "count", !.at = t, !.seen = s].at = t
    BY DEF EnrollCall
  <2>3. call' = [call EXCEPT ![m] = [call[m] EXCEPT !.pc = "count", !.at = now, !.seen = seen]]
    BY DEF ReadAttempts
  <2>4. DOMAIN call = Machines
    BY DEF EInv, TypeInv
  <2>5. call'[m] = [call[m] EXCEPT !.pc = "count", !.at = now, !.seen = seen]
    BY <2>3, <2>4
  <2> QED BY <2>1, <2>2, <2>3, <2>4, <2>5
<1>4. ReadHolds(call[m])'
  <2>1. CASE WindowOver(attempts)
    <3>1. attempts.count = 0 \/ now > attempts.start + Window
      BY <1>2, <2>1, LimitIsNumber DEF WindowOver
    <3>2. call'[m].seen = [count |-> 0, start |-> now]
      BY <1>3, <2>1
    <3>3. now <= now
      BY <1>2
    <3> QED BY <1>2, <1>3, <3>1, <3>2, <3>3 DEF ReadHolds
  <2>2. CASE ~WindowOver(attempts)
    <3>1. attempts.count > 0 /\ now \in attempts.start..(attempts.start + Window)
      BY <1>1, <1>2, <2>2, LimitIsNumber DEF WindowOver, CountingInv
    <3>2. call'[m].seen = attempts
      BY <1>3, <2>2
    <3>3. now <= now
      BY <1>2
    <3> QED BY <1>2, <1>3, <3>1, <3>2, <3>3 DEF ReadHolds
  <2> QED BY <2>1, <2>2
<1>5. \A n \in Machines : call'[n].pc = "count" => n = m
  BY <1>1, <1>3
<1>6. RowHolds(allowed, attempts.count, attempts.start)'
  BY <1>1, <1>2 DEF CountingInv, RowHolds
<1> QED BY <1>1, <1>2, <1>4, <1>5, <1>6 DEF CountingInv

\* It writes what it read, one more: as long as it is alone, the attempts of one
\* window are counted together.
LEMMA CountAttemptStep ==
  ASSUME AttemptsInv, EInv, NEW m \in Machines, CountAttempt(m)
  PROVE  AttemptsInv'
<1>1. /\ now \in Nat /\ attempts \in [count : Nat, start : Nat] /\ allowed \in Seq(Nat)
      /\ call[m] \in EnrollCall /\ call[m].seen \in [count : Nat, start : Nat]
      /\ call[m].at \in Nat
      /\ now' = now /\ raced' = raced
  BY CallKinds DEF EInv, TypeInv, EnrollCall, CountAttempt, AttemptsInv
<1>2. PICK seen \in [count : Nat, start : Nat], t \in Nat :
        seen = call[m].seen /\ t = call[m].at
  BY <1>1
<1>3. attempts' = [seen EXCEPT !.count = seen.count + 1]
  BY <1>2 DEF CountAttempt
<1>4. attempts'.count = seen.count + 1 /\ attempts'.start = seen.start
  BY <1>3
<1>5. \/ seen.count + 1 > Limit /\ allowed' = allowed
      \/ seen.count + 1 <= Limit /\ allowed' = Append(allowed, t)
  BY <1>2 DEF CountAttempt
<1>6. allowed' \in Seq(Nat)
  <2>1. allowed \in Seq(Nat)
    BY <1>1
  <2>2. Append(allowed, t) \in Seq(Nat)
    BY <2>1, AppendProperties
  <2> QED BY <1>5, <2>1, <2>2
<1>7. ASSUME ~raced
      PROVE  CountingInv'
  <2>1. CountingInv /\ ReadHolds(call[m]) /\ call[m].pc = "count"
    BY <1>7 DEF AttemptsInv, CountingInv, CountAttempt
  <2>2. \A n \in Machines : call'[n].pc # "count"
    <3>1. DOMAIN call = Machines
      BY DEF EInv, TypeInv
    <3>2. \A n \in Machines : n # m => call'[n] = call[n]
      BY <3>1 DEF CountAttempt, End, Goto
    <3>3. call'[m].pc # "count"
      <4>1. NoCall.pc # "count"
        BY DEF NoCall
      <4>2. \A c \in EnrollCall : [c EXCEPT !.pc = "enroll"].pc = "enroll"
        BY DEF EnrollCall
      <4>3. call'[m] = NoCall \/ call'[m] = [call[m] EXCEPT !.pc = "enroll"]
        BY <3>1 DEF CountAttempt, End, Goto
      <4> QED BY <1>1, <4>1, <4>2, <4>3
    <3> QED BY <2>1, <3>2, <3>3 DEF CountingInv
  <2>3. /\ RowHolds(allowed, seen.count, seen.start)
        /\ t \in seen.start..(seen.start + Window) /\ seen.start <= now
        /\ seen.count = 0 => t = seen.start
    <3>1. CASE /\ seen = attempts /\ attempts.count > 0
               /\ t \in attempts.start..(attempts.start + Window)
      BY <2>1, <3>1 DEF CountingInv
    <3>2. CASE /\ seen = [count |-> 0, start |-> t]
               /\ attempts.count = 0 \/ t > attempts.start + Window
      <4>1. t \in seen.start..(seen.start + Window) /\ seen.start <= now
        <5>1. seen.start = t /\ t <= now
          BY <1>2, <2>1, <3>2 DEF ReadHolds
        <5> QED BY <5>1, LimitIsNumber
      <4>2. RowHolds(allowed, 0, t)
        <5>1. CASE attempts.count = 0
          BY <2>1, <5>1, RowEmpty DEF CountingInv
        <5>2. CASE t > attempts.start + Window
          BY <1>1, <2>1, <5>2, RowBegins DEF CountingInv
        <5> QED BY <3>2, <5>1, <5>2
      <4> QED BY <3>2, <4>1, <4>2
    <3> QED BY <1>2, <2>1, <3>1, <3>2 DEF ReadHolds
  <2>4. RowHolds(allowed', seen.count + 1, seen.start)
    <3>1. seen.count \in Nat /\ seen.start \in Nat
      OBVIOUS
    <3>2. CASE allowed' = allowed
      BY <1>1, <2>3, <3>1, <3>2, RowRefuses
    <3>3. CASE seen.count + 1 <= Limit /\ allowed' = Append(allowed, t)
      BY <1>1, <2>3, <3>1, <3>3, RowCounts
    <3> QED BY <1>5, <3>2, <3>3
  <2>5. RowHolds(allowed, attempts.count, attempts.start)'
    <3>1. RowHolds(allowed', attempts'.count, attempts'.start)
      BY <1>4, <2>4
    <3> QED BY <3>1 DEF RowHolds
  <2>6. attempts'.count # 0 /\ attempts'.start <= now'
    BY <1>1, <1>4, <2>3
  <2> QED BY <2>2, <2>5, <2>6 DEF CountingInv
<1> QED BY <1>1, <1>6, <1>7 DEF AttemptsInv

\* Every step keeps the row right.
LEMMA AttemptsNext ==
  ASSUME AttemptsInv, EInv, [Next]_vars
  PROVE  AttemptsInv'
<1>1. now \in Nat /\ now <= now /\ DOMAIN call = Machines
  BY DEF EInv, TypeInv
<1>2. NoCall.pc # "count"
  BY DEF NoCall
\* Other steps leave the counting machines as they are, or end their commands.
<1>3. ASSUME UNCHANGED <<now, attempts, allowed, raced>>,
             \A m \in Machines : call'[m].pc = "count" => call'[m] = call[m]
      PROVE  AttemptsInv'
  BY <1>1, <1>3, AttemptsUntouched
<1>4. ASSUME UNCHANGED <<now, attempts, allowed, raced>>,
             NEW m \in Machines, NEW c, c.pc # "count", call' = [call EXCEPT ![m] = c]
      PROVE  AttemptsInv'
  BY <1>1, <1>3, <1>4
<1>5. ASSUME NEW m \in Machines, NEW pc \in {"enroll", "save", "config", "limit", "handle"},
             call[m] \in EnrollCall \cup RequestCall, Goto(m, pc)
      PROVE  \E c : c.pc # "count" /\ call' = [call EXCEPT ![m] = c]
  <2>1. \A c \in EnrollCall \cup RequestCall : [c EXCEPT !.pc = pc].pc = pc
    BY DEF EnrollCall, RequestCall
  <2> QED BY <1>5, <2>1 DEF Goto
<1>6. ASSUME NEW m \in Machines, End(m)
      PROVE  \E c : c.pc # "count" /\ call' = [call EXCEPT ![m] = c]
  BY <1>2, <1>6 DEF End
<1>7. CASE Tick
  <2>1. now' \in Nat /\ now <= now'
    BY <1>1, <1>7 DEF Tick
  <2> QED BY <1>7, <2>1, AttemptsUntouched DEF Tick
<1>8. CASE RevokeClient \/ UNCHANGED vars
  BY <1>3, <1>8 DEF RevokeClient, vars
<1>9. CASE RelayRestart
  BY <1>2, <1>3, <1>9 DEF RelayRestart
<1>10. ASSUME NEW c \in Codes, NewEnrollCode(c) PROVE AttemptsInv'
  BY <1>3, <1>10 DEF NewEnrollCode
<1>11. ASSUME NEW m \in Machines, StartEnroll(m) PROVE AttemptsInv'
  <2>1. PICK c : call' = [call EXCEPT ![m] = [pc |-> "attempt", code |-> c, seen |-> attempts,
                   at |-> now, id |-> None, left |-> ConfigKeys, key |-> "", file |-> {}]]
    BY <1>11 DEF StartEnroll
  <2> QED BY <1>4, <1>11, <2>1 DEF StartEnroll
<1>12. ASSUME NEW m \in Machines, EnrollStep(m) PROVE AttemptsInv'
  <2>1. CASE ReadAttempts(m) BY <2>1, ReadAttemptsStep
  <2>2. CASE CountAttempt(m) BY <2>2, CountAttemptStep
  <2>3. CASE EnrollClient(m)
    <3>1. call[m] \in EnrollCall BY <2>3, CallKinds DEF EInv, EnrollClient
    <3>2. \A c \in EnrollCall : \A i : [c EXCEPT !.pc = "save", !.id = i].pc = "save"
      BY DEF EnrollCall
    <3>3. \/ End(m)
          \/ call' = [call EXCEPT ![m] = [call[m] EXCEPT !.pc = "save", !.id = Len(client) + 1]]
      BY <2>3 DEF EnrollClient
    <3>4. \E c : c.pc # "count" /\ call' = [call EXCEPT ![m] = c]
      BY <1>6, <3>1, <3>2, <3>3
    <3> QED BY <1>4, <2>3, <3>4 DEF EnrollClient
  <2>4. CASE SaveToken(m)
    <3>1. call[m] \in EnrollCall BY <2>4, CallKinds DEF EInv, SaveToken
    <3> QED BY <1>4, <1>5, <2>4, <3>1 DEF SaveToken
  <2>5. CASE ReadConfig(m)
    <3>1. call[m] \in EnrollCall BY <2>5, CallKinds DEF EInv, ReadConfig
    <3>2. \A c \in EnrollCall : \A k, f : [c EXCEPT !.pc = "write", !.key = k, !.file = f].pc = "write"
      BY DEF EnrollCall
    <3>3. PICK k : call' = [call EXCEPT ![m] = [call[m] EXCEPT !.pc = "write", !.key = k, !.file = conf[m]]]
      BY <2>5 DEF ReadConfig
    <3>4. [call[m] EXCEPT !.pc = "write", !.key = k, !.file = conf[m]].pc # "count"
      BY <3>1, <3>2
    <3> QED BY <1>4, <2>5, <3>3, <3>4 DEF ReadConfig
  <2>6. CASE WriteConfig(m)
    <3>1. call[m] \in EnrollCall BY <2>6, CallKinds DEF EInv, WriteConfig
    <3>2. \A c \in EnrollCall : \A l : [c EXCEPT !.pc = "config", !.left = l].pc = "config"
      BY DEF EnrollCall
    <3>3. \/ End(m)
          \/ \E l : call' = [call EXCEPT ![m] = [call[m] EXCEPT !.pc = "config", !.left = l]]
      BY <2>6 DEF WriteConfig
    <3>4. \E c : c.pc # "count" /\ call' = [call EXCEPT ![m] = c]
      BY <1>6, <3>1, <3>2, <3>3
    <3> QED BY <1>4, <2>6, <3>4 DEF WriteConfig
  <2> QED BY <1>12, <2>1, <2>2, <2>3, <2>4, <2>5, <2>6 DEF EnrollStep
<1>13. ASSUME NEW m \in Machines, StartRequest(m) PROVE AttemptsInv'
  BY <1>4, <1>13 DEF StartRequest
<1>14. ASSUME NEW m \in Machines, RequestStep(m) PROVE AttemptsInv'
  <2>1. CASE Authenticate(m)
    <3>1. call[m] \in RequestCall BY <2>1, CallKinds DEF EInv, Authenticate
    <3>2. Goto(m, "limit") \/ End(m) BY <2>1 DEF Authenticate
    <3> QED BY <1>4, <1>5, <1>6, <2>1, <3>1, <3>2 DEF Authenticate
  <2>2. CASE Admit(m)
    <3>1. call[m] \in RequestCall BY <2>2, CallKinds DEF EInv, Admit
    <3>2. Goto(m, "handle") \/ End(m) BY <2>2 DEF Admit
    <3> QED BY <1>4, <1>5, <1>6, <2>2, <3>1, <3>2 DEF Admit
  <2>3. CASE Handle(m)
    BY <1>4, <2>3 DEF Handle
  <2>4. CASE Answer(m)
    BY <1>4, <1>6, <2>4 DEF Answer
  <2> QED BY <1>14, <2>1, <2>2, <2>3, <2>4 DEF RequestStep
<1>15. ASSUME NEW m \in Machines, ReadToEdit(m) \/ WriteEdited(m) PROVE AttemptsInv'
  BY <1>3, <1>15 DEF ReadToEdit, WriteEdited
<1>16. ASSUME NEW m \in Machines, Kill(m) PROVE AttemptsInv'
  BY <1>4, <1>6, <1>16 DEF Kill
<1> QED BY <1>7, <1>8, <1>9, <1>10, <1>11, <1>12, <1>13, <1>14, <1>15, <1>16 DEF Next

\* EnrollAttempt: in no period of a window's length are as many attempts of the
\* address let in as twice the limit, unless two requests read the row before
\* either wrote it.
THEOREM AttemptsAreKept == Spec => []AttemptsKept
<1>1. Init => EInv /\ AttemptsInv BY EnrollInit, AttemptsInit
<1>2. EInv /\ AttemptsInv /\ [Next]_vars => (EInv /\ AttemptsInv)' BY EnrollNext, AttemptsNext
<1>3. AttemptsInv => AttemptsKept
  <2> SUFFICES ASSUME AttemptsInv, ~raced, NEW i \in DOMAIN allowed
               PROVE  Cardinality(Between(allowed[i])) < 2 * Limit
    BY DEF AttemptsKept
  <2>1. allowed[i] \in Nat /\ RowHolds(allowed, attempts.count, attempts.start)
    BY DEF AttemptsInv, CountingInv
  <2>2. Between(allowed[i]) = In(allowed, allowed[i], allowed[i] + Window)
    BY DEF Between, In
  <2> QED BY <2>1, <2>2 DEF RowHolds
<1> QED BY <1>1, <1>2, <1>3, PTL DEF Spec
----------------------------------------------------------------------------
\* What machines and the relay have in hand

\* Machines whose enrolment may still make a client: each was counted when it
\* began, and makes one at most.
Asking == {m \in Machines : call[m].pc \in {"attempt", "count", "enroll"}}

\* What a command has in hand, with last clients and at a time.
CallHolds(c, last, time) ==
  /\ c.pc \in {"attempt", "count", "enroll", "save", "config", "write"} =>
       c.seen.start \in 0..time /\ c.left \subseteq ConfigKeys /\ c.file \subseteq ConfigKeys
  /\ c.pc = "write" => c.key \in ConfigKeys
  /\ c.pc \in {"save", "auth", "limit", "handle"} => c.id \in 1..last

\* Nobody has what was never given out: clients are those that enrolled, and
\* no more than enrolments began; files hold keys that enrolling writes.
HeldInv ==
  /\ now \in 0..MaxTime
  /\ \A c \in Codes : code[c].expires \in 0..(MaxTime + CodeLife)
  /\ attempts.start \in 0..now
  /\ \A m \in Machines : /\ conf[m] \subseteq ConfigKeys /\ edit[m].file \subseteq ConfigKeys
                         /\ token[m] \in 0..Len(client)
                         /\ CallHolds(call[m], Len(client), now)
  /\ DOMAIN bucket \subseteq 1..Len(client)
  /\ enrols \in 0..MaxEnrols
  /\ IsFiniteSet(Asking) /\ Len(client) + Cardinality(Asking) <= enrols

\* Bounds and lengths are numbers.
LEMMA HeldNumbers ==
  ASSUME EInv, HeldInv
  PROVE  /\ now \in Nat /\ Len(client) \in Nat /\ DOMAIN client = 1..Len(client)
         /\ enrols \in Nat /\ Cardinality(Asking) \in Nat
         /\ MaxTime \in Nat /\ MaxEnrols \in Nat /\ CodeLife \in Nat /\ MaxTime + CodeLife \in Nat
<1>1. MaxTime \in Nat /\ MaxEnrols \in Nat /\ CodeLife \in Nat
  BY RelayAssumption
<1> QED BY <1>1, FS_CardinalityType DEF EInv, TypeInv, HeldInv

\* What a command has in hand it still has when there are more clients, later.
LEMMA HoldsOn ==
  ASSUME NEW c, NEW last \in Nat, NEW last2 \in Nat, NEW time \in Nat, NEW time2 \in Nat,
         last <= last2, time <= time2, CallHolds(c, last, time)
  PROVE  CallHolds(c, last2, time2)
<1>1. (\A n \in 0..time : n \in 0..time2) /\ \A n \in 1..last : n \in 1..last2
  OBVIOUS
<1> QED BY <1>1 DEF CallHolds

\* Fewer ask than before, or one that asked does not any more.
LEMMA FewerAsk ==
  ASSUME IsFiniteSet(Asking), Asking' \subseteq Asking
  PROVE  /\ IsFiniteSet(Asking') /\ Cardinality(Asking') \in Nat /\ Cardinality(Asking) \in Nat
         /\ Cardinality(Asking') <= Cardinality(Asking)
         /\ \A m \in Asking \ Asking' : Cardinality(Asking') + 1 <= Cardinality(Asking)
<1>1. /\ IsFiniteSet(Asking') /\ Cardinality(Asking') \in Nat /\ Cardinality(Asking) \in Nat
      /\ Cardinality(Asking') <= Cardinality(Asking)
  BY FS_Subset, FS_CardinalityType
<1>2. ASSUME NEW m \in Asking \ Asking'
      PROVE  Cardinality(Asking') + 1 <= Cardinality(Asking)
  <2>1. IsFiniteSet(Asking \ {m}) /\ Cardinality(Asking \ {m}) = Cardinality(Asking) - 1
    BY FS_RemoveElement
  <2>2. Cardinality(Asking') <= Cardinality(Asking \ {m})
    BY <2>1, FS_Subset
  <2> QED BY <1>1, <2>1, <2>2
<1> QED BY <1>1, <1>2

\* A step of one machine that makes no client and begins no enrolment.
LEMMA HeldChange ==
  ASSUME EInv, HeldInv, NEW m \in Machines, NEW c, call' = [call EXCEPT ![m] = c],
         CallHolds(c, Len(client), now),
         c.pc \in {"attempt", "count", "enroll"} => m \in Asking,
         UNCHANGED <<now, code, client, enrols>>,
         attempts'.start \in 0..now, DOMAIN bucket' \subseteq 1..Len(client),
         \A n \in Machines : /\ conf'[n] \subseteq ConfigKeys /\ edit'[n].file \subseteq ConfigKeys
                             /\ token'[n] \in 0..Len(client)
  PROVE  HeldInv'
<1>1. \A n \in Machines : call'[n] = IF n = m THEN c ELSE call[n]
  BY DEF EInv, TypeInv
<1>2. \A n \in Machines : CallHolds(call'[n], Len(client), now)
  BY <1>1 DEF HeldInv
<1>3. Asking' \subseteq Asking
  BY <1>1 DEF Asking
<1>4. IsFiniteSet(Asking') /\ Len(client) + Cardinality(Asking') <= enrols
  BY <1>3, FewerAsk, HeldNumbers DEF HeldInv
<1> QED BY <1>2, <1>4 DEF HeldInv

\* An enrolment begins.
LEMMA HeldStart ==
  ASSUME EInv, HeldInv, NEW m \in Machines, StartEnroll(m)
  PROVE  HeldInv'
<1>1. PICK c \in Codes :
        call' = [call EXCEPT ![m] = [pc |-> "attempt", code |-> c, seen |-> attempts,
                   at |-> now, id |-> None, left |-> ConfigKeys, key |-> "", file |-> {}]]
  BY DEF StartEnroll
<1> DEFINE d == [pc |-> "attempt", code |-> c, seen |-> attempts,
                   at |-> now, id |-> None, left |-> ConfigKeys, key |-> "", file |-> {}]
<1>2. CallHolds(d, Len(client), now)
  BY DEF CallHolds, HeldInv
<1>3. call' = [call EXCEPT ![m] = d]
  BY <1>1
<1> HIDE DEF d
<1>4. \A n \in Machines : call'[n] = IF n = m THEN d ELSE call[n]
  BY <1>3 DEF EInv, TypeInv
<1>5. \A n \in Machines : CallHolds(call'[n], Len(client), now)
  BY <1>2, <1>4 DEF HeldInv
<1>6. enrols < MaxEnrols /\ enrols' = enrols + 1 /\ enrols' \in 0..MaxEnrols
  <2>1. enrols < MaxEnrols /\ enrols' = enrols + 1
    BY DEF StartEnroll
  <2> QED BY <2>1, HeldNumbers
<1>7. Asking' \subseteq Asking \cup {m}
  BY <1>4 DEF Asking
<1>8. /\ IsFiniteSet(Asking \cup {m})
      /\ Cardinality(Asking \cup {m}) \in {Cardinality(Asking), Cardinality(Asking) + 1}
  BY FS_AddElement DEF HeldInv
<1>9. IsFiniteSet(Asking') /\ Cardinality(Asking') <= Cardinality(Asking \cup {m})
      /\ Cardinality(Asking') \in Nat
  BY <1>7, <1>8, FS_Subset, FS_CardinalityType
<1>10. Len(client) + Cardinality(Asking') <= enrols'
  <2>1. Len(client) + Cardinality(Asking) <= enrols
    BY DEF HeldInv
  <2>2. /\ Len(client) \in Nat /\ enrols \in Nat /\ Cardinality(Asking) \in Nat
    BY HeldNumbers
  <2>3. Cardinality(Asking') \in Nat /\ Cardinality(Asking') <= Cardinality(Asking) + 1
    BY <1>8, <1>9, <2>2
  <2> QED BY <1>6, <2>1, <2>2, <2>3
<1>11. UNCHANGED <<now, code, client, attempts, bucket, conf, token, edit>>
  BY DEF StartEnroll
<1> QED BY <1>5, <1>6, <1>9, <1>10, <1>11 DEF HeldInv

\* A client is made: by a machine that asked.
LEMMA HeldEnroll ==
  ASSUME EInv, HeldInv, NEW m \in Machines, EnrollClient(m)
  PROVE  HeldInv'
<1>1. /\ call[m] \in EnrollCall /\ call[m].pc = "enroll" /\ m \in Asking
      /\ code \in [Codes -> Code] /\ call[m].code \in Codes
  BY CallKinds DEF EInv, TypeInv, EnrollClient, EnrollCall, Asking
<1>2. UNCHANGED <<now, attempts, bucket, conf, token, edit, enrols>>
  BY DEF EnrollClient
<1>3. CASE End(m) /\ UNCHANGED <<code, client>>
  <2>1. call' = [call EXCEPT ![m] = NoCall] /\ CallHolds(NoCall, Len(client), now)
    BY <1>3 DEF End, CallHolds, NoCall
  <2>2. NoCall.pc = "idle"
    BY DEF NoCall
  <2>3. attempts'.start \in 0..now /\ DOMAIN bucket' \subseteq 1..Len(client)
        /\ \A n \in Machines : /\ conf'[n] \subseteq ConfigKeys /\ edit'[n].file \subseteq ConfigKeys
                               /\ token'[n] \in 0..Len(client)
    BY <1>2 DEF HeldInv
  <2> QED BY <1>2, <1>3, <2>1, <2>2, <2>3, HeldChange
<1>4. CASE /\ client' = Append(client, [code |-> call[m].code, revoked |-> FALSE])
           /\ code' = [code EXCEPT ![call[m].code].state = "used"]
           /\ call' = [call EXCEPT ![m].pc = "save", ![m].id = Len(client) + 1]
  <2> DEFINE n == Len(client)
             d == [call[m] EXCEPT !.pc = "save", !.id = n + 1]
  <2>1. n \in Nat /\ Len(client') = n + 1 /\ n + 1 \in Nat /\ n <= n + 1
    <3>1. client \in Seq(Client) /\ [code |-> call[m].code, revoked |-> FALSE] \in Client
      BY <1>1 DEF EInv, TypeInv, Client
    <3> QED BY <1>4, <3>1, AppendProperties, LenProperties
  <2>2. call' = [call EXCEPT ![m] = d]
    BY <1>4
  <2>3. d.pc = "save" /\ d.id = n + 1 /\ d.seen = call[m].seen /\ d.left = call[m].left
        /\ d.file = call[m].file
    BY <1>1 DEF EnrollCall
  <2>4. CallHolds(call[m], n, now)
    BY DEF HeldInv
  <2> HIDE DEF d, n
  <2>5. CallHolds(d, n + 1, now)
    BY <1>1, <2>1, <2>3, <2>4 DEF CallHolds
  <2>6. \A k \in Machines : call'[k] = IF k = m THEN d ELSE call[k]
    BY <2>2 DEF EInv, TypeInv
  <2>7. \A k \in Machines : CallHolds(call'[k], n + 1, now)
    BY <2>1, <2>5, <2>6, HoldsOn, HeldNumbers DEF HeldInv, n
  <2>8. Asking' \subseteq Asking /\ m \in Asking \ Asking'
    BY <1>1, <2>3, <2>6 DEF Asking
  <2>9. IsFiniteSet(Asking') /\ n + 1 + Cardinality(Asking') <= enrols
    <3>1. IsFiniteSet(Asking) /\ n + Cardinality(Asking) <= enrols
      BY DEF HeldInv, n
    <3> QED BY <2>1, <2>8, <3>1, FewerAsk, HeldNumbers
  <2>10. \A c \in Codes : code'[c].expires = code[c].expires
    BY <1>1, <1>4 DEF Code
  <2>11. (\A i \in 1..n : i \in 1..(n + 1)) /\ \A i \in 0..n : i \in 0..(n + 1)
    BY <2>1
  <2>12. /\ DOMAIN bucket \subseteq 1..(n + 1)
         /\ \A k \in Machines : token[k] \in 0..(n + 1)
    BY <2>11 DEF HeldInv, n
  <2>13. HeldInv => /\ now \in 0..MaxTime /\ attempts.start \in 0..now /\ enrols \in 0..MaxEnrols
                    /\ \A c \in Codes : code[c].expires \in 0..(MaxTime + CodeLife)
                    /\ \A k \in Machines : conf[k] \subseteq ConfigKeys /\ edit[k].file \subseteq ConfigKeys
    BY DEF HeldInv
  <2> QED BY <1>2, <2>1, <2>7, <2>9, <2>10, <2>12, <2>13 DEF HeldInv
<1> QED BY <1>3, <1>4 DEF EnrollClient

\* The other steps of a command.
LEMMA HeldCommand ==
  ASSUME EInv, HeldInv, NEW m \in Machines,
         \/ ReadAttempts(m) \/ CountAttempt(m) \/ SaveToken(m) \/ ReadConfig(m) \/ WriteConfig(m)
         \/ StartRequest(m) \/ RequestStep(m) \/ Kill(m)
  PROVE  HeldInv'
<1> DEFINE Same == \A n \in Machines : /\ conf'[n] \subseteq ConfigKeys
                                       /\ edit'[n].file \subseteq ConfigKeys
                                       /\ token'[n] \in 0..Len(client)
<1>1. /\ attempts.start \in 0..now /\ DOMAIN bucket \subseteq 1..Len(client)
      /\ \A n \in Machines : /\ conf[n] \subseteq ConfigKeys /\ edit[n].file \subseteq ConfigKeys
                             /\ token[n] \in 0..Len(client)
      /\ CallHolds(call[m], Len(client), now)
      /\ token \in [Machines -> Nat] /\ conf \in [Machines -> SUBSET FileKeys]
      /\ now \in Nat /\ Len(client) \in Nat
  BY HeldNumbers DEF HeldInv, EInv, TypeInv
<1>2. NoCall.pc = "idle" /\ CallHolds(NoCall, Len(client), now)
  BY DEF NoCall, CallHolds
<1>3. ASSUME UNCHANGED <<now, code, client, enrols, attempts, bucket, conf, token, edit>>,
             NEW c, call' = [call EXCEPT ![m] = c], CallHolds(c, Len(client), now),
             c.pc \in {"attempt", "count", "enroll"} => m \in Asking
      PROVE  HeldInv'
  BY <1>1, <1>3, HeldChange
<1>4. ASSUME End(m) PROVE call' = [call EXCEPT ![m] = NoCall]
  BY <1>4 DEF End
<1>5. CASE ReadAttempts(m)
  <2> DEFINE seen == IF WindowOver(attempts) THEN [count |-> 0, start |-> now] ELSE attempts
             d == [call[m] EXCEPT !.pc = "count", !.at = now, !.seen = seen]
  <2>1. call[m] \in EnrollCall /\ m \in Asking
    BY <1>5, CallKinds DEF EInv, ReadAttempts, Asking
  <2>2. seen.start \in 0..now
    BY <1>1
  <2>3. \A e \in EnrollCall : \A t, r :
          LET f == [e EXCEPT !.pc = "count", !.at = t, !.seen = r]
          IN f.pc = "count" /\ f.seen = r /\ f.left = e.left /\ f.file = e.file
    BY DEF EnrollCall
  <2>4. d.pc = "count" /\ d.seen = seen /\ d.left = call[m].left /\ d.file = call[m].file
    <3> HIDE DEF seen
    <3> QED BY <2>1, <2>3
  <2>5. call[m].pc = "attempt" /\ call' = [call EXCEPT ![m] = d]
    BY <1>5 DEF ReadAttempts
  <2> HIDE DEF d, seen
  <2>6. CallHolds(d, Len(client), now)
    BY <1>1, <2>2, <2>4, <2>5 DEF CallHolds
  <2>7. UNCHANGED <<now, code, client, enrols, attempts, bucket, conf, token, edit>>
    BY <1>5 DEF ReadAttempts
  <2> QED BY <1>3, <2>1, <2>5, <2>6, <2>7
<1>6. CASE CountAttempt(m)
  <2>1. call[m] \in EnrollCall /\ m \in Asking /\ call[m].pc = "count"
    BY <1>6, CallKinds DEF EInv, CountAttempt, Asking
  <2>2. \A e \in EnrollCall : /\ [e.seen EXCEPT !.count = e.seen.count + 1].start = e.seen.start
                              /\ LET f == [e EXCEPT !.pc = "enroll"]
                                 IN f.pc = "enroll" /\ f.seen = e.seen /\ f.left = e.left
                                    /\ f.file = e.file
    BY DEF EnrollCall
  <2>3. attempts'.start \in 0..now
    BY <1>1, <1>6, <2>1, <2>2 DEF CountAttempt, CallHolds
  <2>4. CallHolds([call[m] EXCEPT !.pc = "enroll"], Len(client), now)
    BY <1>1, <2>1, <2>2 DEF CallHolds
  <2>5. \/ call' = [call EXCEPT ![m] = NoCall]
        \/ call' = [call EXCEPT ![m] = [call[m] EXCEPT !.pc = "enroll"]]
    BY <1>6 DEF CountAttempt, End, Goto
  <2>6. UNCHANGED <<now, code, client, bucket, conf, token, edit, enrols>>
    BY <1>6 DEF CountAttempt
  <2> QED BY <1>1, <1>2, <2>1, <2>3, <2>4, <2>5, <2>6, HeldChange
<1>7. CASE SaveToken(m)
  <2>1. call[m] \in EnrollCall /\ call[m].pc = "save" /\ call[m].id \in 1..Len(client)
    BY <1>1, <1>7, CallKinds DEF EInv, SaveToken, CallHolds
  <2>2. \A e \in EnrollCall : LET f == [e EXCEPT !.pc = "config"]
                              IN f.pc = "config" /\ f.seen = e.seen /\ f.left = e.left
                                 /\ f.file = e.file
    BY DEF EnrollCall
  <2>3. call' = [call EXCEPT ![m] = [call[m] EXCEPT !.pc = "config"]]
    BY <1>7 DEF SaveToken, Goto
  <2>4. CallHolds([call[m] EXCEPT !.pc = "config"], Len(client), now)
        /\ [call[m] EXCEPT !.pc = "config"].pc = "config"
    BY <1>1, <2>1, <2>2 DEF CallHolds
  <2>5. call[m].id \in 0..Len(client)
    BY <1>1, <2>1
  <2>6. \A n \in Machines : token'[n] \in 0..Len(client)
    BY <1>1, <1>7, <2>5 DEF SaveToken
  <2>7. UNCHANGED <<now, code, client, attempts, bucket, conf, edit, enrols>>
    BY <1>7 DEF SaveToken
  <2> QED BY <1>1, <2>3, <2>4, <2>6, <2>7, HeldChange
<1>8. CASE ReadConfig(m)
  <2>1. call[m] \in EnrollCall /\ call[m].pc = "config"
    BY <1>8, CallKinds DEF EInv, ReadConfig
  <2>2. PICK k \in call[m].left :
          call' = [call EXCEPT ![m] = [call[m] EXCEPT !.pc = "write", !.key = k, !.file = conf[m]]]
    BY <1>8 DEF ReadConfig
  <2> DEFINE d == [call[m] EXCEPT !.pc = "write", !.key = k, !.file = conf[m]]
  <2>3. \A e \in EnrollCall : \A j, g :
          LET f == [e EXCEPT !.pc = "write", !.key = j, !.file = g]
          IN f.pc = "write" /\ f.seen = e.seen /\ f.left = e.left /\ f.file = g /\ f.key = j
    BY DEF EnrollCall
  <2>4. d.pc = "write" /\ d.seen = call[m].seen /\ d.left = call[m].left /\ d.file = conf[m]
        /\ d.key = k
    BY <2>1, <2>3
  <2>5. call' = [call EXCEPT ![m] = d]
    BY <2>2
  <2> HIDE DEF d
  <2>6. CallHolds(d, Len(client), now)
    BY <1>1, <2>1, <2>4 DEF CallHolds
  <2>7. UNCHANGED <<now, code, client, enrols, attempts, bucket, conf, token, edit>>
    BY <1>8 DEF ReadConfig
  <2> QED BY <1>3, <2>4, <2>5, <2>6, <2>7
<1>9. CASE WriteConfig(m)
  <2> DEFINE left == AfterKey(call[m].left \ {call[m].key})
             d == [call[m] EXCEPT !.pc = "config", !.left = left]
  <2>1. call[m] \in EnrollCall /\ call[m].pc = "write"
    BY <1>9, CallKinds DEF EInv, WriteConfig
  <2>2. \A e \in EnrollCall : \A l :
          LET f == [e EXCEPT !.pc = "config", !.left = l]
          IN f.pc = "config" /\ f.seen = e.seen /\ f.left = l /\ f.file = e.file
    BY DEF EnrollCall
  <2>3. d.pc = "config" /\ d.seen = call[m].seen /\ d.left = left /\ d.file = call[m].file
    <3> HIDE DEF left
    <3> QED BY <2>1, <2>2
  <2>4. left \subseteq ConfigKeys /\ call[m].file \cup {call[m].key} \subseteq ConfigKeys
    BY <1>1, <2>1 DEF CallHolds, AfterKey
  <2>5. call' = [call EXCEPT ![m] = NoCall] \/ call' = [call EXCEPT ![m] = d]
    BY <1>9 DEF WriteConfig, End
  <2> HIDE DEF d, left
  <2>6. CallHolds(d, Len(client), now)
    BY <1>1, <2>1, <2>3, <2>4 DEF CallHolds
  <2>7. \A n \in Machines : conf'[n] \subseteq ConfigKeys
    BY <1>1, <1>9, <2>4 DEF WriteConfig
  <2>8. UNCHANGED <<now, code, client, attempts, bucket, token, edit, enrols>>
    BY <1>9 DEF WriteConfig
  <2> QED BY <1>1, <1>2, <2>3, <2>5, <2>6, <2>7, <2>8, HeldChange
<1>10. CASE StartRequest(m)
  <2> DEFINE d == [pc |-> "auth", id |-> token[m]]
  <2>1. token[m] # 0 /\ call' = [call EXCEPT ![m] = d]
    BY <1>10 DEF StartRequest, None
  <2>2. token[m] \in 1..Len(client)
    BY <1>1, <2>1
  <2>3. CallHolds(d, Len(client), now) /\ d.pc = "auth"
    BY <2>2 DEF CallHolds
  <2>4. UNCHANGED <<now, code, client, enrols, attempts, bucket, conf, token, edit>>
    BY <1>10 DEF StartRequest
  <2> HIDE DEF d
  <2> QED BY <1>3, <2>1, <2>3, <2>4
<1>11. CASE Authenticate(m) \/ Admit(m)
  <2>1. call[m] \in RequestCall /\ call[m].pc \in {"auth", "limit"} /\ call[m].id \in 1..Len(client)
    BY <1>1, <1>11, CallKinds DEF EInv, Authenticate, Admit, CallHolds
  <2>2. \A e \in RequestCall, pc \in {"limit", "handle"} :
          LET f == [e EXCEPT !.pc = pc] IN f.pc = pc /\ f.id = e.id
    BY DEF RequestCall
  <2>3. PICK c : /\ call' = [call EXCEPT ![m] = c]
                 /\ c = NoCall \/ \E pc \in {"limit", "handle"} : c = [call[m] EXCEPT !.pc = pc]
    BY <1>11 DEF Authenticate, Admit, End, Goto
  <2>4. CallHolds(c, Len(client), now) /\ c.pc \notin {"attempt", "count", "enroll"}
    <3>1. CASE c = NoCall
      BY <1>2, <3>1
    <3>2. ASSUME NEW pc \in {"limit", "handle"}, c = [call[m] EXCEPT !.pc = pc]
          PROVE  CallHolds(c, Len(client), now) /\ c.pc \notin {"attempt", "count", "enroll"}
      <4>1. c.pc = pc /\ c.id = call[m].id
        BY <2>1, <2>2, <3>2
      <4> QED BY <2>1, <4>1 DEF CallHolds
    <3> QED BY <2>3, <3>1, <3>2
  <2>5. DOMAIN bucket' \subseteq 1..Len(client)
    BY <1>1, <1>11, <2>1 DEF Authenticate, Admit, Leave
  <2>6. UNCHANGED <<now, code, client, attempts, conf, token, edit, enrols>>
    BY <1>11 DEF Authenticate, Admit
  <2> QED BY <1>1, <2>3, <2>4, <2>5, <2>6, HeldChange
<1>12. CASE Handle(m)
  <2>0. PICK handler \in Handlers : \E err \in EngineErrors(handler) :
          call' = [call EXCEPT ![m] = [pc |-> "told", handler |-> handler, err |-> err,
                     told |-> IF err = "none" THEN err ELSE ClientError(ErrorCode(handler, err))]]
    BY <1>12 DEF Handle
  <2>1. PICK err \in EngineErrors(handler) :
          call' = [call EXCEPT ![m] = [pc |-> "told", handler |-> handler, err |-> err,
                     told |-> IF err = "none" THEN err ELSE ClientError(ErrorCode(handler, err))]]
    BY <2>0
  <2> DEFINE d == [pc |-> "told", handler |-> handler, err |-> err,
                     told |-> IF err = "none" THEN err ELSE ClientError(ErrorCode(handler, err))]
  <2>2. d.pc = "told" /\ call' = [call EXCEPT ![m] = d]
    BY <2>1
  <2>3. UNCHANGED <<now, code, client, enrols, attempts, bucket, conf, token, edit>>
    BY <1>12 DEF Handle
  <2> HIDE DEF d
  <2>4. CallHolds(d, Len(client), now)
    BY <2>2 DEF CallHolds
  <2> QED BY <1>3, <2>2, <2>3, <2>4
<1>13. CASE Answer(m) \/ Kill(m)
  BY <1>2, <1>3, <1>4, <1>13 DEF Answer, Kill
<1> QED BY <1>5, <1>6, <1>7, <1>8, <1>9, <1>10, <1>11, <1>12, <1>13 DEF RequestStep

\* Someone edits a file, time passes, IT makes and revokes, the relay restarts.
LEMMA HeldOther ==
  ASSUME EInv, HeldInv,
         \/ Tick \/ RevokeClient \/ RelayRestart \/ (\E c \in Codes : NewEnrollCode(c))
         \/ (\E m \in Machines : ReadToEdit(m) \/ WriteEdited(m)) \/ UNCHANGED vars
  PROVE  HeldInv'
<1>1. CASE Tick
  <2>1. /\ now' = now + 1 /\ now' \in 0..MaxTime /\ now \in Nat /\ now' \in Nat /\ now <= now'
        /\ \A n \in 0..now : n \in 0..now'
    BY <1>1, HeldNumbers DEF Tick
  <2>2. \A m \in Machines : CallHolds(call[m], Len(client), now')
    BY <2>1, HoldsOn, HeldNumbers DEF HeldInv
  <2> QED BY <1>1, <2>1, <2>2 DEF HeldInv, Asking, Tick
<1>2. CASE RevokeClient
  <2>1. Len(client') = Len(client)
    <3>1. client \in Seq(Client) BY DEF EInv, TypeInv
    <3>2. \E f : client' = [i \in DOMAIN client |-> f[i]]
      <4>1. PICK gone : client' = [i \in DOMAIN client |->
              IF i \in gone THEN [client[i] EXCEPT !.revoked = TRUE] ELSE client[i]]
        BY <1>2 DEF RevokeClient
      <4> WITNESS client'
      <4> QED BY <4>1
    <3>3. DOMAIN client' = 1..Len(client) /\ Len(client) \in Nat
      BY <3>1, <3>2
    <3>4. EInv' BY <1>2, RevokeStep
    <3>5. Len(client') \in Nat /\ DOMAIN client' = 1..Len(client') BY <3>4 DEF EInv, TypeInv
    <3> QED BY <3>3, <3>5
  <2> QED BY <1>2, <2>1 DEF HeldInv, Asking, RevokeClient
<1>3. CASE RelayRestart
  <2>1. /\ \A m \in Machines : call'[m] = NoCall \/ call'[m] = call[m]
        /\ bucket' = <<>>
        /\ UNCHANGED <<now, code, client, attempts, conf, token, edit, enrols>>
    BY <1>3 DEF RelayRestart
  <2>2. NoCall.pc = "idle" /\ CallHolds(NoCall, Len(client), now)
    BY DEF NoCall, CallHolds
  <2>3. \A m \in Machines : CallHolds(call'[m], Len(client), now)
    BY <2>1, <2>2 DEF HeldInv
  <2>4. Asking' \subseteq Asking
    BY <2>1, <2>2 DEF Asking
  <2>5. IsFiniteSet(Asking') /\ Len(client) + Cardinality(Asking') <= enrols
    BY <2>4, FewerAsk, HeldNumbers DEF HeldInv
  <2>6. DOMAIN bucket' = {}
    BY <2>1
  <2> QED BY <2>1, <2>3, <2>5, <2>6 DEF HeldInv
<1>4. ASSUME NEW c \in Codes, NewEnrollCode(c) PROVE HeldInv'
  <2>1. code' = [code EXCEPT ![c] = [state |-> "open", expires |-> now + CodeLife]]
        /\ now + CodeLife \in 0..(MaxTime + CodeLife) /\ code \in [Codes -> Code]
    <3>1. now \in 0..MaxTime /\ now \in Nat /\ CodeLife \in Nat /\ MaxTime \in Nat
      BY HeldNumbers DEF HeldInv
    <3>2. now + CodeLife \in 0..(MaxTime + CodeLife)
      BY <3>1
    <3> QED BY <1>4, <3>2 DEF NewEnrollCode, EInv, TypeInv
  <2>2. \A k \in Codes : code'[k].expires \in 0..(MaxTime + CodeLife)
    BY <2>1 DEF HeldInv
  <2> QED BY <1>4, <2>2 DEF HeldInv, Asking, NewEnrollCode
<1>5. ASSUME NEW m \in Machines, ReadToEdit(m) \/ WriteEdited(m) PROVE HeldInv'
  <2>1. /\ edit \in [Machines -> [reading : BOOLEAN, file : SUBSET FileKeys]]
        /\ conf \in [Machines -> SUBSET FileKeys]
        /\ \A n \in Machines : conf[n] \subseteq ConfigKeys /\ edit[n].file \subseteq ConfigKeys
    BY DEF EInv, TypeInv, HeldInv
  <2>2. \A n \in Machines : conf'[n] \subseteq ConfigKeys /\ edit'[n].file \subseteq ConfigKeys
    BY <1>5, <2>1 DEF ReadToEdit, WriteEdited, NoEdit
  <2>3. UNCHANGED <<now, code, client, attempts, bucket, token, call, enrols>>
    BY <1>5 DEF ReadToEdit, WriteEdited
  <2> QED BY <2>2, <2>3 DEF HeldInv, Asking
<1>6. CASE UNCHANGED vars
  BY <1>6 DEF vars, HeldInv, Asking
<1> QED BY <1>1, <1>2, <1>3, <1>4, <1>5, <1>6

LEMMA HeldInit == Init => HeldInv
<1> SUFFICES ASSUME Init PROVE HeldInv
  OBVIOUS
<1>1. MaxTime \in Nat /\ MaxEnrols \in Nat /\ CodeLife \in Nat
  BY RelayAssumption
<1>2. Asking = {}
  BY DEF Init, Asking, NoCall
<1>3. IsFiniteSet(Asking) /\ Cardinality(Asking) = 0
  BY <1>2, FS_EmptySet
<1>4. Len(client) = 0 /\ DOMAIN bucket = {}
  BY DEF Init
<1>5. \A m \in Machines : CallHolds(call[m], Len(client), now)
  BY DEF Init, CallHolds, NoCall
<1> QED BY <1>1, <1>3, <1>4, <1>5 DEF Init, HeldInv, None, NoEdit

LEMMA HeldNext ==
  ASSUME EInv, HeldInv, [Next]_vars
  PROVE  HeldInv'
<1>1. ASSUME NEW m \in Machines,
             \/ StartEnroll(m) \/ EnrollStep(m) \/ StartRequest(m) \/ RequestStep(m) \/ Kill(m)
      PROVE  HeldInv'
  BY <1>1, HeldStart, HeldEnroll, HeldCommand DEF EnrollStep
<1> QED BY <1>1, HeldOther DEF Next

\* The types of Relay: among them that a machine's token, a request and a
\* bucket of the limiter are of clients that enrolled, and that there are no
\* more clients than enrolments (store.go Enroll, limiter.allow).
THEOREM RelayTyped == Spec => []RelayTypeOK
<1>1. Init => EInv /\ RateInv /\ HeldInv BY EnrollInit, RateInit, HeldInit
<1>2. EInv /\ RateInv /\ HeldInv /\ [Next]_vars => (EInv /\ RateInv /\ HeldInv)'
  BY EnrollNext, RateNext, HeldNext
<1>3. EInv /\ RateInv /\ HeldInv => RelayTypeOK
  <2> SUFFICES ASSUME EInv, RateInv, HeldInv PROVE RelayTypeOK
    OBVIOUS
  <2>1. /\ now \in Nat /\ Len(client) \in Nat /\ DOMAIN client = 1..Len(client)
        /\ enrols \in Nat /\ Cardinality(Asking) \in Nat /\ MaxEnrols \in Nat /\ MaxTime \in Nat
    BY HeldNumbers
  <2>2. Len(client) <= MaxEnrols
    BY <2>1 DEF HeldInv
  <2>3. \A n \in 1..Len(client) : n \in Ids
    BY <2>1, <2>2 DEF Ids
  <2>4. code \in [Codes -> [state : {"none", "open", "used"}, expires : 0..(MaxTime + CodeLife)]]
    BY DEF EInv, TypeInv, Code, HeldInv
  <2>5. client \in Seq([code : Codes, revoked : BOOLEAN])
    BY DEF EInv, TypeInv, Client
  <2>6. \A i \in DOMAIN client : code[client[i].code].state = "used"
    BY DEF EInv, CodeInv
  <2>7. attempts.count \in Nat /\ attempts.start \in 0..MaxTime
    BY <2>1 DEF EInv, TypeInv, HeldInv
  <2>8. DOMAIN bucket \subseteq Ids
    BY <2>3 DEF HeldInv
  <2>9. \A i \in DOMAIN bucket : bucket[i] \in [tokens : 0..Burst, last : 0..now]
    BY DEF RateInv
  <2>10. conf \in [Machines -> SUBSET ConfigKeys]
    BY DEF EInv, TypeInv, HeldInv
  <2>11. token \in [Machines -> {None} \cup DOMAIN client]
    <3>1. \A n \in 0..Len(client) : n \in {None} \cup DOMAIN client
      BY <2>1 DEF None
    <3> QED BY <3>1 DEF EInv, TypeInv, HeldInv
  <2>12. ASSUME NEW m \in Machines
         PROVE  /\ call[m].pc \in {"idle", "attempt", "count", "enroll", "save", "config", "write",
                                   "auth", "limit", "handle", "told"}
                /\ edit[m].file \subseteq ConfigKeys
    BY DEF EInv, TypeInv, HeldInv, NoCall, EnrollCall, RequestCall, ToldCall
  <2> QED BY <2>2, <2>4, <2>5, <2>6, <2>7, <2>8, <2>9, <2>10, <2>11, <2>12
       DEF RelayTypeOK, HeldInv
<1> QED BY <1>1, <1>2, <1>3, PTL DEF Spec
=============================================================================
