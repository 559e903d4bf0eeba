------------------------------ MODULE Drafting ------------------------------
(***************************************************************************)
(* One call of summarize.Summarize: the request to the model, the JSON     *)
(* object looked for in its reply, the draft decoded from it, checked and  *)
(* completed, and the one retry.  Both backends are modelled: the answers  *)
(* of the service and the errors that each client makes of them.           *)
(*                                                                         *)
(* A reply is a sequence of characters over a small alphabet: the braces   *)
(* (written open and close), the quote (written ') and the backslash, which *)
(* the scanner tells apart, and "x" for every other character.             *)
(***************************************************************************)
EXTENDS Naturals, Sequences, FiniteSets

CONSTANTS
    Replies,      \* records [text, object]: what the model may write, and the
                  \* first JSON object in it (<<>> when there is none)
    IsObject(_)   \* json.Valid of a text from one brace to another

Chars == {"open", "close", "'", "\\", "x"}

(* ---- what a JSON object looks like to a scanner ------------------------- *)

\* Characters a to b are a string, and between them every quote is escaped.
InSome(strings, i) == \E s \in strings : s[1] < i /\ i < s[2]

\* The braces among the first n characters that are not inside a string.
Braces(text, strings, brace, n) ==
    {i \in 1..n : text[i] = brace /\ ~InSome(strings, i)}

\* The text read as an object whose strings are from s[1] to s[2] for each s in
\* strings: a backslash in a string escapes the character after it, a quote that
\* is not escaped begins or ends a string, and the outermost braces are the first
\* and the last character.
Reads(text, strings, escaped) ==
    /\ \A s \in strings :
          /\ s[1] \in DOMAIN text /\ s[2] \in DOMAIN text /\ s[1] < s[2]
          /\ text[s[1]] = "'" /\ text[s[2]] = "'" /\ s[2] \notin escaped
    /\ \A s, u \in strings : s = u \/ s[2] < u[1] \/ u[2] < s[1]
    /\ \A i \in DOMAIN text :
          /\ i \in escaped <=> /\ i > 1 /\ text[i - 1] = "\\" /\ i - 1 \notin escaped
                              /\ InSome(strings, i - 1)
          /\ text[i] = "'" => i \in escaped \/ \E s \in strings : i \in {s[1], s[2]}
    /\ Len(text) > 1 /\ text[1] = "open"
    /\ \A n \in DOMAIN text :
          LET opened == Cardinality(Braces(text, strings, "open", n))
              closed == Cardinality(Braces(text, strings, "close", n))
          IN  IF n < Len(text) THEN closed < opened ELSE closed = opened

Balanced(text) ==
    LET quotes == {i \in DOMAIN text : text[i] = "'"}
    IN  \E strings \in SUBSET {s \in quotes \X quotes : s[1] < s[2]},
           escaped \in SUBSET {i \in DOMAIN text : i > 1 /\ text[i - 1] = "\\"} :
              Reads(text, strings, escaped)

\* The objects that begin at f: one at most, as balanced ones are not part of
\* each other.
ObjectsAt(text, f) ==
    {SubSeq(text, f, l) : l \in {l \in f..Len(text) : IsObject(SubSeq(text, f, l))}}

Starts(text) == {f \in DOMAIN text : ObjectsAt(text, f) # {}}

\* "the first JSON object in text, tolerating code fences and prose around it"
PresentedBy(text) ==
    UNION {ObjectsAt(text, f) : f \in {f \in Starts(text) : \A g \in Starts(text) : f <= g}}

\* The text has a brace before any object.
BraceBefore(text) ==
    \E b \in DOMAIN text : text[b] = "open" /\ \A f \in Starts(text) : b < f

\* JSON objects are balanced.
ASSUME DraftingAssumption ==
    \A r \in Replies :
      /\ r.text \in Seq(Chars)
      /\ IF PresentedBy(r.text) = {} THEN r.object = <<>> ELSE r.object \in PresentedBy(r.text)
      /\ \A f, l \in DOMAIN r.text :
           IsObject(SubSeq(r.text, f, l)) => Balanced(SubSeq(r.text, f, l))

VARIABLES
    backend,    \* the provider built from the configuration
    dpc,        \* "ask" | "scan" | "decode" | "done"
    attempt,    \* 0 or 1
    note,       \* what the request tells the model about its previous reply
    reply,      \* the reply in hand
    at,         \* index i of the scanner's loop
    scan,       \* the scanner's locals
    found,      \* the object extracted from the reply
    outcome,    \* "none" until Summarize returns; then "ok" or the error
    draft       \* the draft returned

draftVars == <<backend, dpc, attempt, note, reply, at, scan, found, outcome, draft>>

Backends == {"anthropic", "ollama"}

Titles == {"blank", "plain", "padded", "marked"}
Drafts == [title : Titles, summary : {"blank", "plain"},
           kind : {"", "howto", "poem"}, confidence : {"", "high", "sure"},
           page : {"", "given"}]

NoReply == [text |-> <<>>, object |-> <<>>]
NoDraft == [title |-> "blank", summary |-> "blank", kind |-> "", confidence |-> "", page |-> ""]

(* ---- the clients ------------------------------------------------------- *)

\* What the Anthropic client makes of an answer that is not text.
AnthropicError ==
    [refusal |-> "refused", max_tokens |-> "truncated", too_many |-> "rate_limited",
     forbidden |-> "failed", missing |-> "failed", bad |-> "failed",
     broken |-> "unavailable", unreachable |-> "unavailable"]

\* What the Ollama client makes of it: every status but 429 is a plain error.
OllamaError ==
    [too_many |-> "rate_limited", forbidden |-> "failed", missing |-> "failed",
     bad |-> "failed", broken |-> "failed", unreachable |-> "unavailable",
     undecodable |-> "failed", error_field |-> "failed"]

ClientError(b) == IF b = "anthropic" THEN AnthropicError ELSE OllamaError

(* ---- ExtractJSON ------------------------------------------------------- *)

Scanner == [start |-> 0, depth |-> 0, inStr |-> FALSE, esc |-> FALSE]

\* Mutant: a quote ends a string even when it is escaped.
ScannedPlain(s, c, i) ==
    CASE s.start = 0 -> IF c = "open" THEN [s EXCEPT !.start = i, !.depth = 1] ELSE s
      [] s.start > 0 /\ s.inStr -> [s EXCEPT !.inStr = (c # "'")]
      [] OTHER ->
            [s EXCEPT !.inStr = (c = "'"),
                      !.depth = CASE c = "open" -> s.depth + 1
                                  [] c = "close" -> s.depth - 1
                                  [] OTHER   -> s.depth]

\* The locals of the scanner after character c at index i.
Scanned(s, c, i) ==
    CASE s.start = 0 -> IF c = "open" THEN [s EXCEPT !.start = i, !.depth = 1] ELSE s
      [] s.start > 0 /\ s.inStr ->
            [s EXCEPT !.esc   = ~s.esc /\ c = "\\",
                      !.inStr = s.esc \/ c # "'"]
      [] OTHER ->
            [s EXCEPT !.inStr = (c = "'"),
                      !.depth = CASE c = "open" -> s.depth + 1
                                  [] c = "close" -> s.depth - 1
                                  [] OTHER   -> s.depth]

(* ---- Validate and Normalize -------------------------------------------- *)

\* Mutant: a redacted value may stay in the title.
ValidMarked(d) ==
    d.title # "blank" /\ d.summary # "blank" /\ d.kind # "poem" /\ d.confidence # "sure"

Valid(d) ==
    /\ d.title \notin {"blank", "marked"}
    /\ d.summary # "blank"
    /\ d.kind # "poem"
    /\ d.confidence # "sure"

Trim(title) == IF title = "padded" THEN "plain" ELSE title

\* The defaults that Validate and Normalize fill in.  The page title is taken
\* from the title before that is trimmed.
Normalized(d) ==
    [d EXCEPT !.kind       = IF d.kind = "" THEN "note" ELSE d.kind,
              !.confidence = IF d.confidence = "" THEN "medium" ELSE d.confidence,
              !.page       = IF d.page = "" THEN d.title ELSE d.page,
              !.title      = Trim(d.title)]

(* ---- Summarize --------------------------------------------------------- *)

InitDrafting ==
    /\ backend \in Backends
    /\ dpc = "ask" /\ attempt = 0 /\ note = "none" /\ reply = NoReply
    /\ at = 1 /\ scan = Scanner /\ found = <<>>
    /\ outcome = "none" /\ draft = NoDraft

Return(result) ==
    /\ dpc' = "done" /\ outcome' = result
    /\ UNCHANGED <<attempt, note>>

\* The request is sent once more, with what was wrong, if this was the first
\* attempt; else Summarize returns the error.
Retry(what, error) ==
    IF attempt = 0
      THEN dpc' = "ask" /\ attempt' = 1 /\ note' = what /\ UNCHANGED outcome
      ELSE Return(error)

\* GenerateJSON: the service does not answer with text.
AskInVain ==
    /\ dpc = "ask"
    /\ \E answer \in DOMAIN ClientError(backend) : Return(ClientError(backend)[answer])
    /\ UNCHANGED <<backend, reply, at, scan, found, draft>>

\* GenerateJSON: the service answers; the client looks for the object in it.
Ask ==
    /\ dpc = "ask"
    /\ \E r \in Replies : reply' = r
    /\ dpc' = "scan" /\ at' = 1 /\ scan' = Scanner /\ found' = <<>>
    /\ UNCHANGED <<backend, attempt, note, outcome, draft>>

\* One iteration of ExtractJSON's loop, and its return.
Scan ==
    /\ dpc = "scan"
    /\ at <= Len(reply.text)
    /\ LET s         == Scanned(scan, reply.text[at], at)
           candidate == SubSeq(reply.text, s.start, at)
       IN  /\ scan' = s
           /\ at' = at + 1
           /\ \/ /\ ~(s.start > 0 /\ s.depth = 0)
                 /\ UNCHANGED <<dpc, attempt, note, found, outcome>>
              \/ /\ s.start > 0 /\ s.depth = 0
                 /\ IsObject(candidate)
                 /\ dpc' = "decode" /\ found' = candidate
                 /\ UNCHANGED <<attempt, note, outcome>>
              \/ /\ s.start > 0 /\ s.depth = 0
                 /\ ~IsObject(candidate)
                 /\ Retry("not_json", "invalid_json")
                 /\ UNCHANGED found
    /\ UNCHANGED <<backend, reply, draft>>

\* ExtractJSON reaches the end of the text.
ScanEnds ==
    /\ dpc = "scan"
    /\ at > Len(reply.text)
    /\ Retry("not_json", "invalid_json")
    /\ UNCHANGED <<backend, reply, at, scan, found, draft>>

\* The object is not a draft.
Mismatch ==
    /\ dpc = "decode"
    /\ Retry("not_schema", "invalid_json")
    /\ UNCHANGED <<backend, reply, at, scan, found, draft>>

\* The object is a draft: it is checked, completed and returned, or refused.
Decode ==
    /\ dpc = "decode"
    /\ \E d \in Drafts :
          \/ Valid(d) /\ Return("ok") /\ draft' = Normalized(d)
          \/ ~Valid(d) /\ Retry("rejected", "rejected") /\ UNCHANGED draft
    /\ UNCHANGED <<backend, reply, at, scan, found>>

NextDrafting == Ask \/ AskInVain \/ Scan \/ ScanEnds \/ Mismatch \/ Decode

SpecDrafting == InitDrafting /\ [][NextDrafting]_draftVars

-----------------------------------------------------------------------------
(* A draft that Summarize returns was decoded from exactly the first JSON  *)
(* object of the last reply - whatever prose, code fence, braces inside    *)
(* strings or escaped quotes surround or fill it - and the worker can use  *)
(* it: a title without padding or redaction markers, a summary, a known    *)
(* kind and confidence, a page to go to.                                   *)
Usable(d) ==
    /\ d.title = "plain" /\ d.summary = "plain"
    /\ d.kind \in {"howto", "note"} /\ d.confidence \in {"high", "medium"}
    /\ d.page # ""

DraftIsWhatTheModelWrote ==
    /\ dpc = "decode" \/ outcome = "ok" => found = reply.object
    /\ outcome = "ok" => Usable(draft)

\* The model is told, or the worker is, that a reply was not JSON.
ToldNotJSON ==
    \/ dpc = "ask" /\ note = "not_json"
    \/ outcome = "invalid_json" /\ found = <<>>

(* ExtractJSON "finds the first JSON object in text, tolerating code       *)
(* fences and prose around it": a model that wrote an object is not told   *)
(* that it wrote none.  A brace in the prose before the object refutes it. *)
ObjectIsFound == ToldNotJSON => reply.object = <<>>

(* With no brace before the object, it is found: whatever quotes are       *)
(* before it, and quotes, escapes and braces in its strings and after it.  *)
PlainObjectIsFound == ToldNotJSON => reply.object = <<>> \/ BraceBefore(reply.text)
=============================================================================
