--------------------------- MODULE AnswersProofs ---------------------------
(***************************************************************************)
(* Proofs about the two callers of the model: for any directories, chunk   *)
(* size and answers, what explain.Run returns; for replies of any length   *)
(* and nesting, what summarize.Summarize takes from them.                  *)
(***************************************************************************)
EXTENDS Drafting, Explaining, SequenceTheorems, FiniteSetTheorems, WellFoundedInduction, TLAPS

----------------------------------------------------------------------------
\* The explanations of directories

\* Of some answers in a list there is a last one.
LEMMA LastOne ==
  ASSUME NEW n \in Nat, NEW S \in SUBSET (1..n), S # {}
  PROVE  \E i \in S : \A j \in S : j <= i
<1> DEFINE T == {n - i : i \in S}
<1>1. T \subseteq Nat /\ T # {}
  <2>1. \A i \in S : n - i \in Nat
    OBVIOUS
  <2> QED BY <2>1
<1>2. PICK x \in T : \A y \in T : <<y, x>> \notin OpToRel(<, Nat)
  BY <1>1, NatLessThanWellFounded, WFMin, Zenon
<1>3. \A y \in T : ~(y < x)
  BY <1>1, <1>2 DEF OpToRel
<1>4. PICK i \in S : x = n - i
  BY <1>2
<1>5. \A j \in S : n - j \in T
  OBVIOUS
<1> HIDE DEF T
<1>6. \A j \in S : j <= i
  BY <1>3, <1>4, <1>5
<1> QED BY <1>6

Kept == [path : Path, purpose : STRING \cup {"unknown"}, confidence : STRING \cup {"low"}]

\* What is kept for a path is about it and complete.
Answered(answer, path, e) ==
  /\ e.path = path /\ e.confidence # ""
  /\ \/ e = Unknown(path)
     \/ \E j \in DOMAIN answer : answer[j].path.name = path.name /\ answer[j].purpose = e.purpose

LEMMA ExplainedAnswers ==
  ASSUME NEW answer \in Seq(Explanation), NEW path \in Path
  PROVE  /\ Explained(answer, path) \in Kept
         /\ Answered(answer, path, Explained(answer, path))
<1> DEFINE about == {i \in DOMAIN answer : answer[i].path.name = path.name}
           last == CHOOSE i \in about : \A j \in about : j <= i
<1>1. CASE about = {}
  <2>1. Explained(answer, path) = Unknown(path)
    BY <1>1 DEF Explained
  <2> QED BY <2>1 DEF Answered, Unknown, Kept
<1>2. CASE about # {}
  <2>1. Len(answer) \in Nat /\ about \in SUBSET (1..Len(answer))
    OBVIOUS
  <2>2. \E i \in about : \A j \in about : j <= i
    <3> HIDE DEF about
    <3> QED BY <1>2, <2>1, LastOne
  <2>3. last \in about
    <3> HIDE DEF about
    <3> QED BY <2>2
  <2> DEFINE e == answer[last]
             kept == [e EXCEPT !.path = path,
                               !.confidence = IF e.confidence = "" THEN "low" ELSE e.confidence]
  <2>4. e \in Explanation /\ e.path.name = path.name /\ last \in DOMAIN answer
    BY <2>3
  <2>5. Explained(answer, path) = kept
    BY <1>2 DEF Explained
  <2>6. kept \in Kept /\ kept.path = path /\ kept.confidence # "" /\ kept.purpose = e.purpose
    <3> HIDE DEF e
    <3>1. (IF e.confidence = "" THEN "low" ELSE e.confidence) \in STRING \cup {"low"}
      BY <2>4 DEF Explanation
    <3> QED BY <2>4, <3>1 DEF Explanation, Kept
  <2> HIDE DEF kept, last
  <2> QED BY <2>4, <2>5, <2>6 DEF Answered
<1> QED BY <1>1, <1>2

\* The chunk a directory belongs to.
LEMMA ChunkOf ==
  ASSUME NEW c \in Nat \ {0}, NEW n \in Nat, NEW i \in Nat, n * c <= i, i < n * c + c
  PROVE  i \div c = n
OBVIOUS

\* Every directory of the chunks sent has its explanation, from the answer to its
\* chunk.
ExplainedInv ==
  /\ dirs \in Seq(Path) /\ answers \in Seq(Seq(Explanation)) /\ out \in Seq(Kept)
  /\ next = Len(answers) * ChunkSize + 1
  /\ epc \in {"run", "ok", "error"}
  /\ epc = "ok" => next > Len(dirs)
  /\ epc # "error" =>
       /\ Len(out) = Smaller(next - 1, Len(dirs))
       /\ \A i \in DOMAIN out :
            LET chunk == ((i - 1) \div ChunkSize) + 1
            IN  chunk \in DOMAIN answers /\ Answered(answers[chunk], dirs[i], out[i])

LEMMA ExplainedInit == InitExplaining => ExplainedInv
BY ExplainingAssumption DEF InitExplaining, ExplainedInv, Smaller

LEMMA ChunkExplained ==
  ASSUME ExplainedInv, ExplainChunk
  PROVE  ExplainedInv'
<1> DEFINE part == Chunk(next)
           first == Len(out)
<1>1. PICK answer \in Answers :
        /\ answers' = Append(answers, answer)
        /\ out' = out \o [i \in DOMAIN part |-> Explained(answer, part[i])]
  BY DEF ExplainChunk
<1>2. /\ ChunkSize \in Nat \ {0} /\ answer \in Seq(Explanation)
      /\ next' = next + ChunkSize /\ next <= Len(dirs) /\ epc = "run" /\ UNCHANGED <<dirs, epc>>
      /\ dirs \in Seq(Path) /\ Len(answers) \in Nat /\ Len(dirs) \in Nat
  BY <1>1, ExplainingAssumption DEF ExplainChunk, ExplainedInv
<1>3. Len(answers) * ChunkSize \in Nat
  BY <1>2
<1>4. next \in Nat \ {0} /\ first = next - 1
  BY <1>2, <1>3 DEF ExplainedInv, Smaller
<1> DEFINE size == Smaller(next + ChunkSize - 1, Len(dirs)) - next + 1
           kept == [i \in DOMAIN part |-> Explained(answer, part[i])]
<1>5. size \in Nat /\ size <= ChunkSize /\ first + size = Smaller(next' - 1, Len(dirs))
  BY <1>2, <1>4 DEF Smaller
<1>6. part \in Seq(Path) /\ Len(part) = size /\ \A i \in 1..size : part[i] = dirs[first + i]
  <2> DEFINE end == Smaller(next + ChunkSize - 1, Len(dirs))
  <2>1. next \in Int /\ end \in Int /\ next <= end /\ end <= Len(dirs)
    BY <1>2, <1>4 DEF Smaller
  <2>2. \A i \in next..end : dirs[i] \in Path
    BY <1>2, <1>4, <2>1
  <2>3. /\ SubSeq(dirs, next, end) \in Seq(Path)
        /\ Len(SubSeq(dirs, next, end)) = IF next <= end THEN end - next + 1 ELSE 0
        /\ \A i \in 1..(end - next + 1) : SubSeq(dirs, next, end)[i] = dirs[next + i - 1]
    <3> HIDE DEF end
    <3> QED BY <2>1, <2>2, SubSeqProperties
  <2>4. \A i \in 1..size : next + i - 1 = first + i
    BY <1>4, <1>5
  <2> QED BY <2>1, <2>3, <2>4 DEF Chunk
<1> HIDE DEF part, size, first
<1>7. \A i \in 1..size : kept[i] = Explained(answer, dirs[first + i])
  BY <1>5, <1>6
<1>8. kept \in Seq(Kept) /\ Len(kept) = size
  <2>1. \A i \in 1..size : Explained(answer, part[i]) \in Kept
    <3>1. \A i \in 1..size : part[i] \in Path
      BY <1>5, <1>6
    <3> QED BY <1>2, <3>1, ExplainedAnswers
  <2> QED BY <1>5, <1>6, <2>1
<1> HIDE DEF kept
<1>9. out \in Seq(Kept) /\ out' = out \o kept
  BY <1>1 DEF ExplainedInv, kept
<1>10. out' \in Seq(Kept) /\ Len(out') = first + size
  BY <1>8, <1>9, ConcatProperties DEF first
<1>11. answers' \in Seq(Seq(Explanation)) /\ Len(answers') = Len(answers) + 1
  BY <1>1, <1>2 DEF ExplainedInv
<1>12. next' = Len(answers') * ChunkSize + 1
  BY <1>2, <1>3, <1>11 DEF ExplainedInv
<1>13. ASSUME NEW i \in DOMAIN out'
       PROVE  LET chunk == ((i - 1) \div ChunkSize) + 1
              IN  chunk \in DOMAIN answers' /\ Answered(answers'[chunk], dirs'[i], out'[i])
  <2> DEFINE chunk == ((i - 1) \div ChunkSize) + 1
  <2>0. i \in 1..(first + size) /\ first \in Nat
    BY <1>4, <1>5, <1>10
  <2>1. CASE i <= first
    <3>1. i \in DOMAIN out /\ out'[i] = out[i]
      <4>1. i \in 1..first
        BY <2>0, <2>1
      <4> QED BY <1>8, <1>9, <4>1 DEF first
    <3>2. chunk \in DOMAIN answers /\ Answered(answers[chunk], dirs[i], out[i])
      BY <1>2, <3>1 DEF ExplainedInv
    <3>3. chunk \in DOMAIN answers' /\ answers'[chunk] = answers[chunk]
      <4> HIDE DEF chunk
      <4>1. chunk \in 1..Len(answers) /\ chunk # Len(answers) + 1
        BY <1>2, <3>2
      <4>2. answers \in Seq(Seq(Explanation))
        BY DEF ExplainedInv
      <4> QED BY <1>1, <1>2, <4>1, <4>2, AppendProperties
    <3> QED BY <1>2, <3>1, <3>2, <3>3
  <2>2. CASE i > first
    <3>1. i - first \in 1..size /\ out'[i] = kept[i - first] /\ first + (i - first) = i
      BY <1>8, <1>9, <2>0, <2>2 DEF first
    <3>2. out'[i] = Explained(answer, dirs[i])
      BY <1>7, <3>1
    <3>3. i \in DOMAIN dirs /\ dirs[i] \in Path
      BY <1>2, <1>4, <1>5, <2>0 DEF Smaller
    <3>4. chunk = Len(answers) + 1
      <4> DEFINE n == Len(answers)
      <4>1. i - 1 \in Nat /\ n * ChunkSize <= i - 1 /\ i - 1 < n * ChunkSize + ChunkSize
        BY <1>2, <1>3, <1>4, <1>5, <2>0, <2>2 DEF ExplainedInv
      <4>2. (i - 1) \div ChunkSize = n
        <5> HIDE DEF n
        <5> QED BY <1>2, <4>1, ChunkOf DEF n
      <4> QED BY <4>2
    <3>5. answers'[Len(answers) + 1] = answer /\ Len(answers) + 1 \in DOMAIN answers'
      BY <1>1, <1>2, <1>11 DEF ExplainedInv
    <3> QED BY <1>2, <3>2, <3>3, <3>4, <3>5, ExplainedAnswers
  <2> QED BY <2>0, <2>1, <2>2
<1> QED BY <1>2, <1>5, <1>10, <1>11, <1>12, <1>13 DEF ExplainedInv

LEMMA ExplainedNext ==
  ASSUME ExplainedInv, [NextExplaining]_explainVars
  PROVE  ExplainedInv'
<1>1. CASE ExplainFails
  BY <1>1 DEF ExplainFails, ExplainedInv
<1>2. CASE ExplainReturns
  BY <1>2 DEF ExplainReturns, ExplainedInv
<1>3. CASE UNCHANGED explainVars
  BY <1>3 DEF explainVars, ExplainedInv
<1> QED BY <1>1, <1>2, <1>3, ChunkExplained DEF NextExplaining

\* explain.Run: for any directories, any size of a chunk and any answers, what is
\* returned explains every directory, each from the answer to its own chunk.
THEOREM DirectoriesExplained == SpecExplaining => []EveryDirectoryOnce
<1>1. ExplainedInv => EveryDirectoryOnce
  <2> SUFFICES ASSUME ExplainedInv, epc = "ok" PROVE EveryDirectoryOnce
    BY DEF EveryDirectoryOnce
  <2>1. Len(out) = Len(dirs) /\ DOMAIN out = DOMAIN dirs
    <3>1. next - 1 >= Len(dirs) /\ Len(out) = Smaller(next - 1, Len(dirs))
      BY ExplainingAssumption DEF ExplainedInv
    <3>2. Len(out) = Len(dirs)
      BY <3>1 DEF Smaller, ExplainedInv
    <3> QED BY <3>2 DEF ExplainedInv
  <2> QED BY <2>1 DEF ExplainedInv, EveryDirectoryOnce, Answered
<1> QED BY <1>1, ExplainedInit, ExplainedNext, PTL DEF SpecExplaining

----------------------------------------------------------------------------
\* The object in a reply

\* One character more.
LEMMA BracesStep ==
  ASSUME NEW text, NEW strings, NEW brace, NEW n \in Nat
  PROVE  LET here == text[n + 1] = brace /\ ~InSome(strings, n + 1)
             before == Cardinality(Braces(text, strings, brace, n))
         IN  /\ before \in Nat
             /\ Cardinality(Braces(text, strings, brace, n + 1)) =
                  IF here THEN before + 1 ELSE before
<1> DEFINE B == Braces(text, strings, brace, n)
<1>1. B \subseteq 1..n /\ IsFiniteSet(B)
  <2>1. B \subseteq 1..n
    BY DEF Braces
  <2> QED BY <2>1, FS_Interval, FS_Subset
<1>2. Cardinality(B) \in Nat /\ Cardinality(B \cup {n + 1}) = Cardinality(B) + 1
  <2>1. n + 1 \notin B
    BY <1>1
  <2> HIDE DEF B
  <2> QED BY <1>1, <2>1, FS_AddElement, FS_CardinalityType
<1>3. Braces(text, strings, brace, n + 1) =
        IF text[n + 1] = brace /\ ~InSome(strings, n + 1) THEN B \cup {n + 1} ELSE B
  BY DEF Braces
<1> QED BY <1>2, <1>3

Scanning == [start : Nat, depth : Int, inStr : BOOLEAN, esc : BOOLEAN]

\* What the scanner knows after n characters of an object: whether the n-th is in
\* a string, whether the next is escaped, and how many braces are open.
Follows(s, text, strings, escaped, n) ==
  /\ s.inStr <=> \E u \in strings : u[1] <= n /\ n < u[2]
  /\ n < Len(text) => (s.esc <=> n + 1 \in escaped)
  /\ s.depth = Cardinality(Braces(text, strings, "open", n))
                 - Cardinality(Braces(text, strings, "close", n))

\* The first brace.
LEMMA FollowsFirst ==
  ASSUME NEW text \in Seq(Chars), NEW strings, NEW escaped, Reads(text, strings, escaped),
         NEW i \in Nat \ {0}
  PROVE  /\ Follows(Scanned(Scanner, text[1], i), text, strings, escaped, 1)
         /\ Scanned(Scanner, text[1], i) = [start |-> i, depth |-> 1, inStr |-> FALSE, esc |-> FALSE]
<1>1. text[1] = "open" /\ Len(text) \in Nat /\ Len(text) > 1 /\ 1 \in DOMAIN text /\ 2 \in DOMAIN text
  BY DEF Reads
<1>2. Scanned(Scanner, text[1], i) = [start |-> i, depth |-> 1, inStr |-> FALSE, esc |-> FALSE]
  BY <1>1 DEF Scanned, Scanner
<1>3. ~\E u \in strings : u[1] <= 1 /\ 1 < u[2]
  <2>1. \A u \in strings : u[1] \in 1..Len(text) /\ text[u[1]] = "'"
    BY <1>1 DEF Reads
  <2> QED BY <1>1, <2>1
<1>4. 2 \notin escaped
  <2>1. \A k \in DOMAIN text : k \in escaped => text[k - 1] = "\\"
    BY DEF Reads
  <2>2. 2 - 1 = 1 /\ "open" # "\\"
    OBVIOUS
  <2> QED BY <1>1, <2>1, <2>2
<1>5. ~InSome(strings, 1)
  <2>1. \A u \in strings : u[1] \in 1..Len(text)
    BY <1>1 DEF Reads
  <2> QED BY <1>1, <2>1 DEF InSome
<1>6. \A brace : Braces(text, strings, brace, 0) = {}
  BY DEF Braces
<1>7. /\ Cardinality(Braces(text, strings, "open", 0 + 1)) = 1
      /\ Cardinality(Braces(text, strings, "close", 0 + 1)) = 0
  <2>1. 0 \in Nat /\ 0 + 1 = 1 /\ text[1] # "close"
    BY <1>1
  <2>2. \A brace : Cardinality(Braces(text, strings, brace, 0)) = 0
    BY <1>6, FS_EmptySet
  <2>3. \A brace : Cardinality(Braces(text, strings, brace, 1)) =
                     IF text[1] = brace /\ ~InSome(strings, 1) THEN 0 + 1 ELSE 0
    <3> SUFFICES ASSUME NEW brace
                 PROVE  Cardinality(Braces(text, strings, brace, 1)) =
                          IF text[1] = brace /\ ~InSome(strings, 1) THEN 0 + 1 ELSE 0
      OBVIOUS
    <3>1. Cardinality(Braces(text, strings, brace, 0 + 1)) =
            IF text[0 + 1] = brace /\ ~InSome(strings, 0 + 1)
            THEN Cardinality(Braces(text, strings, brace, 0)) + 1
            ELSE Cardinality(Braces(text, strings, brace, 0))
      BY <2>1, BracesStep
    <3> QED BY <2>1, <2>2, <3>1
  <2> QED BY <1>1, <1>5, <2>1, <2>3
<1> QED BY <1>1, <1>2, <1>3, <1>4, <1>7 DEF Follows

\* Every other character of the object.
LEMMA FollowsNext ==
  ASSUME NEW text \in Seq(Chars), NEW strings, NEW escaped, Reads(text, strings, escaped),
         NEW n \in 1..(Len(text) - 1), NEW s \in Scanning, s.start > 0,
         Follows(s, text, strings, escaped, n), NEW i
  PROVE  /\ Follows(Scanned(s, text[n + 1], i), text, strings, escaped, n + 1)
         /\ Scanned(s, text[n + 1], i) \in Scanning
         /\ Scanned(s, text[n + 1], i).start = s.start
<1> DEFINE c == text[n + 1]
           t == Scanned(s, c, i)
           opened(k) == Cardinality(Braces(text, strings, "open", k))
           closed(k) == Cardinality(Braces(text, strings, "close", k))
<1>1. /\ Len(text) \in Nat /\ n \in DOMAIN text /\ n + 1 \in DOMAIN text /\ n \in Nat /\ n >= 1
      /\ DOMAIN text = 1..Len(text) /\ n < Len(text)
  OBVIOUS
<1>2. \A u \in strings : /\ u[1] \in 1..Len(text) /\ u[2] \in 1..Len(text) /\ u[1] < u[2]
                         /\ text[u[1]] = "'" /\ text[u[2]] = "'" /\ u[2] \notin escaped
  BY <1>1 DEF Reads
<1>3. \A u, v \in strings : u = v \/ u[2] < v[1] \/ v[2] < u[1]
  BY DEF Reads
<1>4. \A k \in DOMAIN text : k \in escaped <=> /\ k > 1 /\ text[k - 1] = "\\" /\ k - 1 \notin escaped
                                               /\ InSome(strings, k - 1)
  BY DEF Reads
<1>5. c = "'" => n + 1 \in escaped \/ \E u \in strings : n + 1 \in {u[1], u[2]}
  BY <1>1 DEF Reads
<1>6. /\ s.inStr <=> \E u \in strings : u[1] <= n /\ n < u[2]
      /\ s.esc <=> n + 1 \in escaped
      /\ s.depth = opened(n) - closed(n)
  BY <1>1 DEF Follows
<1>7. n + 1 < Len(text) =>
        (n + 1 + 1 \in escaped <=> c = "\\" /\ n + 1 \notin escaped /\ InSome(strings, n + 1))
  <2>1. n + 1 + 1 - 1 = n + 1 /\ n + 1 + 1 > 1 /\ (n + 1 < Len(text) => n + 1 + 1 \in DOMAIN text)
    BY <1>1
  <2> QED BY <1>4, <2>1
<1>8. /\ opened(n) \in Nat /\ closed(n) \in Nat
      /\ opened(n + 1) = IF c = "open" /\ ~InSome(strings, n + 1) THEN opened(n) + 1 ELSE opened(n)
      /\ closed(n + 1) = IF c = "close" /\ ~InSome(strings, n + 1) THEN closed(n) + 1 ELSE closed(n)
  BY <1>1, BracesStep
<1> HIDE DEF opened, closed
<1>9. CASE s.inStr
  <2>1. t = [s EXCEPT !.esc = ~s.esc /\ c = "\\", !.inStr = s.esc \/ c # "'"]
    BY <1>9 DEF Scanned
  <2>2. /\ t \in Scanning /\ t.start = s.start /\ t.depth = s.depth
        /\ t.esc = (~s.esc /\ c = "\\") /\ t.inStr = (s.esc \/ c # "'")
    <3> HIDE DEF c
    <3> QED BY <2>1 DEF Scanning
  <2> HIDE DEF t, c
  <2>3. PICK u \in strings : u[1] <= n /\ n < u[2]
    BY <1>6, <1>9
  <2>4. CASE n + 1 < u[2]
    <3>1. InSome(strings, n + 1)
      BY <1>1, <1>2, <2>3, <2>4 DEF InSome
    <3>2. c = "'" => s.esc
      BY <1>1, <1>2, <1>3, <1>5, <1>6, <2>3, <2>4
    <3>3. t.inStr /\ \E v \in strings : v[1] <= n + 1 /\ n + 1 < v[2]
      <4>1. u[1] <= n + 1
        BY <1>1, <1>2, <2>3
      <4>2. t.inStr
        BY <2>2, <3>2
      <4> QED BY <2>3, <2>4, <4>1, <4>2
    <3>4. n + 1 < Len(text) => (t.esc <=> n + 1 + 1 \in escaped)
      BY <1>6, <1>7, <2>2, <3>1, Zenon
    <3>5. t.depth = opened(n + 1) - closed(n + 1)
      BY <1>6, <1>8, <2>2, <3>1
    <3> QED BY <2>2, <3>3, <3>4, <3>5 DEF Follows, opened, closed, t, c
  <2>5. CASE n + 1 = u[2]
    <3>1. c = "'" /\ ~s.esc
      BY <1>2, <1>6, <2>5 DEF c
    <3>2. ~\E v \in strings : v[1] <= n + 1 /\ n + 1 < v[2]
      BY <1>1, <1>2, <1>3, <2>3, <2>5
    <3>3. n + 1 < Len(text) => (t.esc <=> n + 1 + 1 \in escaped)
      <4>1. ~t.esc
        BY <2>2, <3>1
      <4>2. c # "\\"
        BY <3>1
      <4> QED BY <1>7, <4>1, <4>2, Zenon
    <3>4. t.depth = opened(n + 1) - closed(n + 1)
      BY <1>6, <1>8, <2>2, <3>1
    <3> QED BY <2>2, <3>1, <3>2, <3>3, <3>4 DEF Follows, opened, closed, t, c
  <2> QED BY <1>1, <1>2, <2>3, <2>4, <2>5
<1>10. CASE ~s.inStr
  <2> DEFINE depth == CASE c = "open" -> s.depth + 1 [] c = "close" -> s.depth - 1 [] OTHER -> s.depth
  <2>1. t = [s EXCEPT !.inStr = (c = "'"), !.depth = depth]
    BY <1>10 DEF Scanned, Scanning
  <2>2. /\ t \in Scanning /\ t.start = s.start /\ t.depth = depth
        /\ t.esc = s.esc /\ t.inStr = (c = "'")
    <3>1. depth \in Int
      BY DEF Scanning
    <3> HIDE DEF c, depth
    <3> QED BY <2>1, <3>1 DEF Scanning
  <2> HIDE DEF t
  <2>3. ~\E u \in strings : u[1] <= n /\ n < u[2]
    BY <1>6, <1>10
  <2>4. n + 1 \notin escaped /\ ~InSome(strings, n + 1)
    <3>2. ~InSome(strings, n)
      BY <1>1, <1>2, <2>3 DEF InSome
    <3>3. n + 1 \notin escaped
      <4>1. \A k \in DOMAIN text : k \in escaped => InSome(strings, k - 1)
        BY <1>4, Zenon
      <4>2. ASSUME NEW k \in DOMAIN text, k = n + 1 PROVE k \notin escaped
        <5>1. k - 1 = n
          BY <1>1, <4>2
        <5> QED BY <3>2, <4>1, <5>1
      <4> QED BY <1>1, <4>2
    <3>4. ~InSome(strings, n + 1)
      BY <1>1, <1>2, <2>3 DEF InSome
    <3> QED BY <3>3, <3>4
  <2>5. t.inStr <=> \E v \in strings : v[1] <= n + 1 /\ n + 1 < v[2]
    <3>1. ASSUME c = "'" PROVE \E v \in strings : v[1] <= n + 1 /\ n + 1 < v[2]
      BY <1>1, <1>2, <1>5, <2>3, <2>4, <3>1
    <3>2. ASSUME NEW v \in strings, v[1] <= n + 1, n + 1 < v[2] PROVE c = "'"
      <4>1. v[1] = n + 1
        BY <1>1, <1>2, <2>3, <3>2
      <4> QED BY <1>2, <4>1
    <3> QED BY <2>2, <3>1, <3>2
  <2>6. n + 1 < Len(text) => (t.esc <=> n + 1 + 1 \in escaped)
    BY <1>1, <1>6, <1>7, <2>2, <2>4
  <2>7. t.depth = opened(n + 1) - closed(n + 1)
    <3>1. /\ opened(n + 1) = IF c = "open" THEN opened(n) + 1 ELSE opened(n)
          /\ closed(n + 1) = IF c = "close" THEN closed(n) + 1 ELSE closed(n)
      BY <1>8, <2>4
    <3> HIDE DEF c
    <3>2. CASE c = "open"
      BY <1>6, <1>8, <2>2, <3>1, <3>2
    <3>3. CASE c = "close"
      BY <1>6, <1>8, <2>2, <3>1, <3>3
    <3>4. CASE c \notin {"open", "close"}
      BY <1>6, <1>8, <2>2, <3>1, <3>4
    <3> QED BY <3>2, <3>3, <3>4
  <2> QED BY <2>2, <2>5, <2>6, <2>7 DEF Follows, opened, closed, t
<1> QED BY <1>9, <1>10 DEF Scanning

FirstBraces(text) == {f \in DOMAIN text : text[f] = "open" /\ \A i \in 1..(f - 1) : text[i] # "open"}

\* The scanner, about to look at character i, has found no brace, or has followed
\* the object that begins at the first, if one does, and has not seen all of it.
ScanHolds(text, i, s) ==
  /\ i \in 1..(Len(text) + 1) /\ s \in Scanning
  /\ s.start = 0 => s = Scanner /\ \A j \in 1..(i - 1) : text[j] # "open"
  /\ s.start > 0 =>
       /\ s.start \in FirstBraces(text) /\ s.start < i
       /\ \A l \in s.start..Len(text) : \A strings, escaped :
            Reads(SubSeq(text, s.start, l), strings, escaped) =>
              i <= l /\ Follows(s, SubSeq(text, s.start, l), strings, escaped, i - s.start)

\* The part of a text from f to l.
LEMMA PartOf ==
  ASSUME NEW text \in Seq(Chars), NEW f \in DOMAIN text, NEW l \in f..Len(text)
  PROVE  /\ SubSeq(text, f, l) \in Seq(Chars) /\ Len(SubSeq(text, f, l)) = l - f + 1
         /\ \A k \in 1..(l - f + 1) : SubSeq(text, f, l)[k] = text[f + k - 1]
<1>1. f \in Int /\ l \in Int /\ f <= l /\ \A i \in f..l : text[i] \in Chars
  OBVIOUS
<1> QED BY <1>1, SubSeqProperties

\* One character of the loop.
LEMMA ScannedHolds ==
  ASSUME NEW text \in Seq(Chars), NEW i \in DOMAIN text, NEW s, ScanHolds(text, i, s)
  PROVE  LET t == Scanned(s, text[i], i)
         IN  /\ t \in Scanning
             /\ t.start = 0 => t = Scanner /\ \A j \in 1..i : text[j] # "open"
             /\ t.start > 0 =>
                  /\ t.start \in FirstBraces(text) /\ t.start <= i
                  /\ \A l \in t.start..Len(text) : \A strings, escaped :
                       Reads(SubSeq(text, t.start, l), strings, escaped) =>
                         /\ i <= l
                         /\ Follows(t, SubSeq(text, t.start, l), strings, escaped, i - t.start + 1)
<1> DEFINE t == Scanned(s, text[i], i)
<1>1. s \in Scanning /\ s.start \in Nat /\ Len(text) \in Nat /\ i \in 1..Len(text)
  BY DEF ScanHolds, Scanning
<1>2. CASE s.start = 0 /\ text[i] # "open"
  <2>1. t = s
    BY <1>2 DEF Scanned
  <2>2. s = Scanner /\ \A j \in 1..(i - 1) : text[j] # "open"
    BY <1>2 DEF ScanHolds
  <2>3. \A j \in 1..i : text[j] # "open"
    BY <1>1, <1>2, <2>2
  <2> HIDE DEF t
  <2> QED BY <1>1, <1>2, <2>1, <2>2, <2>3 DEF t
<1>3. CASE s.start = 0 /\ text[i] = "open"
  <2>1. s = Scanner /\ \A j \in 1..(i - 1) : text[j] # "open"
    BY <1>3 DEF ScanHolds
  <2>2. t = [start |-> i, depth |-> 1, inStr |-> FALSE, esc |-> FALSE]
    <3>1. t = Scanned(Scanner, "open", i)
      BY <1>3, <2>1
    <3>2. Scanned(Scanner, "open", i) = [Scanner EXCEPT !.start = i, !.depth = 1]
      BY DEF Scanned, Scanner
    <3> QED BY <3>1, <3>2 DEF Scanner
  <2>3. t \in Scanning /\ t.start = i /\ i > 0 /\ i \in FirstBraces(text)
    <3>1. i \in Nat /\ i > 0 /\ i \in FirstBraces(text)
      BY <1>1, <1>3, <2>1 DEF FirstBraces
    <3> HIDE DEF t
    <3> QED BY <2>2, <3>1 DEF Scanning
  <2>4. ASSUME NEW l \in i..Len(text), NEW strings, NEW escaped,
               Reads(SubSeq(text, i, l), strings, escaped)
        PROVE  i <= l /\ Follows(t, SubSeq(text, i, l), strings, escaped, i - i + 1)
    <3>1. SubSeq(text, i, l) \in Seq(Chars) /\ SubSeq(text, i, l)[1] = text[i]
      <4>1. 1 \in 1..(l - i + 1) /\ i + 1 - 1 = i
        BY <1>1
      <4> QED BY <1>1, <4>1, PartOf
    <3>2. Follows(Scanned(Scanner, text[i], i), SubSeq(text, i, l), strings, escaped, 1)
      <4> DEFINE object == SubSeq(text, i, l)
      <4>1. object \in Seq(Chars) /\ object[1] = text[i] /\ Reads(object, strings, escaped)
            /\ i \in Nat \ {0}
        BY <1>1, <2>4, <3>1
      <4> HIDE DEF object
      <4>2. Follows(Scanned(Scanner, object[1], i), object, strings, escaped, 1)
        BY <4>1, FollowsFirst
      <4> QED BY <4>1, <4>2 DEF object
    <3>3. i - i + 1 = 1 /\ i <= l
      BY <1>1
    <3> QED BY <2>1, <3>2, <3>3
  <2> HIDE DEF t
  <2> QED BY <1>1, <2>3, <2>4 DEF t
<1>4. CASE s.start > 0
  <2> DEFINE f == s.start
  <2>1. /\ f \in FirstBraces(text) /\ f < i /\ f \in DOMAIN text
        /\ \A l \in f..Len(text) : \A strings, escaped :
             Reads(SubSeq(text, f, l), strings, escaped) =>
               i <= l /\ Follows(s, SubSeq(text, f, l), strings, escaped, i - f)
    BY <1>4 DEF ScanHolds, FirstBraces
  <2>2. t \in Scanning /\ t.start = f
    <3>1. CASE s.inStr
      <4>1. t = [s EXCEPT !.esc = ~s.esc /\ text[i] = "\\", !.inStr = s.esc \/ text[i] # "'"]
        BY <1>1, <1>4, <3>1 DEF Scanned
      <4> HIDE DEF t
      <4> QED BY <1>1, <4>1 DEF Scanning
    <3>2. CASE ~s.inStr
      <4> DEFINE depth == CASE text[i] = "open" -> s.depth + 1 [] text[i] = "close" -> s.depth - 1
                            [] OTHER -> s.depth
      <4>1. t = [s EXCEPT !.inStr = (text[i] = "'"), !.depth = depth]
        BY <1>1, <1>4, <3>2 DEF Scanned
      <4>2. depth \in Int
        BY <1>1 DEF Scanning
      <4> HIDE DEF t, depth
      <4> QED BY <1>1, <4>1, <4>2 DEF Scanning
    <3> QED BY <3>1, <3>2
  <2>3. ASSUME NEW l \in f..Len(text), NEW strings, NEW escaped,
               Reads(SubSeq(text, f, l), strings, escaped)
        PROVE  i <= l /\ Follows(t, SubSeq(text, f, l), strings, escaped, i - f + 1)
    <3> DEFINE object == SubSeq(text, f, l)
               n == i - f
    <3>1. i <= l /\ Follows(s, object, strings, escaped, n)
      BY <2>1, <2>3
    <3>2. object \in Seq(Chars) /\ Len(object) = l - f + 1
          /\ \A k \in 1..(l - f + 1) : object[k] = text[f + k - 1]
      BY <2>1, PartOf
    <3>3. n \in 1..(l - f + 1 - 1) /\ n + 1 \in 1..(l - f + 1) /\ f + (n + 1) - 1 = i
      BY <1>1, <2>1, <3>1
    <3> HIDE DEF object, n
    <3>4. n \in 1..(Len(object) - 1) /\ object[n + 1] = text[i]
      <4>1. object[n + 1] = text[f + (n + 1) - 1]
        BY <3>2, <3>3
      <4> QED BY <3>2, <3>3, <4>1
    <3>5. Follows(Scanned(s, object[n + 1], i), object, strings, escaped, n + 1)
      BY <1>1, <1>4, <2>3, <3>1, <3>2, <3>4, FollowsNext DEF object
    <3> QED BY <3>1, <3>4, <3>5 DEF object, n
  <2>4. f <= i /\ f # 0
    BY <1>1, <1>4, <2>1
  <2> HIDE DEF t
  <2> QED BY <1>1, <2>1, <2>2, <2>3, <2>4 DEF t
<1>5. s.start = 0 \/ s.start > 0
  BY <1>1
<1> QED BY <1>2, <1>3, <1>4, <1>5

\* The outermost brace is closed at the last character of the object, and not
\* before.
LEMMA ObjectEnds ==
  ASSUME NEW text \in Seq(Chars), NEW f \in DOMAIN text, NEW l \in f..Len(text),
         NEW strings, NEW escaped, Reads(SubSeq(text, f, l), strings, escaped),
         NEW i \in f..l, NEW s \in Scanning,
         Follows(s, SubSeq(text, f, l), strings, escaped, i - f + 1)
  PROVE  s.depth = 0 <=> i = l
<1> DEFINE object == SubSeq(text, f, l)
           n == i - f + 1
           opened == Cardinality(Braces(object, strings, "open", n))
           closed == Cardinality(Braces(object, strings, "close", n))
<1>1. object \in Seq(Chars) /\ Len(object) = l - f + 1
  BY PartOf
<1>2. n \in 1..(l - f + 1) /\ (n < l - f + 1 <=> i # l)
  OBVIOUS
<1>3. n \in DOMAIN object /\ (n < Len(object) <=> i # l)
  BY <1>1, <1>2
<1>4. IF n < Len(object) THEN closed < opened ELSE closed = opened
  BY <1>3 DEF Reads
<1>5. opened \in Nat /\ closed \in Nat
  <2>1. \A brace : Braces(object, strings, brace, n) \subseteq 1..n /\ IsFiniteSet(1..n)
    BY <1>2, FS_Interval DEF Braces
  <2> QED BY <2>1, FS_Subset, FS_CardinalityType
<1>6. s.depth = opened - closed
  BY DEF Follows
<1> HIDE DEF opened, closed, object, n
<1> QED BY <1>3, <1>4, <1>5, <1>6

----------------------------------------------------------------------------
\* Summarize

\* Between the steps of Summarize.
DraftingInv ==
  /\ backend \in Backends /\ dpc \in {"ask", "scan", "decode", "done"} /\ attempt \in {0, 1}
  /\ dpc \in {"scan", "decode"} => reply \in Replies
  /\ dpc = "scan" => found = <<>> /\ ScanHolds(reply.text, at, scan)
  /\ dpc = "decode" \/ outcome = "ok" => found = reply.object
  /\ dpc = "decode" => found # <<>>
  /\ dpc # "done" => outcome = "none"
  /\ outcome = "ok" => Usable(draft)
  /\ PlainObjectIsFound

\* Of some positions there is a first one.
LEMMA FirstOne ==
  ASSUME NEW S \in SUBSET Nat, S # {}
  PROVE  \E i \in S : \A j \in S : i <= j
<1>1. PICK i \in S : \A j \in S : <<j, i>> \notin OpToRel(<, Nat)
  BY NatLessThanWellFounded, WFMin, Zenon
<1>2. \A j \in S : ~(j < i)
  BY <1>1 DEF OpToRel
<1> QED BY <1>2

\* An object in a text begins with a brace.
LEMMA ObjectBegins ==
  ASSUME NEW r \in Replies, NEW f \in DOMAIN r.text, NEW l \in f..Len(r.text),
         IsObject(SubSeq(r.text, f, l))
  PROVE  /\ Balanced(SubSeq(r.text, f, l))
         /\ SubSeq(r.text, f, l) # <<>> /\ r.text[f] = "open"
<1>1. r.text \in Seq(Chars) /\ l \in DOMAIN r.text
  BY DraftingAssumption
<1>2. Balanced(SubSeq(r.text, f, l))
  BY <1>1, DraftingAssumption
<1>3. PICK strings, escaped : Reads(SubSeq(r.text, f, l), strings, escaped)
  BY <1>2 DEF Balanced
<1>4. Len(SubSeq(r.text, f, l)) > 1 /\ SubSeq(r.text, f, l)[1] = "open"
  BY <1>3 DEF Reads
<1>5. SubSeq(r.text, f, l)[1] = r.text[f + 1 - 1] /\ f \in Nat
  BY <1>1, PartOf
<1> QED BY <1>2, <1>4, <1>5

\* The object of the reply in hand is the first that is in its text.
LEMMA ReplyPresents ==
  ASSUME NEW r \in Replies
  PROVE  /\ r.text \in Seq(Chars)
         /\ Starts(r.text) # {} => r.object # <<>>
         /\ r.object # <<>> =>
              \E f \in Starts(r.text) : /\ r.object \in ObjectsAt(r.text, f)
                                        /\ \A g \in Starts(r.text) : f <= g
<1> DEFINE text == r.text
<1>1. /\ text \in Seq(Chars)
      /\ IF PresentedBy(text) = {} THEN r.object = <<>> ELSE r.object \in PresentedBy(text)
  BY DraftingAssumption
<1>2. Starts(text) \subseteq Nat
  BY <1>1 DEF Starts
<1> HIDE DEF text
<1>3. r.object # <<>> =>
        \E f \in Starts(text) : r.object \in ObjectsAt(text, f) /\ \A g \in Starts(text) : f <= g
  BY <1>1 DEF PresentedBy
<1>4. ASSUME Starts(text) # {} PROVE r.object # <<>>
  <2>1. PICK f \in Starts(text) : \A g \in Starts(text) : f <= g
    BY <1>2, <1>4, FirstOne
  <2>2. PICK object \in ObjectsAt(text, f) : TRUE
    BY DEF Starts
  <2>3. object \in PresentedBy(text)
    BY <2>1, <2>2 DEF PresentedBy
  <2>4. r.object \in PresentedBy(text)
    BY <1>1, <2>3
  <2>5. PICK g \in Starts(text) : r.object \in ObjectsAt(text, g)
    BY <2>4 DEF PresentedBy
  <2>6. g \in DOMAIN text
    BY DEF Starts
  <2>7. PICK l \in g..Len(text) : IsObject(SubSeq(text, g, l)) /\ r.object = SubSeq(text, g, l)
    BY <2>5 DEF ObjectsAt
  <2> QED BY <2>6, <2>7, ObjectBegins DEF text
<1> QED BY <1>1, <1>3, <1>4 DEF text

\* With no brace before the object, or with an object at the first brace, the
\* object begins at the first brace.
LEMMA PresentedAt ==
  ASSUME NEW r \in Replies, r.object # <<>>, NEW f \in FirstBraces(r.text),
         f \in Starts(r.text) \/ ~BraceBefore(r.text)
  PROVE  \E l \in f..Len(r.text) : r.object = SubSeq(r.text, f, l) /\ IsObject(r.object)
<1> DEFINE text == r.text
<1>1. text \in Seq(Chars) /\ Len(text) \in Nat
  BY ReplyPresents
<1>2. PICK g \in Starts(text) : r.object \in ObjectsAt(text, g) /\ \A h \in Starts(text) : g <= h
  BY ReplyPresents
<1>3. PICK l \in g..Len(text) : IsObject(SubSeq(text, g, l)) /\ r.object = SubSeq(text, g, l)
  BY <1>2 DEF ObjectsAt
<1>4. g \in DOMAIN text /\ text[g] = "open"
  BY <1>3, ObjectBegins DEF Starts
<1>5. f \in DOMAIN text /\ text[f] = "open" /\ \A i \in 1..(f - 1) : text[i] # "open"
  BY DEF FirstBraces
<1> HIDE DEF text
<1>6. f <= g
  BY <1>1, <1>4, <1>5
<1>7. \E h \in Starts(text) : h <= f
  <2>1. CASE f \in Starts(text)
    BY <1>1, <1>5, <2>1
  <2>2. CASE ~BraceBefore(text)
    <3>1. PICK h \in Starts(text) : ~(f < h)
      BY <1>5, <2>2 DEF BraceBefore
    <3>2. h \in DOMAIN text
      BY DEF Starts
    <3> QED BY <1>1, <1>5, <3>1, <3>2
  <2> QED BY <2>1, <2>2 DEF text
<1>8. g = f
  <2>1. \A h \in Starts(text) : h \in DOMAIN text
    BY DEF Starts
  <2> QED BY <1>1, <1>2, <1>4, <1>5, <1>6, <1>7, <2>1
<1> QED BY <1>3, <1>8 DEF text

\* The candidate is the object, if there is one, and nothing else is one.
LEMMA CandidateIsObject ==
  ASSUME NEW r \in Replies, NEW i \in DOMAIN r.text, NEW s, ScanHolds(r.text, i, s),
         NEW t, t = Scanned(s, r.text[i], i), t.start > 0
  PROVE  /\ t.depth = 0 =>
               /\ ~IsObject(SubSeq(r.text, t.start, i)) =>
                    r.object = <<>> \/ BraceBefore(r.text)
               /\ IsObject(SubSeq(r.text, t.start, i)) =>
                    r.object = SubSeq(r.text, t.start, i) /\ r.object # <<>>
         /\ t.depth # 0 => ScanHolds(r.text, i + 1, t)
<1> DEFINE text == r.text
           f == t.start
<1>1. text \in Seq(Chars) /\ Len(text) \in Nat /\ i \in 1..Len(text)
  BY ReplyPresents
<1>2. /\ t \in Scanning /\ f \in FirstBraces(text) /\ f \in DOMAIN text /\ f <= i
      /\ \A l \in f..Len(text) : \A strings, escaped :
           Reads(SubSeq(text, f, l), strings, escaped) =>
             i <= l /\ Follows(t, SubSeq(text, f, l), strings, escaped, i - f + 1)
  BY <1>1, ScannedHolds DEF FirstBraces
<1> HIDE DEF f, text
<1>3. ASSUME NEW l \in f..Len(text), NEW strings, NEW escaped,
             Reads(SubSeq(text, f, l), strings, escaped)
      PROVE  i <= l /\ Follows(t, SubSeq(text, f, l), strings, escaped, i - f + 1)
             /\ (t.depth = 0 <=> i = l)
  <2>1. i <= l /\ Follows(t, SubSeq(text, f, l), strings, escaped, i - f + 1)
    BY <1>2, <1>3
  <2>2. i \in f..l
    BY <1>1, <1>2, <2>1
  <2> QED BY <1>1, <1>2, <1>3, <2>1, <2>2, ObjectEnds
<1>4. ASSUME r.object # <<>>, f \in Starts(text) \/ ~BraceBefore(text)
      PROVE  \E l \in f..Len(text) : /\ r.object = SubSeq(text, f, l) /\ IsObject(r.object)
                                     /\ t.depth = 0 <=> i = l
  <2>1. PICK l \in f..Len(text) : r.object = SubSeq(text, f, l) /\ IsObject(r.object)
    BY <1>2, <1>4, PresentedAt DEF text
  <2>2. Balanced(SubSeq(text, f, l))
    BY <1>2, <2>1, ObjectBegins DEF text
  <2>3. PICK strings, escaped : Reads(SubSeq(text, f, l), strings, escaped)
    BY <2>2 DEF Balanced
  <2>4. t.depth = 0 <=> i = l
    BY <1>3, <2>3
  <2> QED BY <2>1, <2>4
<1>5. IsObject(SubSeq(text, f, i)) => f \in Starts(text) /\ r.object # <<>>
  <2> SUFFICES ASSUME IsObject(SubSeq(text, f, i)) PROVE f \in Starts(text) /\ r.object # <<>>
    OBVIOUS
  <2>1. i \in f..Len(text)
    BY <1>1, <1>2
  <2>2. SubSeq(text, f, i) \in ObjectsAt(text, f)
    BY <2>1 DEF ObjectsAt
  <2>3. f \in Starts(text)
    BY <1>2, <2>2 DEF Starts
  <2> QED BY <2>3, ReplyPresents DEF text
<1>6. ASSUME t.depth # 0 PROVE ScanHolds(text, i + 1, t)
  <2>1. ASSUME NEW l \in f..Len(text), NEW strings, NEW escaped,
               Reads(SubSeq(text, f, l), strings, escaped)
        PROVE  i + 1 <= l /\ Follows(t, SubSeq(text, f, l), strings, escaped, i + 1 - f)
    <3>1. i <= l /\ i # l /\ Follows(t, SubSeq(text, f, l), strings, escaped, i - f + 1)
      BY <1>3, <1>6, <2>1
    <3>2. i + 1 - f = i - f + 1 /\ (i <= l /\ i # l => i + 1 <= l)
      BY <1>1, <1>2
    <3> QED BY <3>1, <3>2
  <2>2. i + 1 \in 1..(Len(text) + 1) /\ f < i + 1 /\ f # 0
    BY <1>1, <1>2
  <2> QED BY <1>2, <2>1, <2>2 DEF ScanHolds, f
<1> QED BY <1>4, <1>5, <1>6 DEF f, text

\* A reply that is not followed to the end of an object presents none, unless
\* another brace is before it.
LEMMA NoObjectAtEnd ==
  ASSUME NEW r \in Replies, NEW i, i > Len(r.text), NEW s, ScanHolds(r.text, i, s)
  PROVE  r.object = <<>> \/ BraceBefore(r.text)
<1> SUFFICES ASSUME r.object # <<>>, ~BraceBefore(r.text) PROVE FALSE
  OBVIOUS
<1>1. r.text \in Seq(Chars) /\ Len(r.text) \in Nat
  BY ReplyPresents
<1>2. i = Len(r.text) + 1 /\ s.start \in Nat
  BY <1>1 DEF ScanHolds, Scanning
<1>3. CASE s.start = 0
  <2>1. \A j \in 1..Len(r.text) : r.text[j] # "open"
    BY <1>2, <1>3 DEF ScanHolds
  <2>2. PICK f \in Starts(r.text) : r.object \in ObjectsAt(r.text, f)
    BY ReplyPresents
  <2>3. PICK l \in f..Len(r.text) : IsObject(SubSeq(r.text, f, l))
    BY <2>2 DEF ObjectsAt
  <2>4. f \in DOMAIN r.text /\ r.text[f] = "open"
    BY <2>3, ObjectBegins DEF Starts
  <2> QED BY <1>1, <2>1, <2>4
<1>4. CASE s.start > 0
  <2>1. s.start \in FirstBraces(r.text)
    BY <1>4 DEF ScanHolds
  <2>2. PICK l \in s.start..Len(r.text) :
          r.object = SubSeq(r.text, s.start, l) /\ IsObject(r.object)
    BY <2>1, PresentedAt
  <2>3. s.start \in DOMAIN r.text
    BY <2>1 DEF FirstBraces
  <2>4. Balanced(SubSeq(r.text, s.start, l))
    BY <2>2, <2>3, ObjectBegins
  <2>5. PICK strings, escaped : Reads(SubSeq(r.text, s.start, l), strings, escaped)
    BY <2>4 DEF Balanced
  <2>6. i <= l
    BY <1>4, <2>5 DEF ScanHolds
  <2> QED BY <1>1, <1>2, <2>6
<1> QED BY <1>2, <1>3, <1>4

LEMMA DraftingInit == InitDrafting => DraftingInv
BY DEF InitDrafting, DraftingInv, PlainObjectIsFound, ToldNotJSON, NoReply

\* What a retry leaves: a note, or the error after the second attempt.
LEMMA RetryEffect ==
  ASSUME DraftingInv, NEW what, NEW error, Retry(what, error)
  PROVE  /\ attempt' \in {0, 1}
         /\ \/ dpc' = "ask" /\ note' = what /\ outcome' = outcome
            \/ dpc' = "done" /\ outcome' = error
BY DEF DraftingInv, Retry, Return

LEMMA ScanStep ==
  ASSUME DraftingInv, Scan
  PROVE  DraftingInv'
<1>0. PICK t : t = Scanned(scan, reply.text[at], at)
  OBVIOUS
<1> DEFINE candidate == SubSeq(reply.text, t.start, at)
<1>1. /\ dpc = "scan" /\ reply \in Replies /\ ScanHolds(reply.text, at, scan) /\ found = <<>>
      /\ at \in DOMAIN reply.text /\ outcome = "none" /\ attempt \in {0, 1}
      /\ scan' = t /\ at' = at + 1 /\ UNCHANGED <<backend, reply, draft>>
  <2>1. dpc = "scan" /\ reply \in Replies /\ ScanHolds(reply.text, at, scan) /\ at <= Len(reply.text)
    BY DEF DraftingInv, Scan
  <2>2. at \in DOMAIN reply.text
    BY <2>1, ReplyPresents DEF ScanHolds
  <2> QED BY <1>0, <2>1, <2>2 DEF DraftingInv, Scan
<1>2. t \in Scanning /\ t.start \in Nat
  BY <1>0, <1>1, ReplyPresents, ScannedHolds DEF Scanning
<1>3. t.start > 0 =>
        /\ t.depth = 0 =>
             /\ ~IsObject(candidate) => reply.object = <<>> \/ BraceBefore(reply.text)
             /\ IsObject(candidate) => reply.object = candidate /\ reply.object # <<>>
        /\ t.depth # 0 => ScanHolds(reply.text, at + 1, t)
  <2> SUFFICES ASSUME t.start > 0
               PROVE  /\ t.depth = 0 =>
                           /\ ~IsObject(candidate) => reply.object = <<>> \/ BraceBefore(reply.text)
                           /\ IsObject(candidate) => reply.object = candidate /\ reply.object # <<>>
                      /\ t.depth # 0 => ScanHolds(reply.text, at + 1, t)
    OBVIOUS
  <2>1. reply \in Replies /\ at \in DOMAIN reply.text /\ ScanHolds(reply.text, at, scan)
    BY <1>1
  <2>2. t = Scanned(scan, reply.text[at], at)
    BY <1>0
  <2> QED BY <2>1, <2>2, CandidateIsObject
<1>4. t.start = 0 => ScanHolds(reply.text, at + 1, t)
  <2> SUFFICES ASSUME t.start = 0 PROVE ScanHolds(reply.text, at + 1, t)
    OBVIOUS
  <2>1. t = Scanner /\ \A j \in 1..at : reply.text[j] # "open"
    BY <1>0, <1>1, ReplyPresents, ScannedHolds
  <2>2. PICK n \in 1..(Len(reply.text) + 1) : n = at + 1 /\ n - 1 = at
    BY <1>1, ReplyPresents
  <2>3. ~(t.start > 0) /\ t \in Scanning
    BY <1>2
  <2>4. ScanHolds(reply.text, n, t)
    BY <2>1, <2>2, <2>3 DEF ScanHolds
  <2> QED BY <2>2, <2>4
<1>5. CASE ~(t.start > 0 /\ t.depth = 0) /\ UNCHANGED <<dpc, attempt, note, found, outcome>>
  <2>1. ScanHolds(reply.text, at + 1, t)
    BY <1>2, <1>3, <1>4, <1>5
  <2> QED BY <1>1, <1>5, <2>1 DEF DraftingInv, PlainObjectIsFound, ToldNotJSON
<1>6. CASE /\ t.start > 0 /\ t.depth = 0 /\ IsObject(candidate)
           /\ dpc' = "decode" /\ found' = candidate /\ UNCHANGED <<attempt, note, outcome>>
  BY <1>1, <1>3, <1>6 DEF DraftingInv, PlainObjectIsFound, ToldNotJSON
<1>7. CASE /\ t.start > 0 /\ t.depth = 0 /\ ~IsObject(candidate)
           /\ Retry("not_json", "invalid_json") /\ UNCHANGED found
  <2>1. reply.object = <<>> \/ BraceBefore(reply.text)
    BY <1>3, <1>7
  <2> QED BY <1>1, <1>7, <2>1, RetryEffect DEF DraftingInv, PlainObjectIsFound, ToldNotJSON
<1> QED BY <1>0, <1>1, <1>5, <1>6, <1>7 DEF Scan

LEMMA DraftingNext ==
  ASSUME DraftingInv, [NextDrafting]_draftVars
  PROVE  DraftingInv'
<1>1. CASE Ask
  <2>1. PICK r \in Replies : reply' = r
    BY <1>1 DEF Ask
  <2>2. ScanHolds(r.text, 1, Scanner)
    BY ReplyPresents DEF ScanHolds, Scanner, Scanning
  <2> QED BY <1>1, <2>1, <2>2 DEF Ask, DraftingInv, PlainObjectIsFound, ToldNotJSON
<1>2. CASE AskInVain
  <2>1. PICK answer \in DOMAIN ClientError(backend) : Return(ClientError(backend)[answer])
    BY <1>2 DEF AskInVain
  <2>2. ClientError(backend)[answer] \in
          {"refused", "truncated", "rate_limited", "failed", "unavailable"}
    BY <2>1 DEF ClientError, AnthropicError, OllamaError
  <2> QED BY <1>2, <2>1, <2>2 DEF AskInVain, Return, DraftingInv, PlainObjectIsFound, ToldNotJSON
<1>3. CASE ScanEnds
  <2>1. reply.object = <<>> \/ BraceBefore(reply.text)
    BY <1>3, NoObjectAtEnd DEF ScanEnds, DraftingInv
  <2> QED BY <1>3, <2>1, RetryEffect DEF ScanEnds, DraftingInv, PlainObjectIsFound, ToldNotJSON
<1>4. CASE Mismatch
  BY <1>4, RetryEffect DEF Mismatch, DraftingInv, PlainObjectIsFound, ToldNotJSON
<1>5. CASE Decode
  <2>1. PICK d \in Drafts : \/ Valid(d) /\ Return("ok") /\ draft' = Normalized(d)
                            \/ ~Valid(d) /\ Retry("rejected", "rejected") /\ UNCHANGED draft
    BY <1>5 DEF Decode
  <2>2. CASE Valid(d) /\ Return("ok") /\ draft' = Normalized(d)
    <3>1. Usable(Normalized(d))
      BY <2>2 DEF Drafts, Titles, Valid, Normalized, Trim, Usable
    <3> QED BY <1>5, <2>2, <3>1 DEF Decode, Return, DraftingInv, PlainObjectIsFound, ToldNotJSON, Usable
  <2>3. CASE ~Valid(d) /\ Retry("rejected", "rejected") /\ UNCHANGED draft
    BY <1>5, <2>3, RetryEffect DEF Decode, DraftingInv, PlainObjectIsFound, ToldNotJSON
  <2> QED BY <2>1, <2>2, <2>3
<1>6. CASE UNCHANGED draftVars
  BY <1>6 DEF draftVars, DraftingInv, PlainObjectIsFound, ToldNotJSON, Usable
<1> QED BY <1>1, <1>2, <1>3, <1>4, <1>5, <1>6, ScanStep DEF NextDrafting

\* ExtractJSON, Validate, Normalize: a draft that is returned was decoded from the
\* first object in its reply, whatever is around and inside it, and can be used.
THEOREM DraftsAreRead == SpecDrafting => []DraftIsWhatTheModelWrote
<1>1. DraftingInv => DraftIsWhatTheModelWrote
  BY DEF DraftingInv, DraftIsWhatTheModelWrote
<1> QED BY <1>1, DraftingInit, DraftingNext, PTL DEF SpecDrafting

\* ExtractJSON: a reply with an object is not taken for one that is not JSON,
\* provided that no other brace is before the object; with one, it may be.
THEOREM ObjectsAreFound == SpecDrafting => []PlainObjectIsFound
<1>1. DraftingInv => PlainObjectIsFound
  BY DEF DraftingInv
<1> QED BY <1>1, DraftingInit, DraftingNext, PTL DEF SpecDrafting
=============================================================================
