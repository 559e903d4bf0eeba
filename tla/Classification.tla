--------------------------- MODULE Classification ---------------------------
(***************************************************************************)
(* What a command line is worth (internal/classify).  A line is a sequence *)
(* of segments, split at pipes, && and ;, of which the prefixes (sudo, env,*)
(* assignments) are cut off.  Ingest takes the commands it is given from   *)
(* here.  The tables are excerpts with one entry of each sort.             *)
(***************************************************************************)
EXTENDS Integers, SequencesExt, FiniteSetsExt

\* words[1] is the program's base name; args and redirects say whether the
\* files named and written to are configuration ("config") or not ("plain").
Segment == [words : Seq(STRING), args : SUBSET {"config", "plain"},
            redirects : SUBSET {"config", "plain"}]

rule(prefix, family, weight, milestone) ==
  [prefix |-> prefix, family |-> family, weight |-> weight, milestone |-> milestone]

\* In the order of the table: the first that matches counts.
defaultRules ==
  <<rule(<<"git", "commit">>, "git", 5, TRUE),
    rule(<<"systemctl", "restart">>, "service", 5, TRUE),
    rule(<<"systemctl", "reload">>, "service", 4, FALSE),
    rule(<<"systemctl">>, "service", 1, FALSE),
    rule(<<"git">>, "git", 1, FALSE),
    rule(<<"vim">>, "edit", 2, FALSE),
    rule(<<"tmux">>, "noise", 0, FALSE)>>

defaultNoise == {"ls", "cat", "tmux"}
editors == {"vim"}

\* opts is what the configuration adds: programs to ignore and not to ignore,
\* and weights of its own by prefix, which come before the table's and the
\* longer ones before the shorter.
Overrides(opts) ==
  {rule(p, p[1], opts.weights[p], opts.weights[p] >= 5) : p \in DOMAIN opts.weights}
Rules(opts) ==
  SetToSortSeq(Overrides(opts), LAMBDA a, b : Len(a.prefix) > Len(b.prefix)) \o defaultRules
Noise(opts) == (defaultNoise \cup opts.ignore) \ opts.unignore

Worthless == [family |-> "noise", weight |-> 0, milestone |-> FALSE]

\* The first rule that matches; else noise, or something unknown.
Matched(words, opts) ==
  LET hits == {i \in DOMAIN Rules(opts) : IsPrefix(Rules(opts)[i].prefix, words)}
  IN IF hits # {}
     THEN LET r == Rules(opts)[Min(hits)]
          IN [family |-> IF r.weight = 0 THEN "noise" ELSE r.family,
              weight |-> r.weight, milestone |-> r.milestone]
     ELSE IF words[1] \in Noise(opts) THEN Worthless
     ELSE [family |-> "other", weight |-> 1, milestone |-> FALSE]

AtLeast(n, weight) == IF weight < n THEN n ELSE weight

\* A program that writes to a file is a change even if it is noise; an editor
\* on a configuration file is a change of configuration.
classifySegment(seg, opts) ==
  LET m == Matched(seg.words, opts)
      w == IF seg.redirects = {} \/ m.weight >= 2 THEN m
           ELSE [m EXCEPT !.weight = 2, !.family = IF @ = "noise" THEN "fs" ELSE @]
  IN IF seg.words = <<>> THEN Worthless
     ELSE IF seg.words[1] \in editors /\ "config" \in seg.args \cup seg.redirects
     THEN [w EXCEPT !.family = "config", !.weight = AtLeast(3, @)]
     ELSE w

\* The heaviest segment's family, the first of them; a milestone if any is.
Together(res, sr) ==
  LET counts == sr.weight > res.weight \/ (res.family = "noise" /\ sr.family # "noise")
  IN [family |-> IF counts THEN sr.family ELSE res.family,
      weight |-> IF counts THEN sr.weight ELSE res.weight,
      milestone |-> res.milestone \/ sr.milestone]

\* sudo anywhere in the line adds one, up to 5.
Classify(segments, sudo, opts) ==
  LET res == FoldLeft(Together, Worthless, [i \in DOMAIN segments |-> classifySegment(segments[i], opts)])
      weight == IF sudo /\ res.weight \in 1..4 THEN res.weight + 1 ELSE res.weight
  IN [meaningful |-> weight > 0, weight |-> weight, milestone |-> res.milestone,
      family |-> IF res.family = "noise" /\ weight > 0 THEN "other" ELSE res.family]
=============================================================================
