----------------------------- MODULE MCCommands -----------------------------
(* Small instances of Commands.                                            *)
EXTENDS Commands, FiniteSets

CONSTANTS a, b

TwoTokens == {a, b}

Texts == {<<>>, <<b>>, <<b, b>>, <<b, a, b>>, <<a, b, b, a, b>>}
Job(name, ids, n, batch, ctx, eos) ==
  [name |-> name, ids |-> ids, n |-> n, batch |-> batch, ctx |-> ctx, eos |-> eos]

\* Runs with and without an end of text, that fit and that do not; benches with an odd last chunk;
\* windows with a short, a single and no last token; logits after a prefill of nothing, a part, all.
SomeJobs ==
  {Job("run", t, n, 2, c, e) : t \in Texts, n \in 0..2, c \in {3, 9}, e \in BOOLEAN}
    \cup {Job("bench", t, n, 2, 9, FALSE) : t \in Texts \ {<<>>}, n \in 0..2}
    \cup {Job("eval", t, n, 9, 9, FALSE) : t \in Texts, n \in 1..5}
    \cup {Job("logits", t, n, 9, 9, FALSE) : t \in Texts, n \in {0, 1, 2, 9}}
TheirOptions == {Asked(j) : j \in SomeJobs}
=============================================================================
