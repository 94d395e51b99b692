------------------------------- MODULE MCBpe -------------------------------
(* Vocabularies and texts for Bpe: the tables that train_bpe of            *)
(* tools/make_tiny.py can build, a merge of two known tokens each time,    *)
(* into a new one.                                                         *)
EXTENDS Bpe

\* a, b and <; < and <a are special too, one byte, c, has no token, and one special token is empty.
A == 1
B == 2
Base == << <<97>>, <<98>>, <<60>>, <<60>>, <<60, 97>>, <<>> >>
Table(ps) == [k \in DOMAIN ps |-> <<ps[k][1], ps[k][2], 6 + k>>]
Vocabulary(ps) ==
  FoldLeft(LAMBDA v, p : Append(v, v[p[1]] \o v[p[2]]), Base, ps)
Input(ps, text, special) ==
  [tokens |-> Vocabulary(ps), special |-> special, merges |-> Table(ps), text |-> text]

Known(n) == {A, B} \cup 7..6+n
Learned ==
  {<<p, q, r>> : p \in Known(0) \X Known(0), q \in Known(1) \X Known(1), r \in Known(2) \X Known(2)}
\* Texts to merge, and texts with special tokens.
Plain == {Input(ps, <<97>> \o w, {6}) : ps \in Learned, w \in [1..4 -> {97, 98}]}
Marked ==
  {Input(<< <<A, B>> >>, w, s) : w \in UNION {[1..n -> {97, 98, 60, 99}] : n \in 0..4}, s \in {{4, 6}, {4, 5, 6}, {5, 6}}}
SomeInputs == Plain \cup Marked
ASSUME LearningOrder == \A x \in SomeInputs : InLearningOrder(x)
=============================================================================
