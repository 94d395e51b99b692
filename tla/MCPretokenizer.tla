--------------------------- MODULE MCPretokenizer ---------------------------
(* Texts for Pretokenizer.                                                 *)
EXTENDS Pretokenizer

\* s, l, a digit, a space, a newline, an apostrophe, a dash; the first byte of two, and two bytes that
\* continue it (a number, a no-break space) or stand alone.
Bytes == {115, 108, 49, 32, 10, 39, 45, 194, 178, 160}
Short == UNION {[1..n -> Bytes] : n \in 0..4}
\* we've  'll're; an em dash between spaces; a cut-off euro sign; an emoji.
Longer == {<<119, 101, 39, 118, 101, 32, 32, 39, 108, 108, 39, 114, 101>>,
           <<97, 32, 226, 128, 148, 32, 50, 32, 32>>, <<32, 226, 130>>, <<33, 240, 159, 152, 128, 39, 100>>}
SomeTexts == Short \cup Longer
=============================================================================
