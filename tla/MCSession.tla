----------------------------- MODULE MCSession ------------------------------
(* Small instances of Session.                                             *)
EXTENDS Session, FiniteSets, TLC

CONSTANTS a, b

\* Clamped by max_seq and not, a batch larger than the context, logits for all tokens or for the last.
SomeOptions ==
  {[ctx |-> 3, batch |-> 2, all |-> TRUE], [ctx |-> 9, batch |-> 9, all |-> FALSE],
   [ctx |-> 2, batch |-> 5, all |-> TRUE]}

\* A call with no tokens, calls that fill a batch or more, and one that no context has room for.
SomeCalls == {<<>>, <<a>>, <<b, a>>, <<a, b, b>>, <<b, a, a, b>>}

TwoTokens == {a, b}
=============================================================================
