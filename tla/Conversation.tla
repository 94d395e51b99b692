---------------------------- MODULE Conversation ----------------------------
(***************************************************************************)
(* What a Session promises its clients: it holds a text; a call appends    *)
(* tokens to it and answers with the contexts whose next token the logits  *)
(* predict; a call that fails leaves the text a whole number of calls      *)
(* long; and a reset starts an empty text.  How the tokens were cut into   *)
(* calls does not show in the answers.                                     *)
(***************************************************************************)
EXTENDS Integers, Sequences

CONSTANTS Chunks  \* the token sequences one forward may append

VARIABLES
  limit,   \* tokens the session has room for
  text,    \* the tokens accepted since the last reset
  answer   \* one context per row of logits; <<>> when there are none to be read

vars == <<limit, text, answer>>

Init == limit \in Int /\ text = <<>> /\ answer = <<>>

\* The contexts that end at the last k tokens of s.
Contexts(s, k) == [i \in 1..k |-> SubSeq(s, 1, Len(s) - k + i)]

\* ts is appended; the answer is for its last token, or for each of its tokens.
Say(ts) ==
  /\ ts # <<>> /\ Len(text) + Len(ts) <= limit
  /\ text' = text \o ts
  /\ \E k \in {1, Len(ts)} : answer' = Contexts(text', k)
  /\ UNCHANGED limit

\* A call is running, or has failed: the last answer can no longer be read.
Drop == answer' = <<>> /\ UNCHANGED <<limit, text>>

Reset == text' = <<>> /\ UNCHANGED <<limit, answer>>

Next == (\E ts \in Chunks : Say(ts)) \/ Drop \/ Reset
Spec == Init /\ [][Next]_vars
=============================================================================
