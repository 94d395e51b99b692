------------------------------ MODULE Session -------------------------------
(***************************************************************************)
(* Session (src/runtime.cpp, include/edgelm/runtime.hpp): a model's graph  *)
(* with a preallocated KV cache.  A forward runs the ops one by one; only  *)
(* attention mixes tokens, so the other ops are left out, and a value is   *)
(* the context it is a function of.  After layer l a token's hidden state  *)
(* is that token and all before it, provided every cache row that the      *)
(* layers read was of that same text: the rows of another conversation, of *)
(* a failed call or of another position give Lost.                         *)
(***************************************************************************)
EXTENDS Integers, Sequences

CONSTANTS
  Tokens,
  Lost,      \* a value that is no context's
  Layers,    \* n_layers
  MaxSeq,    \* cfg.max_seq
  Options,   \* SessionOptions: records ctx (max_ctx), batch (max_batch), all (all_logits)
  Calls      \* the token sequences clients pass

ASSUME SessionAssumption ==
  /\ Lost \notin Tokens /\ Lost \notin Seq(Tokens)
  /\ Layers \in Nat \ {0} /\ MaxSeq \in Nat
  /\ Options \subseteq [ctx : Nat \ {0}, batch : Nat \ {0}, all : BOOLEAN]
  /\ Calls \subseteq Seq(Tokens)

VARIABLES
  opt,     \* opt_, after the constructor has clamped it
  pos,     \* pos_
  kv,      \* per layer and row of the cache: what the row's key and value are a function of
  phase,   \* "idle", "chunk" (between the forwards of a prefill), or the point reached in forward
  todo,    \* the tokens a prefill has not passed to forward yet
  input,   \* the tokens of the forward in progress
  layer,   \* the layer whose ops are next
  hidden,  \* the hidden state of each token of the input
  out,     \* the rows of logits at the pointer the last call returned, <<>> when it returned none
  thrown   \* the last call ended with an exception

callVars == <<todo, input>>
opVars == <<layer, hidden>>
vars == <<opt, pos, kv, phase, callVars, opVars, out, thrown>>

Least(a, b) == IF a < b THEN a ELSE b

\* Mutant of Clamp: the batch is clamped by the context asked for.
ClampSwapped(o) == [ctx |-> Least(o.ctx, MaxSeq), batch |-> Least(o.batch, o.ctx), all |-> o.all]
\* The constructor: max_ctx and max_batch are clamped, the cache is filled with zeros.
Clamp(o) ==
  LET ctx == Least(o.ctx, MaxSeq) IN [ctx |-> ctx, batch |-> Least(o.batch, ctx), all |-> o.all]

Init ==
  /\ opt \in {Clamp(o) : o \in Options}
  /\ pos = 0 /\ kv = [l \in 0..Layers-1 |-> [p \in 0..opt.ctx-1 |-> Lost]]
  /\ phase = "idle" /\ todo = <<>> /\ input = <<>>
  /\ layer = 0 /\ hidden = <<>> /\ out = <<>> /\ thrown = FALSE

\* The tokens in the cache's first layer: the text of the conversation.
Text == [i \in 1..pos |-> kv[0][i-1]]
Prefix(s, n) == [i \in 1..n |-> s[i]]
\* What reaches layer l for the token at position p of context c: its embedding, or the whole prefix.
Seen(l, c, p) == IF l = 0 THEN c[p+1] ELSE Prefix(c, p+1)
-----------------------------------------------------------------------------
(* prefill, decode and reset                                               *)

\* EDGELM_CHECK throws; what is left of a prefill is lost with the call.
Refuse == phase' = "idle" /\ thrown' = TRUE /\ UNCHANGED <<opt, pos, kv, callVars, opVars, out>>

\* The checks of forward, then T, L, pos0 and the copy of the tokens into the arena, where the block of
\* the last logits is free to be reused.
Accepts(ts) == Len(ts) >= 1 /\ Len(ts) <= opt.batch /\ pos + Len(ts) <= opt.ctx
Enter(ts, rest) ==
  \/ ~Accepts(ts) /\ Refuse
  \/ /\ Accepts(ts)
     /\ phase' = "embed" /\ input' = ts /\ todo' = rest /\ out' = <<>> /\ thrown' = FALSE
     /\ UNCHANGED <<opt, pos, kv, opVars>>

Forward(ts) == phase = "idle" /\ Enter(ts, <<>>)
Decode(tok) == Forward(<<tok>>)

Prefill(ts) ==
  /\ phase = "idle"
  /\ IF ts = <<>> THEN Refuse
     ELSE /\ phase' = "chunk" /\ todo' = ts /\ thrown' = FALSE
          /\ UNCHANGED <<opt, pos, kv, input, opVars, out>>

\* Mutant of NextChunk: the loop ends when less than a whole batch is left.
NextChunkWhole ==
  /\ phase = "chunk"
  /\ LET n    == Least(opt.batch, Len(todo))
         rest == SubSeq(todo, n + 1, Len(todo))
     IN  Enter(SubSeq(todo, 1, n), IF Len(rest) < opt.batch THEN <<>> ELSE rest)

\* One turn of prefill's loop: at most max_batch of the tokens that are left.
NextChunk ==
  /\ phase = "chunk"
  /\ LET n == Least(opt.batch, Len(todo)) IN Enter(SubSeq(todo, 1, n), SubSeq(todo, n + 1, Len(todo)))

Reset == phase = "idle" /\ pos' = 0 /\ UNCHANGED <<opt, kv, phase, callVars, opVars, out, thrown>>
-----------------------------------------------------------------------------
(* The ops of a forward                                                    *)

Embed ==
  /\ phase = "embed"
  /\ phase' = "append" /\ layer' = 0 /\ hidden' = input
  /\ UNCHANGED <<opt, pos, kv, callVars, out, thrown>>

\* Mutant of WriteRows: every call starts at row 0.
WriteRowsAtZero ==
  /\ phase = "append"
  /\ phase' = "attend"
  /\ kv' = [kv EXCEPT ![layer] =
              [p \in DOMAIN @ |-> IF p \in 0..Len(input)-1 THEN hidden[p + 1] ELSE @[p]]]
  /\ UNCHANGED <<opt, pos, callVars, opVars, out, thrown>>

\* ATTENTION, first half: the step's keys and values go to the rows from pos0 on.
WriteRows ==
  /\ phase = "append"
  /\ phase' = "attend"
  /\ kv' = [kv EXCEPT ![layer] =
              [p \in DOMAIN @ |-> IF p \in pos..pos+Len(input)-1 THEN hidden[p - pos + 1] ELSE @[p]]]
  /\ UNCHANGED <<opt, pos, callVars, opVars, out, thrown>>

\* The context that rows 0..p of a layer are the keys and values of, if they are of one context.
Mix(l, p) ==
  LET C == {c \in [1..p+1 -> Tokens] : \A q \in 0..p : kv[l][q] = Seen(l, c, q)}
  IN  IF C = {} THEN Lost ELSE CHOOSE c \in C : TRUE

\* ATTENTION, second half: each token attends to the rows up to its own.
Attend ==
  /\ phase = "attend"
  /\ hidden' = [t \in 1..Len(input) |-> Mix(layer, pos + t - 1)]
  /\ layer' = layer + 1
  /\ phase' = IF layer + 1 < Layers THEN "append" ELSE "head"
  /\ UNCHANGED <<opt, pos, kv, callVars, out, thrown>>

\* Mutant of Rows: logits for the last token only, whatever the options say.
LastRow == 1
\* LAST_ROWS and the logits, pos_ += n; the call returns, or a prefill goes on.
Rows == IF opt.all THEN Len(input) ELSE 1
Return ==
  /\ phase = "head"
  /\ out' = [i \in 1..Rows |-> hidden[Len(input) - Rows + i]]
  /\ pos' = pos + Len(input)
  /\ phase' = IF todo = <<>> THEN "idle" ELSE "chunk"
  /\ UNCHANGED <<opt, kv, callVars, opVars, thrown>>

\* Mutant of Throw: pos_ has moved already.
ThrowAdvanced ==
  /\ phase \in {"embed", "append", "attend", "head"}
  /\ phase' = "idle" /\ thrown' = TRUE /\ pos' = pos + Len(input)
  /\ UNCHANGED <<opt, kv, callVars, opVars, out>>

\* An op throws (the vectors of the kernels and of the profiler may not be had): forward ends before
\* pos_ moves.
Throw ==
  /\ phase \in {"embed", "append", "attend", "head"}
  /\ phase' = "idle" /\ thrown' = TRUE
  /\ UNCHANGED <<opt, pos, kv, callVars, opVars, out>>

Step == NextChunk \/ Embed \/ WriteRows \/ Attend \/ Return
Next ==
  \/ \E ts \in Calls : Forward(ts) \/ Prefill(ts)
  \/ \E tok \in Tokens : Decode(tok)
  \/ Reset \/ Step \/ Throw

Spec == Init /\ [][Next]_vars
-----------------------------------------------------------------------------
(* Properties                                                              *)

Running == phase \in {"embed", "append", "attend", "head"}
Value == Tokens \cup Seq(Tokens) \cup {Lost}

\* Type invariant, with the clamps of the constructor.
TypeOK ==
  /\ opt.ctx \in 0..MaxSeq /\ opt.batch \in 0..opt.ctx /\ opt.all \in BOOLEAN
  /\ pos \in 0..opt.ctx
  /\ DOMAIN kv = 0..Layers-1
  /\ \A l \in 0..Layers-1 : DOMAIN kv[l] = 0..opt.ctx-1 /\ \A p \in 0..opt.ctx-1 : kv[l][p] \in Value
  /\ Running \/ phase \in {"idle", "chunk"}
  /\ todo \in Seq(Tokens) /\ input \in Seq(Tokens)
  /\ layer \in 0..Layers
  /\ hidden \in Seq(Value) /\ out \in Seq(Value) /\ thrown \in BOOLEAN

\* Below pos_ the cache is of one conversation, in every layer: no call, refused or failed or cut into
\* chunks, and no reset leaves rows of another text where attention reads them.
CacheHoldsText == \A l \in 0..Layers-1 : \A p \in 0..pos-1 : kv[l][p] = Seen(l, Text, p)

\* The logits a call returns are for its tokens, each after the whole conversation up to it: for all of
\* them with all_logits, else for the last.
AnswersAreOfTheText ==
  [][out' # out /\ out' # <<>> =>
       /\ Len(out') = (IF opt.all THEN Len(input) ELSE 1)
       /\ \A i \in 1..Len(out') : out'[i] = Prefix(Text', pos' - Len(out') + i)]_vars

\* What the call in progress has still to add to the text, and the text it is about to come to.
Said == Calls \cup {<<t>> : t \in Tokens}
Ahead == IF Running THEN input \o todo ELSE IF phase = "chunk" THEN todo ELSE <<>>
Saying == Text \o Ahead

\* A call that returns has added its tokens to the text, all of them, once and in order, however its
\* prefill was cut and whatever the cache held; one that fails leaves what its finished chunks have added
\* and nothing of the forward it failed in; and only reset takes tokens away, all of them.
CallsSayAll ==
  [][\/ phase = "idle" /\ phase' = "idle" /\ Text' \in {Text, <<>>}
     \/ phase = "idle" /\ phase' # "idle" /\ \E ts \in Said : Saying' = Text \o ts
     \/ phase # "idle" /\ Saying' = Saying
     \/ phase # "idle" /\ thrown' /\ Text' = Text]_vars

\* Chunked prefill, token by token decoding, failures and resets all come to a text that grows by whole
\* calls, answered at its end.
Pieces(s) == {SubSeq(s, i, j) : i, j \in 1..Len(s)}
Cuts == UNION {Pieces(s) : s \in Said}
C == INSTANCE Conversation WITH limit <- opt.ctx, text <- Text, answer <- out, Chunks <- Cuts
ImplementsConversation == C!Spec
=============================================================================
