--------------------------- MODULE Commands_proofs ---------------------------
(***************************************************************************)
(* A session's cache, its answers and its abstract specification, for any  *)
(* number of layers, any sizes and any calls; and that the commands, which *)
(* make these calls, use the logits they mean, for any model, options,     *)
(* text and counts, and any tokens sampled.  The theorems about the        *)
(* session use no assumption of Commands.                                  *)
(***************************************************************************)
EXTENDS Commands, TLAPS, SequenceTheorems

-----------------------------------------------------------------------------
(* The session                                                             *)

\* The text of the conversation with the tokens of the forward in progress.
Whole == [i \in 1..pos+Len(input) |-> IF i <= pos THEN kv[0][i-1] ELSE input[i - pos]]

Types ==
  /\ opt \in [ctx : Nat, batch : Nat, all : BOOLEAN]
  /\ pos \in 0..opt.ctx
  /\ kv \in [0..Layers-1 -> [0..opt.ctx-1 -> Value]]
  /\ \A p \in 0..pos-1 : kv[0][p] \in Tokens
  /\ Running \/ phase \in {"idle", "chunk"}
  /\ todo \in Seq(Tokens) /\ input \in Seq(Tokens)

\* What a forward in progress has come to: the hidden states of its tokens are those of the layer that is
\* next, and the rows of its tokens are in the layers behind it.
Embedded == phase \in {"append", "attend", "head"}
Progress ==
  /\ Embedded =>
       /\ layer \in 0..Layers
       /\ phase = "head" <=> layer = Layers
       /\ \A t \in 1..Len(input) : hidden[t] = Seen(layer, Whole, pos + t - 1)
  /\ \A l \in 0..Layers-1 : Embedded /\ (l < layer \/ (l = layer /\ phase = "attend")) =>
       \A p \in pos..pos+Len(input)-1 : kv[l][p] = Seen(l, Whole, p)

\* A forward in progress has at most the tokens and the rows that the session has room for.
WithinBounds == Running => Len(input) \in 1..opt.batch /\ pos + Len(input) <= opt.ctx

SessionInv == Types /\ WithinBounds /\ CacheHoldsText /\ Progress
-----------------------------------------------------------------------------
(* Texts                                                                   *)

\* The whole text is one of tokens, and begins with the text of the conversation.
LEMMA WholeType ==
  ASSUME Types
  PROVE  /\ Len(input) \in Nat
         /\ Whole \in [1..pos+Len(input) -> Tokens]
         /\ \A i \in 1..pos : Whole[i] = Text[i] /\ Whole[i] = kv[0][i-1]
         /\ \A t \in 1..Len(input) : Whole[pos + t] = input[t]
<1> pos \in Nat /\ Len(input) \in Nat
  BY DEF Types
<1>1. ASSUME NEW i \in 1..pos+Len(input) PROVE (IF i <= pos THEN kv[0][i-1] ELSE input[i - pos]) \in Tokens
  <2>1. CASE i <= pos
    <3> i - 1 \in 0..pos-1
      BY <2>1
    <3> QED BY <2>1 DEF Types
  <2>2. CASE ~(i <= pos)
    <3> i - pos \in 1..Len(input)
      BY <2>2
    <3> QED BY <2>2 DEF Types
  <2> QED BY <2>1, <2>2
<1>2. Whole \in [1..pos+Len(input) -> Tokens]
  BY <1>1 DEF Whole
<1>3. \A i \in 1..pos : Whole[i] = Text[i] /\ Whole[i] = kv[0][i-1]
  BY DEF Whole, Text
<1>4. ASSUME NEW t \in 1..Len(input) PROVE Whole[pos + t] = input[t]
  BY DEF Whole
<1> QED BY <1>2, <1>3, <1>4

\* What a layer sees at a position depends on the text up to it.
LEMMA SeenPrefix ==
  ASSUME NEW c, NEW d, NEW p \in Nat, NEW l, \A i \in 1..p+1 : c[i] = d[i]
  PROVE  Seen(l, c, p) = Seen(l, d, p)
<1> p + 1 \in 1..p+1
  OBVIOUS
<1> QED BY DEF Seen, Prefix

\* If the rows up to p are of one text, mixing them gives that text up to p.
LEMMA MixIsPrefix ==
  ASSUME NEW l, NEW m \in Nat, NEW w \in [1..m -> Tokens], NEW p \in Nat, p + 1 <= m,
         \A q \in 0..p : kv[l][q] = Seen(l, w, q)
  PROVE  Mix(l, p) = Prefix(w, p + 1)
<1> DEFINE Texts == {c \in [1..p+1 -> Tokens] : \A q \in 0..p : kv[l][q] = Seen(l, c, q)}
           v == Prefix(w, p + 1)
<1>1. v \in [1..p+1 -> Tokens] /\ \A i \in 1..p+1 : v[i] = w[i]
  BY DEF Prefix
<1>2. ASSUME NEW q \in 0..p PROVE kv[l][q] = Seen(l, v, q)
  <2> \A i \in 1..q+1 : v[i] = w[i]
    BY <1>1
  <2> Seen(l, v, q) = Seen(l, w, q)
    BY SeenPrefix
  <2> QED OBVIOUS
<1>3. v \in Texts
  BY <1>1, <1>2
<1>4. ASSUME NEW c \in Texts PROVE c = v
  <2> HIDE DEF v
  <2>1. CASE l = 0
    <3>1. ASSUME NEW i \in 1..p+1 PROVE c[i] = v[i]
      <4> DEFINE q == i - 1
      <4> q \in 0..p /\ q + 1 = i
        OBVIOUS
      <4> HIDE DEF q
      <4> Seen(l, c, q) = Seen(l, v, q)
        BY <1>2
      <4> QED BY <2>1 DEF Seen
    <3> QED BY <1>1, <3>1
  <2>2. CASE l # 0
    <3> p \in 0..p
      OBVIOUS
    <3>1. Seen(l, c, p) = Seen(l, v, p)
      BY <1>2
    <3>2. [i \in 1..p+1 |-> c[i]] = [i \in 1..p+1 |-> v[i]]
      BY <2>2, <3>1 DEF Seen, Prefix
    <3> QED BY <1>1, <3>2
  <2> QED BY <2>1, <2>2
<1> HIDE DEF v
<1> QED BY <1>3, <1>4 DEF Mix, v

\* The rows below pos are of the whole text as they are of the conversation's.
LEMMA OldRows ==
  ASSUME SessionInv, NEW l \in 0..Layers-1, NEW p \in 0..pos-1
  PROVE  kv[l][p] = Seen(l, Whole, p)
<1> p \in Nat /\ pos \in Nat
  BY DEF SessionInv, Types
<1> \A i \in 1..p+1 : Text[i] = Whole[i]
  BY WholeType DEF SessionInv
<1> Seen(l, Text, p) = Seen(l, Whole, p)
  BY SeenPrefix
<1> QED BY DEF SessionInv, CacheHoldsText
-----------------------------------------------------------------------------
(* The invariant                                                           *)

\* It holds at the start: the cache is empty.
LEMMA SessionInvInit == Init => SessionInv
<1> SUFFICES ASSUME Init PROVE SessionInv
  OBVIOUS
<1> USE SessionAssumption DEF SessionAssumption
<1>1. opt \in [ctx : Nat, batch : Nat, all : BOOLEAN]
  BY DEF Init, Clamp, Least
<1>2. kv \in [0..Layers-1 -> [0..opt.ctx-1 -> Value]]
  BY DEF Init, Value
<1>3. Types
  <2> opt.ctx \in Nat /\ pos = 0 /\ phase = "idle" /\ todo = <<>> /\ input = <<>>
    BY <1>1 DEF Init
  <2> pos \in 0..opt.ctx /\ todo \in Seq(Tokens) /\ input \in Seq(Tokens)
    OBVIOUS
  <2> QED BY <1>1, <1>2 DEF Types
<1>4. WithinBounds /\ CacheHoldsText /\ Progress
  BY <1>1 DEF Init, WithinBounds, CacheHoldsText, Progress, Embedded, Running
<1> QED BY <1>3, <1>4 DEF SessionInv

\* A step between forwards leaves the cache alone, and pos_ or moves it back to 0.
LEMMA IdleStep ==
  ASSUME SessionInv, UNCHANGED <<opt, kv>>, pos' \in {0, pos}, phase' \in {"idle", "chunk"},
         todo' \in Seq(Tokens), input' \in Seq(Tokens)
  PROVE  SessionInv'
<1>1. Types'
  <2> opt.ctx \in Nat /\ pos \in 0..opt.ctx
    BY DEF SessionInv, Types
  <2>1. CASE pos' = 0
    BY <2>1 DEF SessionInv, Types
  <2>2. CASE pos' = pos
    BY <2>2 DEF SessionInv, Types
  <2> QED BY <2>1, <2>2
<1>2. CacheHoldsText'
  <2>1. CASE pos' = 0
    BY <2>1 DEF CacheHoldsText
  <2>2. CASE pos' = pos
    BY <2>2 DEF SessionInv, CacheHoldsText, Text
  <2> QED BY <2>1, <2>2
<1>3. WithinBounds' /\ Progress'
  BY DEF WithinBounds, Progress, Running, Embedded
<1> QED BY <1>1, <1>2, <1>3 DEF SessionInv

\* A call is refused or begins.
LEMMA EnterStep ==
  ASSUME SessionInv, NEW ts \in Seq(Tokens), NEW rest \in Seq(Tokens), Enter(ts, rest)
  PROVE  SessionInv'
<1>1. CASE Refuse
  BY <1>1, IdleStep DEF Refuse, callVars, SessionInv, Types
<1>2. CASE Accepts(ts) /\ phase' = "embed" /\ input' = ts /\ todo' = rest /\ UNCHANGED <<opt, pos, kv>>
  <2>1. Types'
    BY <1>2 DEF SessionInv, Types, Running
  <2>2. WithinBounds'
    BY <1>2 DEF WithinBounds, Accepts, SessionInv, Types
  <2>3. CacheHoldsText' /\ Progress'
    BY <1>2 DEF SessionInv, CacheHoldsText, Text, Progress, Embedded
  <2> QED BY <2>1, <2>2, <2>3 DEF SessionInv
<1> QED BY <1>1, <1>2 DEF Enter

\* The embeddings are what the first layer sees.
LEMMA EmbedStep == ASSUME SessionInv, Embed PROVE SessionInv'
<1> USE DEF Embed, callVars
<1>1. Types' /\ WithinBounds' /\ CacheHoldsText'
  BY DEF SessionInv, Types, WithinBounds, Running, CacheHoldsText, Text
<1>2. ASSUME NEW t \in 1..Len(input) PROVE hidden'[t] = Seen(0, Whole, pos + t - 1)
  <2> pos \in Nat /\ t \in Nat
    BY DEF SessionInv, Types
  <2> Whole[pos + t] = input[t]
    BY WholeType DEF SessionInv
  <2> QED BY DEF Seen
<1>3. Whole' = Whole
  BY DEF Whole
<1>4. Progress'
  BY <1>2, <1>3, SessionAssumption DEF SessionAssumption, Progress, Embedded, Seen
<1> QED BY <1>1, <1>4 DEF SessionInv

\* New rows stand at and above pos: what was below is still there.
LEMMA WriteStep == ASSUME SessionInv, WriteRows PROVE SessionInv'
<1> USE DEF WriteRows, callVars, opVars
<1> DEFINE n == Len(input)
<1>0. /\ pos \in Nat /\ n \in Nat /\ pos + n <= opt.ctx /\ Layers \in Nat
      /\ layer \in 0..Layers-1 /\ opt.ctx \in Nat
  BY SessionAssumption, WholeType DEF SessionAssumption, SessionInv, Types, WithinBounds, Running, Progress, Embedded
<1>1. \A t \in 1..n : hidden[t] = Seen(layer, Whole, pos + t - 1)
  BY DEF SessionInv, Progress, Embedded
<1>2. \A l \in 0..Layers-1 : l # layer => kv'[l] = kv[l]
  BY DEF SessionInv, Types
<1>3. \A p \in 0..opt.ctx-1 :
        kv'[layer][p] = IF p \in pos..pos+n-1 THEN hidden[p - pos + 1] ELSE kv[layer][p]
  BY <1>0 DEF SessionInv, Types
<1>4. ASSUME NEW l \in 0..Layers-1, NEW p \in 0..pos-1 PROVE kv'[l][p] = kv[l][p]
  <2> p \in 0..opt.ctx-1 /\ p \notin pos..pos+n-1
    BY <1>0
  <2> QED BY <1>2, <1>3
<1>5. Text' = Text /\ Whole' = Whole
  <2> 0 \in 0..Layers-1
    BY <1>0
  <2>1. \A i \in 1..pos : kv'[0][i-1] = kv[0][i-1]
    BY <1>0, <1>4, SMTT(40)
  <2>2. Text' = Text
    BY <2>1 DEF Text
  <2>3. ASSUME NEW i \in 1..pos+n, i <= pos PROVE kv'[0][i-1] = kv[0][i-1]
    <3> i \in 1..pos
      BY <1>0, <2>3
    <3> QED BY <2>1
  <2>4. Whole' = Whole
    BY <2>3 DEF Whole
  <2> QED BY <2>2, <2>4
<1>6. \A p \in pos..pos+n-1 : kv'[layer][p] = Seen(layer, Whole, p)
  <2> SUFFICES ASSUME NEW p \in pos..pos+n-1 PROVE kv'[layer][p] = Seen(layer, Whole, p)
    OBVIOUS
  <2> DEFINE t == p - pos + 1
  <2> t \in 1..n /\ p = pos + t - 1 /\ p \in 0..opt.ctx-1
    BY <1>0
  <2> QED BY <1>1, <1>3
<1>7. \A p \in 0..opt.ctx-1 : kv'[layer][p] \in Value
  <2> SUFFICES ASSUME NEW p \in pos..pos+n-1 PROVE Seen(layer, Whole, p) \in Value
    BY <1>0, <1>3, <1>6 DEF SessionInv, Types
  <2> p \in Nat /\ p + 1 \in 1..pos+n
    BY <1>0
  <2> Whole \in [1..pos+n -> Tokens]
    BY WholeType DEF SessionInv
  <2>1. Whole[p + 1] \in Tokens
    OBVIOUS
  <2>2. Prefix(Whole, p + 1) \in Seq(Tokens)
    <3> \A i \in 1..p+1 : Whole[i] \in Tokens
      BY <1>0
    <3> QED BY DEF Prefix
  <2> QED BY <2>1, <2>2 DEF Seen, Value
<1>8. Types'
  <2>1. kv' \in [0..Layers-1 -> [0..opt.ctx-1 -> Value]]
    <3>1. kv'[layer] = [p \in 0..opt.ctx-1 |-> kv'[layer][p]]
      BY <1>0 DEF SessionInv, Types
    <3>2. kv'[layer] \in [0..opt.ctx-1 -> Value]
      BY <1>7, <3>1
    <3> QED BY <1>0, <1>2, <3>2 DEF SessionInv, Types
  <2>2. \A p \in 0..pos-1 : kv'[0][p] \in Tokens
    BY <1>0, <1>4 DEF SessionInv, Types
  <2> QED BY <2>1, <2>2 DEF SessionInv, Types, Running
<1>9. CacheHoldsText'
  BY <1>4, <1>5 DEF SessionInv, CacheHoldsText
<1>10. Progress'
  <2> phase' = "attend" /\ layer' = layer /\ hidden' = hidden /\ input' = input /\ pos' = pos
    OBVIOUS
  <2>1. \A t \in 1..n : hidden[t] = Seen(layer, Whole', pos + t - 1)
    BY <1>1, <1>5
  <2>2. ASSUME NEW l \in 0..Layers-1, l < layer, NEW p \in pos..pos+n-1 PROVE kv'[l][p] = Seen(l, Whole', p)
    <3> kv[l][p] = Seen(l, Whole, p)
      BY <2>2 DEF SessionInv, Progress, Embedded
    <3> kv'[l] = kv[l]
      BY <1>0, <1>2, <2>2
    <3> QED BY <1>5
  <2>3. \A p \in pos..pos+n-1 : kv'[layer][p] = Seen(layer, Whole', p)
    BY <1>5, <1>6
  <2> HIDE DEF WriteRows
  <2>4. layer \in 0..Layers /\ layer # Layers
    BY <1>0
  <2>5. ASSUME NEW l \in 0..Layers-1, l < layer \/ l = layer
        PROVE  \A p \in pos..pos+n-1 : kv'[l][p] = Seen(l, Whole', p)
    BY <2>2, <2>3, <2>5
  <2> QED BY <2>1, <2>4, <2>5 DEF Progress
<1> QED BY <1>8, <1>9, <1>10 DEF SessionInv, WithinBounds, Running

\* Attention over rows of one text gives each token its whole prefix.
LEMMA AttendStep == ASSUME SessionInv, Attend PROVE SessionInv'
<1> USE DEF Attend, callVars
<1> DEFINE n == Len(input)
<1>0. /\ pos \in Nat /\ n \in Nat /\ Layers \in Nat /\ layer \in 0..Layers-1
      /\ input' = input /\ pos' = pos /\ kv' = kv /\ layer' = layer + 1
  BY SessionAssumption, WholeType DEF SessionAssumption, SessionInv, Types, Progress, Embedded
<1>1. Types' /\ WithinBounds' /\ CacheHoldsText'
  BY DEF SessionInv, Types, WithinBounds, Running, CacheHoldsText, Text
<1>2. Whole' = Whole
  BY <1>0 DEF Whole
<1>3. ASSUME NEW t \in 1..n PROVE hidden'[t] = Seen(layer + 1, Whole, pos + t - 1)
  <2> DEFINE p == pos + t - 1
  <2>1. p \in Nat /\ p + 1 <= pos + n /\ pos + n \in Nat
    BY <1>0
  <2>2. ASSUME NEW q \in 0..p PROVE kv[layer][q] = Seen(layer, Whole, q)
    <3>1. CASE q \in 0..pos-1
      BY <1>0, <3>1, OldRows
    <3>2. CASE q \in pos..pos+n-1
      BY <1>0, <3>2 DEF SessionInv, Progress, Embedded
    <3> QED BY <1>0, <2>1, <3>1, <3>2
  <2>3. Mix(layer, p) = Prefix(Whole, p + 1)
    <3> Whole \in [1..pos+n -> Tokens]
      BY WholeType DEF SessionInv
    <3> HIDE DEF n, p
    <3> QED BY <2>1, <2>2, MixIsPrefix
  <2>4. hidden'[t] = Mix(layer, p)
    OBVIOUS
  <2>5. Seen(layer + 1, Whole, p) = Prefix(Whole, p + 1)
    BY <1>0 DEF Seen
  <2> QED BY <2>3, <2>4, <2>5
<1>4. ASSUME NEW l \in 0..Layers-1, l < layer', NEW p \in pos..pos+n-1 PROVE kv[l][p] = Seen(l, Whole, p)
  BY <1>0, <1>4 DEF SessionInv, Progress, Embedded
<1>5. phase' = IF layer + 1 < Layers THEN "append" ELSE "head"
  OBVIOUS
<1> HIDE DEF Attend
<1>6. layer' = layer + 1 /\ layer' \in 0..Layers /\ (phase' = "head" <=> layer' = Layers)
      /\ phase' # "attend"
  BY <1>0, <1>2, <1>5
<1>7. /\ \A t \in 1..Len(input') : hidden'[t] = Seen(layer', Whole', pos' + t - 1)
      /\ \A l \in 0..Layers-1 : l < layer' =>
           \A p \in pos'..pos'+Len(input')-1 : kv'[l][p] = Seen(l, Whole', p)
  BY <1>0, <1>2, <1>3, <1>4, <1>6
<1>8. Progress'
  BY <1>6, <1>7 DEF Progress
<1> QED BY <1>1, <1>8 DEF SessionInv

\* When a forward returns, the rows of its tokens are in every layer, and the text is the whole text.
LEMMA ReturnText ==
  ASSUME SessionInv, Return
  PROVE  /\ Text' = Whole
         /\ \A l \in 0..Layers-1 : \A p \in 0..pos'-1 : kv[l][p] = Seen(l, Whole, p)
<1> DEFINE n == Len(input)
<1>0. /\ pos \in Nat /\ n \in Nat /\ Layers \in Nat \ {0} /\ phase = "head" /\ layer = Layers
      /\ pos' = pos + n /\ kv' = kv
  BY SessionAssumption, WholeType DEF SessionAssumption, SessionInv, Types, Progress, Embedded, Return
<1>1. ASSUME NEW l \in 0..Layers-1, NEW p \in 0..pos'-1 PROVE kv[l][p] = Seen(l, Whole, p)
  <2>1. CASE p \in 0..pos-1
    BY <2>1, OldRows
  <2>2. CASE p \in pos..pos+n-1
    BY <1>0, <2>2 DEF SessionInv, Progress, Embedded
  <2> QED BY <1>0, <2>1, <2>2
<1>2. \A i \in 1..pos+n : kv[0][i-1] = Whole[i]
  <2> SUFFICES ASSUME NEW i \in 1..pos+n PROVE kv[0][i-1] = Whole[i]
    OBVIOUS
  <2> DEFINE p == i - 1
  <2> 0 \in 0..Layers-1 /\ p \in 0..pos'-1 /\ p + 1 = i
    BY <1>0
  <2> HIDE DEF p
  <2> kv[0][p] = Seen(0, Whole, p)
    BY <1>1
  <2> QED BY DEF Seen, p
<1>3. Text' = Whole
  <2>1. Text' = [i \in 1..pos+n |-> kv[0][i-1]]
    BY <1>0 DEF Text
  <2>2. Whole = [i \in 1..pos+n |-> Whole[i]]
    BY WholeType DEF SessionInv
  <2> QED BY <1>2, <2>1, <2>2
<1> QED BY <1>1, <1>3

\* The cache holds the whole text, and the call, or this part of it, is over.
LEMMA ReturnStep == ASSUME SessionInv, Return PROVE SessionInv'
<1> USE DEF Return, callVars, opVars
<1> DEFINE n == Len(input)
<1>0. pos \in Nat /\ n \in Nat /\ pos' = pos + n /\ kv' = kv /\ opt' = opt /\ pos + n <= opt.ctx
  BY WholeType DEF SessionInv, Types, WithinBounds, Running
<1>1. CacheHoldsText'
  BY <1>0, ReturnText DEF CacheHoldsText
<1>2. ASSUME NEW p \in 0..pos+n-1 PROVE kv[0][p] \in Tokens
  <2> 0 \in 0..Layers-1 /\ p + 1 \in 1..pos+n /\ p \in 0..pos'-1
    BY <1>0, SessionAssumption DEF SessionAssumption
  <2> kv[0][p] = Whole[p + 1]
    BY ReturnText DEF Seen
  <2> QED BY WholeType DEF SessionInv
<1>3. Types'
  BY <1>0, <1>2 DEF SessionInv, Types, Running
<1>4. WithinBounds' /\ Progress'
  BY DEF WithinBounds, Progress, Running, Embedded
<1> QED BY <1>1, <1>3, <1>4 DEF SessionInv

\* Every step keeps the invariant.
LEMMA SessionInvNext == SessionInv /\ [Next]_vars => SessionInv'
<1> SUFFICES ASSUME SessionInv, [Next]_vars PROVE SessionInv'
  OBVIOUS
<1> <<>> \in Seq(Tokens)
  OBVIOUS
<1>1. ASSUME NEW ts \in Calls, Forward(ts) PROVE SessionInv'
  <2> ts \in Seq(Tokens)
    BY SessionAssumption DEF SessionAssumption
  <2> QED BY <1>1, EnterStep DEF Forward
<1>2. ASSUME NEW ts \in Calls, Prefill(ts) PROVE SessionInv'
  <2> ts \in Seq(Tokens)
    BY SessionAssumption DEF SessionAssumption
  <2> QED BY <1>2, IdleStep DEF Prefill, Refuse, callVars, SessionInv, Types
<1>3. ASSUME NEW tok \in Tokens, Decode(tok) PROVE SessionInv'
  <2> <<tok>> \in Seq(Tokens)
    OBVIOUS
  <2> QED BY <1>3, EnterStep DEF Decode, Forward
<1>4. CASE Reset
  BY <1>4, IdleStep DEF Reset, callVars, SessionInv, Types
<1>5. CASE NextChunk
  <2> DEFINE m == Least(opt.batch, Len(todo))
  <2> todo \in Seq(Tokens) /\ opt.batch \in Nat
    BY DEF SessionInv, Types
  <2> m \in 0..Len(todo)
    BY DEF Least
  <2> HIDE DEF m
  <2> SubSeq(todo, 1, m) \in Seq(Tokens) /\ SubSeq(todo, m + 1, Len(todo)) \in Seq(Tokens)
    OBVIOUS
  <2> Enter(SubSeq(todo, 1, m), SubSeq(todo, m + 1, Len(todo)))
    BY <1>5 DEF NextChunk, m
  <2> QED BY EnterStep
<1>6. CASE Throw
  BY <1>6, IdleStep DEF Throw, callVars, SessionInv, Types
<1>7. CASE UNCHANGED vars
  BY <1>7 DEF vars, callVars, opVars, SessionInv, Types, WithinBounds, Running, CacheHoldsText, Text, Progress, Embedded, Whole
<1> QED BY <1>1, <1>2, <1>3, <1>4, <1>5, <1>6, <1>7, EmbedStep, WriteStep, AttendStep, ReturnStep DEF Next, Step

\* The invariant holds always.
LEMMA SessionInvariant == Spec => []SessionInv
  BY SessionInvInit, SessionInvNext, PTL DEF Spec
-----------------------------------------------------------------------------
(* Theorems                                                                *)

\* For any model, sizes and calls, failed ones included: below pos_ every layer's cache is of one text.
THEOREM CacheAlwaysHoldsText == Spec => []CacheHoldsText
<1> SessionInv => CacheHoldsText
  BY DEF SessionInv
<1> QED BY SessionInvariant, PTL

\* The sizes the constructor has clamped, and sequences of values of the call's length.
Sizes ==
  /\ opt.ctx \in 0..MaxSeq /\ opt.batch \in 0..opt.ctx
  /\ layer \in 0..Layers /\ thrown \in BOOLEAN
  /\ hidden \in Seq(Value) /\ out \in Seq(Value)
  /\ Embedded => Len(hidden) = Len(input)

\* Attention yields the text of the rows it reads, or Lost.
LEMMA MixType == ASSUME NEW l, NEW p \in Nat PROVE Mix(l, p) \in Value
<1> DEFINE K == {c \in [1..p+1 -> Tokens] : \A q \in 0..p : kv[l][q] = Seen(l, c, q)}
<1>1. CASE K = {}
  BY <1>1 DEF Mix, Value
<1>2. CASE K # {}
  <2>1. Mix(l, p) \in K
    BY <1>2 DEF Mix
  <2>2. Mix(l, p) \in [1..p+1 -> Tokens] /\ p + 1 \in Nat
    BY <2>1
  <2>3. Mix(l, p) \in Seq(Tokens)
    BY <2>2
  <2> QED BY <2>3 DEF Value
<1> QED BY <1>1, <1>2

\* TypeOK for any model, sizes and calls: the clamps hold, and every vector is as long as its tokens.
THEOREM SessionTypesHold == Spec => []TypeOK
<1>1. Init => Sizes
  <2> SUFFICES ASSUME Init PROVE Sizes
    OBVIOUS
  <2>1. PICK o \in Options : opt = Clamp(o)
    BY DEF Init
  <2>2. o.ctx \in Nat /\ o.batch \in Nat /\ MaxSeq \in Nat /\ Layers \in Nat
    BY SessionAssumption DEF SessionAssumption
  <2>3. opt.ctx \in 0..MaxSeq /\ opt.batch \in 0..opt.ctx
    BY <2>1, <2>2 DEF Clamp, Least
  <2>4. layer = 0 /\ hidden = <<>> /\ out = <<>> /\ thrown = FALSE /\ ~Embedded
    BY DEF Init, Embedded
  <2>5. layer \in 0..Layers /\ hidden \in Seq(Value) /\ out \in Seq(Value)
    BY <2>2, <2>4
  <2> QED BY <2>3, <2>4, <2>5 DEF Sizes
<1>2. SessionInv /\ Sizes /\ [Next]_vars => Sizes'
  <2> SUFFICES ASSUME SessionInv, Sizes, [Next]_vars PROVE Sizes'
    OBVIOUS
  <2> USE DEF callVars, opVars
  <2>0. <<>> \in Seq(Value) /\ Layers \in Nat \ {0} /\ pos \in Nat /\ Len(input) \in Nat /\ input \in Seq(Tokens)
    BY SessionAssumption, WholeType DEF SessionAssumption, SessionInv, Types
  <2>1. ASSUME UNCHANGED <<opt, layer, hidden>>, out' \in {out, <<>>}, thrown' \in BOOLEAN,
               Embedded' => Embedded /\ input' = input
        PROVE  Sizes'
    BY <2>0, <2>1 DEF Sizes
  <2>2. ASSUME NEW ts, NEW rest, Enter(ts, rest) PROVE Sizes'
    BY <2>1, <2>2 DEF Enter, Refuse, Embedded
  <2>3. ASSUME NEW ts, Prefill(ts) PROVE Sizes'
    BY <2>1, <2>3 DEF Prefill, Refuse, Embedded
  <2>4. CASE Reset \/ WriteRows \/ Throw \/ UNCHANGED vars
    BY <2>1, <2>4 DEF Reset, WriteRows, Throw, vars, Embedded, Sizes
  <2>5. CASE Embed
    <3>1. hidden' = input /\ input' = input /\ layer' = 0 /\ UNCHANGED <<opt, out, thrown>>
      BY <2>5 DEF Embed
    <3>2. input \in Seq(Value)
      <4> Tokens \subseteq Value
        BY DEF Value
      <4> HIDE DEF Value
      <4> QED BY <2>0
    <3> QED BY <2>0, <3>1, <3>2 DEF Sizes
  <2>6. CASE Attend
    <3>1. /\ hidden' = [t \in 1..Len(input) |-> Mix(layer, pos + t - 1)]
          /\ layer' = layer + 1 /\ UNCHANGED <<opt, input, out, thrown>> /\ layer \in 0..Layers-1
      BY <2>0, <2>6 DEF Attend, SessionInv, Progress, Embedded
    <3>2. \A t \in 1..Len(input) : Mix(layer, pos + t - 1) \in Value
      BY <2>0, MixType
    <3>3. hidden' \in Seq(Value) /\ Len(hidden') = Len(input)
      BY <2>0, <3>1, <3>2
    <3> QED BY <2>0, <3>1, <3>3 DEF Sizes
  <2>7. CASE Return
    <3>1. /\ out' = [i \in 1..Rows |-> hidden[Len(input) - Rows + i]]
          /\ UNCHANGED <<opt, input, layer, hidden, thrown>> /\ ~Embedded' /\ Embedded
      BY <2>7 DEF Return, Embedded
    <3>2. Rows \in 1..Len(input)
      BY <2>0, <2>7 DEF Return, Rows, SessionInv, WithinBounds, Running
    <3>3. hidden \in [1..Len(input) -> Value]
      BY <3>1 DEF Sizes
    <3>4. \A i \in 1..Rows : hidden[Len(input) - Rows + i] \in Value
      BY <2>0, <3>2, <3>3
    <3>5. out' \in Seq(Value)
      BY <2>0, <3>1, <3>2, <3>4
    <3> QED BY <3>1, <3>5 DEF Sizes
  <2> QED BY <2>2, <2>3, <2>4, <2>5, <2>6, <2>7 DEF Next, Step, Forward, Decode, NextChunk
<1>3. SessionInv /\ Sizes => TypeOK
  BY DEF SessionInv, Types, Sizes, TypeOK
<1> QED BY <1>1, <1>2, <1>3, SessionInvariant, PTL DEF Spec

\* The answer of a forward that returns.
LEMMA ReturnAnswers ==
  ASSUME SessionInv, Return
  PROVE  /\ Len(out') = Rows
         /\ \A i \in 1..Len(out') : out'[i] = Prefix(Text', pos' - Len(out') + i)
<1> DEFINE n == Len(input)
<1>0. /\ pos \in Nat /\ n \in Nat \ {0} /\ Rows \in 1..n /\ Layers \in Nat \ {0} /\ layer = Layers
      /\ pos' = pos + n
  BY SessionAssumption, WholeType DEF SessionAssumption, SessionInv, Types, WithinBounds, Running, Progress,
     Embedded, Return, Rows
<1>1. out' = [i \in 1..Rows |-> hidden[n - Rows + i]]
  BY DEF Return
<1>2. Len(out') = Rows
  BY <1>0, <1>1
<1>3. ASSUME NEW i \in 1..Rows PROVE out'[i] = Prefix(Text', pos' - Rows + i)
  <2> DEFINE t == n - Rows + i
  <2>1. t \in 1..n /\ pos + t - 1 + 1 = pos' - Rows + i
    BY <1>0
  <2>2. hidden[t] = Seen(layer, Whole, pos + t - 1)
    BY <2>1 DEF SessionInv, Progress, Embedded, Return
  <2>3. hidden[t] = Prefix(Whole, pos + t - 1 + 1)
    BY <1>0, <2>2 DEF Seen
  <2>4. out'[i] = hidden[t]
    BY <1>1
  <2> HIDE DEF t
  <2> QED BY <2>1, <2>3, <2>4, ReturnText
<1> QED BY <1>2, <1>3

\* For any model, sizes and calls: logits are of the conversation up to the token they follow.
THEOREM AnswersAlwaysOfTheText == Spec => AnswersAreOfTheText
<1> DEFINE Told ==
      out' # out /\ out' # <<>> =>
        /\ Len(out') = (IF opt.all THEN Len(input) ELSE 1)
        /\ \A i \in 1..Len(out') : out'[i] = Prefix(Text', pos' - Len(out') + i)
<1>1. SessionInv /\ [Next]_vars => [Told]_vars
  <2> SUFFICES ASSUME SessionInv, Next PROVE Told
    OBVIOUS
  <2>1. CASE Return
    BY <2>1, ReturnAnswers DEF Rows
  <2>2. ASSUME ~Return PROVE out' = out \/ out' = <<>>
    BY <2>2 DEF Next, Step, Forward, Decode, Prefill, NextChunk, Enter, Refuse, Reset, Embed, WriteRows, Attend, Throw
  <2> QED BY <2>1, <2>2
<1> QED BY <1>1, SessionInvariant, PTL DEF Spec, AnswersAreOfTheText
-----------------------------------------------------------------------------
(* A session implements a conversation                                    *)

\* The tokens of a forward, and what a prefill has left, are pieces of a client's call.
Cut ==
  /\ Running => input \in Cuts
  /\ todo = <<>> \/ todo \in Cuts
-----------------------------------------------------------------------------
(* Pieces                                                                  *)

\* What clients pass are sequences of tokens.
LEMMA SaidType == \A s \in Said : s \in Seq(Tokens)
<1> SUFFICES ASSUME NEW s \in Said PROVE s \in Seq(Tokens)
  OBVIOUS
<1>1. CASE s \in Calls
  BY <1>1, SessionAssumption DEF SessionAssumption
<1>2. CASE s \in {<<t>> : t \in Tokens}
  <2> PICK t \in Tokens : s = <<t>>
    BY <1>2
  <2> <<t>> \in Seq(Tokens)
    OBVIOUS
  <2> QED OBVIOUS
<1> QED BY <1>1, <1>2 DEF Said

\* What makes a piece.
LEMMA CutIntro ==
  ASSUME NEW s \in Said, NEW i \in 1..Len(s), NEW j \in 1..Len(s)
  PROVE  SubSeq(s, i, j) \in Cuts
<1>1. SubSeq(s, i, j) \in Pieces(s)
  BY DEF Pieces
<1> HIDE DEF Pieces
<1>2. Pieces(s) \in {Pieces(q) : q \in Said}
  OBVIOUS
<1> QED BY <1>1, <1>2 DEF Cuts

\* What a piece is made of.
LEMMA CutElim ==
  ASSUME NEW ts \in Cuts
  PROVE  \E s \in Said : \E i \in 1..Len(s) : \E j \in 1..Len(s) : ts = SubSeq(s, i, j)
<1> PICK P \in {Pieces(q) : q \in Said} : ts \in P
  BY DEF Cuts
<1> PICK s \in Said : P = Pieces(s)
  OBVIOUS
<1>1. ts \in {SubSeq(s, i, j) : i, j \in 1..Len(s)}
  BY DEF Pieces
<1> QED BY <1>1

\* Pieces are sequences of tokens.
LEMMA CutsAreTexts == \A ts \in Cuts : ts \in Seq(Tokens)
<1> SUFFICES ASSUME NEW ts \in Cuts PROVE ts \in Seq(Tokens)
  OBVIOUS
<1> PICK s \in Said : \E i \in 1..Len(s) : \E j \in 1..Len(s) : ts = SubSeq(s, i, j)
  BY CutElim
<1> PICK i \in 1..Len(s) : \E j \in 1..Len(s) : ts = SubSeq(s, i, j)
  OBVIOUS
<1> PICK j \in 1..Len(s) : ts = SubSeq(s, i, j)
  OBVIOUS
<1>1. s \in Seq(Tokens)
  BY SaidType
<1>2. i \in Int /\ j \in Int /\ \A k \in i..j : s[k] \in Tokens
  BY <1>1
<1>3. SubSeq(s, i, j) \in Seq(Tokens)
  BY <1>2, SubSeqProperties
<1> QED BY <1>3

\* A call that is not empty is a piece of itself.
LEMMA WholeCallIsCut ==
  ASSUME NEW s \in Said, s # <<>>
  PROVE  s \in Cuts
<1>1. s \in Seq(Tokens)
  BY SaidType
<1>2. 1 \in 1..Len(s) /\ Len(s) \in 1..Len(s)
  BY <1>1
<1>3. SubSeq(s, 1, Len(s)) = s
  BY <1>1, SubSeqFull
<1>4. SubSeq(s, 1, Len(s)) \in Cuts
  BY <1>2, CutIntro
<1> QED BY <1>3, <1>4

\* A piece of a piece is a piece.
LEMMA CutOfCut ==
  ASSUME NEW ts \in Cuts, NEW m \in 1..Len(ts), NEW n \in 1..Len(ts)
  PROVE  SubSeq(ts, m, n) \in Cuts
<1> PICK s \in Said : \E i \in 1..Len(s) : \E j \in 1..Len(s) : ts = SubSeq(s, i, j)
  BY CutElim
<1> PICK i \in 1..Len(s) : \E j \in 1..Len(s) : ts = SubSeq(s, i, j)
  OBVIOUS
<1> PICK j \in 1..Len(s) : ts = SubSeq(s, i, j)
  OBVIOUS
<1>1. s \in Seq(Tokens) /\ Len(s) \in Nat
  BY SaidType
<1>2. Len(ts) = IF i <= j THEN j - i + 1 ELSE 0
  BY <1>1, SubSeqProperties
<1>3. m \in 1..j-i+1 /\ n \in 1..j-i+1
  BY <1>1, <1>2
<1>4. SubSeq(ts, m, n) = SubSeq(s, i + m - 1, i + n - 1)
  BY <1>1, <1>3, SubSeqOfSubSeq
<1>5. i + m - 1 \in 1..Len(s) /\ i + n - 1 \in 1..Len(s)
  BY <1>1, <1>3
<1>6. SubSeq(s, i + m - 1, i + n - 1) \in Cuts
  BY <1>5, CutIntro
<1> QED BY <1>4, <1>6

\* A turn of prefill's loop takes a piece and leaves a piece, or nothing.
LEMMA ChunksAreCuts ==
  ASSUME NEW ts \in Cuts, NEW m \in 1..Len(ts)
  PROVE  /\ SubSeq(ts, 1, m) \in Cuts
         /\ SubSeq(ts, m + 1, Len(ts)) = <<>> \/ SubSeq(ts, m + 1, Len(ts)) \in Cuts
<1>1. ts \in Seq(Tokens) /\ Len(ts) \in Nat
  BY CutsAreTexts
<1>2. SubSeq(ts, 1, m) \in Cuts
  BY <1>1, CutOfCut
<1>3. CASE m < Len(ts)
  <2> m + 1 \in 1..Len(ts) /\ Len(ts) \in 1..Len(ts)
    BY <1>1, <1>3
  <2> QED BY <1>2, CutOfCut
<1>4. CASE m = Len(ts)
  <2> m + 1 \in Int /\ Len(ts) \in Int /\ Len(ts) < m + 1
    BY <1>1, <1>4
  <2> QED BY <1>2, SubSeqEmpty
<1> QED BY <1>1, <1>3, <1>4

\* Every step keeps to the pieces.
LEMMA CutNext == SessionInv /\ Cut /\ [Next]_vars => Cut'
<1> SUFFICES ASSUME SessionInv, Cut, [Next]_vars PROVE Cut'
  OBVIOUS
<1>1. ASSUME NEW ts \in Said, Forward(ts) PROVE Cut'
  <2>1. CASE Refuse
    BY <2>1 DEF Refuse, Cut, Running, callVars
  <2>2. CASE Accepts(ts) /\ input' = ts /\ todo' = <<>>
    <3> ts # <<>>
      BY <2>2 DEF Accepts
    <3> ts \in Cuts
      BY WholeCallIsCut
    <3> QED BY <2>2 DEF Cut
  <2> QED BY <1>1, <2>1, <2>2 DEF Forward, Enter
<1>2. ASSUME NEW ts \in Calls, Prefill(ts) PROVE Cut'
  <2>1. CASE ts = <<>>
    BY <1>2, <2>1 DEF Prefill, Refuse, Cut, Running, callVars
  <2>2. CASE ts # <<>>
    BY <1>2, <2>2, WholeCallIsCut DEF Prefill, Cut, Running, Said
  <2> QED BY <2>1, <2>2
<1>3. CASE NextChunk
  <2> DEFINE m == Least(opt.batch, Len(todo))
             ts == SubSeq(todo, 1, m)
             rest == SubSeq(todo, m + 1, Len(todo))
  <2>1. Enter(ts, rest)
    BY <1>3 DEF NextChunk
  <2>2. CASE Refuse
    BY <2>2 DEF Refuse, Cut, Running, callVars
  <2>3. CASE Accepts(ts) /\ input' = ts /\ todo' = rest
    <3>1. todo \in Seq(Tokens) /\ opt.batch \in Nat /\ m \in 0..Len(todo)
      BY DEF SessionInv, Types, Least
    <3> HIDE DEF m
    <3>2. \A k \in 1..m : todo[k] \in Tokens
      BY <3>1
    <3>3. Len(ts) = IF 1 <= m THEN m - 1 + 1 ELSE 0
      BY <3>1, <3>2, SubSeqProperties
    <3>4. m \in 1..Len(todo)
      BY <2>3, <3>1, <3>3 DEF Accepts
    <3>5. todo \in Cuts
      BY <3>4 DEF Cut
    <3>6. ts \in Cuts /\ (rest = <<>> \/ rest \in Cuts)
      BY <3>4, <3>5, ChunksAreCuts
    <3> QED BY <2>3, <3>6 DEF Cut
  <2> QED BY <2>1, <2>2, <2>3 DEF Enter
<1>4. CASE Reset \/ Embed \/ WriteRows \/ Attend \/ Return \/ Throw \/ UNCHANGED vars
  BY <1>4 DEF Reset, Embed, WriteRows, Attend, Return, Throw, vars, callVars, Cut, Running
<1>5. ASSUME NEW tok \in Tokens, Decode(tok) PROVE Cut'
  <2> <<tok>> \in Said
    BY DEF Said
  <2> QED BY <1>1, <1>5 DEF Decode
<1> QED BY <1>1, <1>2, <1>3, <1>4, <1>5 DEF Next, Step, Said

\* They hold always.
LEMMA CutInvariant == Spec => []Cut
<1>1. Init => Cut
  BY DEF Init, Cut, Running
<1> QED BY <1>1, CutNext, SessionInvariant, PTL DEF Spec
-----------------------------------------------------------------------------
(* Steps                                                                   *)

\* A forward writes rows at and above pos: the text stays.
LEMMA WriteKeepsText == ASSUME SessionInv, WriteRows PROVE Text' = Text
<1>1. /\ pos \in Nat /\ Len(input) \in Nat /\ pos + Len(input) <= opt.ctx /\ opt.ctx \in Nat
      /\ layer \in 0..Layers-1 /\ Layers \in Nat \ {0}
  BY SessionAssumption, WholeType
     DEF SessionAssumption, SessionInv, Types, WithinBounds, Running, Progress, Embedded, WriteRows
<1>2. ASSUME NEW i \in 1..pos PROVE kv'[0][i-1] = kv[0][i-1]
  <2> DEFINE p == i - 1
  <2>1. p \in 0..opt.ctx-1 /\ p \notin pos..pos+Len(input)-1 /\ 0 \in 0..Layers-1
    BY <1>1
  <2> HIDE DEF p
  <2>2. kv \in [0..Layers-1 -> [0..opt.ctx-1 -> Value]]
    BY DEF SessionInv, Types
  <2>3. kv'[0][p] = kv[0][p]
    BY <1>1, <2>1, <2>2 DEF WriteRows
  <2> QED BY <2>3 DEF p
<1> QED BY <1>2 DEF Text, WriteRows

\* The whole text is the conversation's and then the tokens of the forward in progress.
LEMMA WholeIsConcat ==
  ASSUME SessionInv
  PROVE  /\ Text \in Seq(Tokens) /\ Len(Text) = pos
         /\ Whole \in Seq(Tokens) /\ Len(Whole) = pos + Len(input)
         /\ Text \o input = Whole
<1> DEFINE n == Len(input)
<1>0. pos \in Nat /\ n \in Nat /\ input \in Seq(Tokens)
  BY WholeType DEF SessionInv, Types
<1>1. Text \in [1..pos -> Tokens] /\ Text \in Seq(Tokens) /\ Len(Text) = pos
  <2> \A i \in 1..pos : Text[i] \in Tokens
    BY <1>0, WholeType DEF SessionInv
  <2> Text \in [1..pos -> Tokens]
    BY DEF Text
  <2> QED BY <1>0
<1>2. Whole \in [1..pos+n -> Tokens] /\ Whole \in Seq(Tokens) /\ Len(Whole) = pos + n
  <2>1. Whole \in [1..pos+n -> Tokens]
    BY WholeType DEF SessionInv
  <2> HIDE DEF n
  <2> QED BY <1>0, <2>1
<1>3. Text \o input = Whole
  <2> DEFINE both == Text \o input
  <2>1. both \in Seq(Tokens) /\ Len(both) = pos + n
    BY <1>0, <1>1
  <2>2. ASSUME NEW i \in 1..pos+n PROVE both[i] = Whole[i]
    <3>1. CASE i <= pos
      <4> i \in 1..pos
        BY <3>1
      <4> both[i] = Text[i]
        BY <1>0, <1>1
      <4> QED BY WholeType DEF SessionInv
    <3>2. CASE ~(i <= pos)
      <4> DEFINE t == i - pos
      <4> t \in 1..n /\ i = pos + t
        BY <1>0, <3>2
      <4> both[i] = input[t]
        BY <1>0, <1>1
      <4> HIDE DEF t
      <4> QED BY WholeType DEF SessionInv
    <3> QED BY <3>1, <3>2
  <2> HIDE DEF both
  <2>3. both = Whole
    BY <2>1, <2>2, <1>2
  <2> QED BY <2>3 DEF both
<1> QED BY <1>1, <1>2, <1>3

\* A forward that returns says its tokens.
LEMMA ReturnSays == ASSUME SessionInv, Cut, Return PROVE C!Say(input) /\ input \in Cuts
<1> DEFINE n == Len(input)
<1>0. /\ pos \in Nat /\ n \in Nat \ {0} /\ Rows \in {1, n} /\ pos' = pos + n /\ pos + n <= opt.ctx
      /\ input \in Seq(Tokens) /\ opt' = opt /\ input \in Cuts
  BY WholeType DEF SessionInv, Types, WithinBounds, Running, Return, Rows, Cut
<1>1. /\ Text \in Seq(Tokens) /\ Len(Text) = pos
      /\ Whole \in Seq(Tokens) /\ Len(Whole) = pos + n /\ Text \o input = Whole
  BY WholeIsConcat
<1>2. Text' = Whole
  BY ReturnText
<1>3. out' = C!Contexts(Text', Rows)
  <2>1. out' = [i \in 1..Rows |-> out'[i]]
    BY DEF Return
  <2>2. ASSUME NEW i \in 1..Rows PROVE out'[i] = SubSeq(Whole, 1, Len(Whole) - Rows + i)
    <3> DEFINE e == Len(Whole) - Rows + i
    <3>1. e \in 1..pos+n /\ e = pos' - Rows + i
      BY <1>0, <1>1
    <3>2. out'[i] = Prefix(Whole, e)
      BY <3>1, <1>2, ReturnAnswers
    <3> HIDE DEF e
    <3>3. SubSeq(Whole, 1, e) = Prefix(Whole, e)
      BY <1>1, <3>1 DEF Prefix
    <3> QED BY <3>2, <3>3 DEF e
  <2>3. C!Contexts(Whole, Rows) = [i \in 1..Rows |-> SubSeq(Whole, 1, Len(Whole) - Rows + i)]
    BY DEF C!Contexts
  <2> QED BY <1>2, <2>1, <2>2, <2>3
<1>4. input # <<>> /\ Len(Text) + n <= opt.ctx
  BY <1>0, <1>1
<1> QED BY <1>0, <1>1, <1>2, <1>3, <1>4 DEF C!Say

\* Every step of a session is one of its conversation, or leaves it as it is.
LEMMA StepRefines == SessionInv /\ Cut /\ [Next]_vars => [C!Next]_C!vars
<1> SUFFICES ASSUME SessionInv, Cut, [Next]_vars PROVE [C!Next]_C!vars
  OBVIOUS
<1>1. CASE UNCHANGED <<opt, pos, kv, out>>
  BY <1>1 DEF C!vars, Text
<1>2. ASSUME NEW ts, NEW rest, Enter(ts, rest) PROVE UNCHANGED <<opt, pos, kv, out>> \/ C!Drop
  BY <1>2 DEF Enter, Refuse, C!Drop, Text
<1>3. ASSUME NEW ts, Forward(ts) \/ Prefill(ts) PROVE UNCHANGED <<opt, pos, kv, out>> \/ C!Drop
  BY <1>2, <1>3 DEF Forward, Prefill, Refuse
<1>4. CASE NextChunk
  BY <1>1, <1>2, <1>4 DEF NextChunk, C!Next
<1>5. CASE Embed \/ Attend \/ Throw \/ UNCHANGED vars
  BY <1>1, <1>5 DEF Embed, Attend, Throw, vars
<1>6. CASE WriteRows
  BY <1>6, WriteKeepsText DEF WriteRows, C!vars
<1>7. CASE Reset
  <2> Text' = <<>>
    BY <1>7 DEF Reset, Text
  <2> QED BY <1>7 DEF Reset, C!Next, C!Reset
<1>8. CASE Return
  BY <1>8, ReturnSays DEF C!Next
<1>9. ASSUME NEW tok \in Tokens, Decode(tok) PROVE UNCHANGED <<opt, pos, kv, out>> \/ C!Drop
  BY <1>3, <1>9 DEF Decode
<1> QED BY <1>1, <1>3, <1>4, <1>5, <1>6, <1>7, <1>8, <1>9 DEF Next, Step, C!Next
-----------------------------------------------------------------------------
(* The refinement                                                          *)

\* For any model, sizes and calls: to its clients a session, whose prefills are cut into chunks and whose
\* calls may fail in any op, is a text that grows by whole pieces and is answered at its end.
THEOREM SessionImplementsConversation == Spec => ImplementsConversation
<1>1. Init => C!Init
  <2> SUFFICES ASSUME Init PROVE C!Init
    OBVIOUS
  <2>1. opt.ctx \in Int
    BY SessionInvInit DEF SessionInv, Types
  <2>2. Text = <<>>
    BY DEF Init, Text
  <2> QED BY <2>1, <2>2 DEF Init, C!Init
<1> QED BY <1>1, StepRefines, SessionInvariant, CutInvariant, PTL DEF Spec, ImplementsConversation, C!Spec
-----------------------------------------------------------------------------
(* A call says all of its tokens                                           *)

\* Between forwards a refusal or an exception leaves the text alone.
LEMMA RefuseKeepsText == ASSUME Refuse \/ Throw PROVE phase' = "idle" /\ thrown' /\ Text' = Text
  BY DEF Refuse, Throw, Text

\* A chunk and what is left after it are what was left before.
LEMMA ChunkSays ==
  ASSUME SessionInv, NextChunk
  PROVE  Saying' = Saying \/ (thrown' /\ Text' = Text)
<1> DEFINE m == Least(opt.batch, Len(todo))
           ts == SubSeq(todo, 1, m)
           rest == SubSeq(todo, m + 1, Len(todo))
<1>1. todo \in Seq(Tokens) /\ m \in 0..Len(todo) /\ phase = "chunk"
  BY DEF SessionInv, Types, Least, NextChunk
<1>2. ts \o rest = todo
  <2> HIDE DEF m
  <2>1. ts \o rest = SubSeq(todo, 1, Len(todo))
    <3> 1 \in 1..Len(todo)+1 /\ m \in 1-1..Len(todo) /\ Len(todo) \in m..Len(todo)
      BY <1>1
    <3> QED BY <1>1, ConcatAdjacentSubSeq
  <2> QED BY <1>1, <2>1, SubSeqFull
<1>3. CASE Refuse
  BY <1>3, RefuseKeepsText
<1>4. CASE Accepts(ts) /\ phase' = "embed" /\ input' = ts /\ todo' = rest /\ UNCHANGED <<pos, kv>>
  <2> HIDE DEF ts, rest
  <2>1. Text' = Text /\ Ahead = todo /\ Ahead' = ts \o rest
    BY <1>1, <1>4 DEF Text, Ahead, Running
  <2> QED BY <1>2, <2>1 DEF Saying
<1>5. Enter(ts, rest)
  BY DEF NextChunk
<1> QED BY <1>3, <1>4, <1>5 DEF Enter

\* What a forward in hand has not added yet, it adds when it returns.
LEMMA ReturnAdds == ASSUME SessionInv, Return PROVE Saying' = Saying
<1>1. /\ Text' = Text \o input /\ Text \in Seq(Tokens) /\ input \in Seq(Tokens) /\ todo \in Seq(Tokens)
      /\ Text' \in Seq(Tokens)
  BY ReturnText, WholeIsConcat DEF SessionInv, Types
<1>2. Ahead = input \o todo /\ Ahead' = todo
  BY DEF Return, Ahead, Running, callVars
<1>3. Saying = (Text \o input) \o todo
  <2>1. Saying = Text \o (input \o todo)
    BY <1>2 DEF Saying
  <2>2. \A x, y, z \in Seq(Tokens) : x \o (y \o z) = (x \o y) \o z
    BY ConcatAssociative
  <2>3. Text \in Seq(Tokens) /\ input \in Seq(Tokens) /\ todo \in Seq(Tokens)
    BY <1>1
  <2>4. Text \o (input \o todo) = (Text \o input) \o todo
    BY <2>2, <2>3
  <2> QED BY <2>1, <2>4
<1> QED BY <1>1, <1>2, <1>3 DEF Saying

\* For any model, sizes and calls: a call that returns has added its tokens, all of them, once and in order.
THEOREM CallsAlwaysSayAll == Spec => CallsSayAll
<1> DEFINE Told ==
      \/ phase = "idle" /\ phase' = "idle" /\ Text' \in {Text, <<>>}
      \/ phase = "idle" /\ phase' # "idle" /\ \E ts \in Said : Saying' = Text \o ts
      \/ phase # "idle" /\ Saying' = Saying
      \/ phase # "idle" /\ thrown' /\ Text' = Text
<1>1. SessionInv /\ [Next]_vars => [Told]_vars
  <2> SUFFICES ASSUME SessionInv, Next PROVE Told
    OBVIOUS
  <2>1. ASSUME NEW ts \in Said, Forward(ts) PROVE Told
    <3>1. CASE Refuse
      BY <2>1, <3>1, RefuseKeepsText DEF Forward
    <3>2. CASE phase' = "embed" /\ input' = ts /\ todo' = <<>> /\ UNCHANGED <<pos, kv>>
      <4>1. Text' = Text /\ Ahead' = ts \o <<>>
        BY <3>2 DEF Text, Ahead, Running
      <4>2. ts \o <<>> = ts
        BY SaidType, ConcatEmptySeq
      <4>3. Saying' = Text \o ts
        BY <4>1, <4>2 DEF Saying
      <4> QED BY <2>1, <3>2, <4>3 DEF Forward
    <3> QED BY <2>1, <3>1, <3>2 DEF Forward, Enter
  <2>2. ASSUME NEW ts \in Calls, Prefill(ts) PROVE Told
    <3>1. CASE Refuse
      BY <2>2, <3>1, RefuseKeepsText DEF Prefill
    <3>2. CASE phase' = "chunk" /\ todo' = ts /\ UNCHANGED <<pos, kv>>
      <4>1. Text' = Text /\ Ahead' = ts /\ ts \in Said
        BY <3>2 DEF Text, Ahead, Running, Said
      <4>2. Saying' = Text \o ts
        BY <4>1 DEF Saying
      <4> QED BY <2>2, <3>2, <4>1, <4>2 DEF Prefill
    <3> QED BY <2>2, <3>1, <3>2 DEF Prefill
  <2>3. ASSUME NEW tok \in Tokens, Decode(tok) PROVE Told
    <3> <<tok>> \in Said
      BY DEF Said
    <3> QED BY <2>1, <2>3 DEF Decode
  <2>4. CASE Reset
    <3>1. Text' = <<>>
      BY <2>4 DEF Reset, Text
    <3> QED BY <2>4, <3>1 DEF Reset
  <2>5. CASE NextChunk
    <3>1. phase = "chunk"
      BY <2>5 DEF NextChunk
    <3> QED BY <2>5, <3>1, ChunkSays
  <2>6. CASE Embed \/ WriteRows \/ Attend
    <3>1. Text' = Text
      BY <2>6, WriteKeepsText DEF Embed, Attend, Text
    <3>2. Ahead' = Ahead /\ phase # "idle"
      BY <2>6 DEF Embed, WriteRows, Attend, Ahead, Running, callVars
    <3> QED BY <3>1, <3>2 DEF Saying
  <2>7. CASE Return
    <3>1. phase # "idle"
      BY <2>7 DEF Return
    <3> QED BY <2>7, <3>1, ReturnAdds
  <2>8. CASE Throw
    <3>1. phase # "idle"
      BY <2>8 DEF Throw
    <3> QED BY <2>8, <3>1, RefuseKeepsText
  <2>9. ASSUME NEW ts \in Calls, Forward(ts) PROVE Told
    BY <2>1, <2>9 DEF Said
  <2> HIDE DEF Told
  <2> QED BY <2>2, <2>3, <2>4, <2>5, <2>6, <2>7, <2>8, <2>9 DEF Next, Step
<1> QED BY <1>1, SessionInvariant, PTL DEF Spec, CallsSayAll
-----------------------------------------------------------------------------
(* The commands                                                            *)

\* What the conversation comes to when the call is answered.
Goal ==
  CASE job.name \in {"run", "bench"} -> job.ids \o said
    [] job.name = "eval"   -> Window
    [] job.name = "logits" ->
         SubSeq(job.ids, 1, IF from = 0 /\ Prefilled(job) > 0 THEN Prefilled(job) ELSE from + 1)

\* The first n tokens of the conversation are the goal's, and those of ts follow in it.
Agrees(n) == \A i \in 1..n : kv[0][i-1] = Goal[i]
Follows(ts, n) == \A i \in 1..Len(ts) : ts[i] = Goal[n + i]
Reached == pos = Len(Goal) /\ Agrees(pos)

ClientTypes ==
  /\ job \in Jobs /\ opt = Clamp(Asked(job))
  /\ said \in Seq(Tokens) /\ next \in Tokens
  /\ from \in Int /\ (job.name \in {"eval", "logits"} => from \in Nat)

\* During a call: the conversation, the tokens of the forward and those to come make the goal.
Talking ==
  at = "reply" =>
    /\ phase # "idle" => ~thrown
    /\ phase = "chunk" =>
         /\ pos + Len(todo) = Len(Goal) /\ Len(todo) > 0
         /\ Agrees(pos) /\ Follows(todo, pos)
         /\ job.name \in {"run", "bench"}
    /\ Running =>
         /\ pos + Len(input) + Len(todo) = Len(Goal)
         /\ Agrees(pos) /\ Follows(input, pos) /\ Follows(todo, pos + Len(input))
         /\ job.name = "eval" => pos = 0 /\ todo = <<>>
         /\ job.name = "logits" => pos = from /\ todo = <<>>
    /\ phase = "idle" /\ ~thrown => Reached /\ (job.name = "logits" => pos = from + Len(input))

\* Between calls, and what the arguments and the session's limits have been found to allow.
Between ==
  /\ at # "reply" => phase = "idle"
  /\ job.name = "run" =>
       /\ at \in {"start", "reply", "use", "done", "error"}
       /\ Len(said) <= job.n
       /\ at = "start" => pos = 0 /\ said = <<>>
       /\ at \in {"reply", "use"} => RoomForRun
       /\ at = "use" => Reached
  /\ job.name = "bench" =>
       /\ at \in {"start", "feed", "reply", "use", "done", "error"}
       /\ Len(said) <= job.n
       /\ at \in {"start", "feed"} => said = <<>>
       /\ at = "feed" => pos = 0
       /\ at = "use" => Reached
  /\ job.name = "eval" =>
       /\ at \in {"start", "feed", "reply", "done", "error"}
       /\ at \in {"feed", "reply"} => from + 1 < Len(job.ids)
       /\ at = "feed" => pos = 0
  /\ job.name = "logits" =>
       /\ at \in {"start", "reply", "use", "done", "error"}
       /\ at = "start" => pos = 0 /\ from = 0
       /\ at = "reply" => from < Len(job.ids)
       /\ at = "use" =>
            /\ from <= Len(job.ids) /\ pos = from /\ \A i \in 1..from : kv[0][i-1] = job.ids[i]
            /\ from = 0 => Prefilled(job) = 0

\* A command that fails, or is about to, could not be served.
Failing == at = "error" \/ (at = "reply" /\ phase = "idle" /\ thrown)
Fate == Failing => ~Fits /\ (job.name = "run" => said = <<>>)

CommandsInv ==
  SessionInv /\ ClientTypes /\ Talking /\ Between /\ Fate /\ AnswersAreDue /\ RunStops
-----------------------------------------------------------------------------
(* Arguments, limits and goals                                             *)

\* What the arguments are.
LEMMA JobType ==
  ASSUME ClientTypes
  PROVE  /\ job.name \in {"run", "bench", "eval", "logits"} /\ job.ids \in Seq(Tokens)
         /\ job.n \in Nat /\ job.batch \in Nat /\ job.ctx \in Nat /\ job.eos \in BOOLEAN
         /\ Len(job.ids) \in Nat /\ Len(said) \in Nat /\ MaxSeq \in Nat
         /\ Asked(job) \in [ctx : Nat \ {0}, batch : Nat \ {0}, all : BOOLEAN]
<1>1. /\ job \in [name : {"run", "bench", "eval", "logits"}, ids : Seq(Tokens), n : Nat,
                  batch : Nat, ctx : Nat, eos : BOOLEAN]
      /\ Asked(job) \in Options
  BY CommandsAssumption DEF CommandsAssumption, ClientTypes
<1>2. Asked(job) \in [ctx : Nat \ {0}, batch : Nat \ {0}, all : BOOLEAN] /\ MaxSeq \in Nat
  BY <1>1, SessionAssumption DEF SessionAssumption
<1> QED BY <1>1, <1>2 DEF ClientTypes

\* The limits that the commands come to, once the constructor has clamped them.
LEMMA Limits ==
  ASSUME ClientTypes
  PROVE  /\ opt.ctx \in Nat /\ opt.batch \in Nat /\ (opt.ctx > 0 => opt.batch > 0)
         /\ job.name = "run" => ~opt.all /\ opt.ctx = Least(job.ctx, MaxSeq)
         /\ job.name = "bench" => ~opt.all /\ opt.ctx = Least(Len(job.ids) + job.n + 8, MaxSeq) /\ Len(job.ids) > 0
         /\ job.name = "eval" => opt.all /\ opt.ctx = Least(job.n, MaxSeq) /\ opt.batch = opt.ctx /\ job.n > 0
         /\ job.name = "logits" =>
              /\ opt.all /\ opt.ctx = Least(Len(job.ids) + 1, MaxSeq)
              /\ Prefilled(job) <= opt.ctx => Prefilled(job) <= opt.batch
<1> DEFINE o == Asked(job)
<1>1. /\ o.ctx \in Nat \ {0} /\ o.batch \in Nat \ {0} /\ MaxSeq \in Nat /\ Len(job.ids) \in Nat /\ job.n \in Nat
      /\ job.name \in {"run", "bench", "eval", "logits"} /\ job.batch \in Nat /\ job.ctx \in Nat
  BY JobType
<1>2. /\ opt.ctx = Least(o.ctx, MaxSeq) /\ opt.batch = Least(o.batch, Least(o.ctx, MaxSeq)) /\ opt.all = o.all
  BY DEF ClientTypes, Clamp
<1>3. /\ job.name = "run" => o.all = FALSE /\ o.ctx = job.ctx
      /\ job.name = "bench" => /\ o.all = FALSE /\ o.ctx = Len(job.ids) + job.n + 8
                               /\ o.batch = Least(Len(job.ids), job.batch)
      /\ job.name = "eval" => o.all = TRUE /\ o.ctx = job.n /\ o.batch = job.n
      /\ job.name = "logits" => /\ o.all = TRUE /\ o.ctx = Len(job.ids) + 1
                                /\ o.batch = IF Prefilled(job) > 1 THEN Prefilled(job) ELSE 1
  BY <1>1 DEF Asked, RunOptions, BenchOptions, EvalOptions, LogitsOptions
<1> HIDE DEF o
<1> QED BY <1>1, <1>2, <1>3 DEF Least, Prefilled

\* The goal of run and bench, of eval and of logits, token by token.
LEMMA RunGoal ==
  ASSUME ClientTypes, job.name \in {"run", "bench"}
  PROVE  /\ Goal = job.ids \o said /\ Len(Goal) = Len(job.ids) + Len(said)
         /\ Goal \in Seq(Tokens)
         /\ said = <<>> => Goal = job.ids
<1>1. job.ids \in Seq(Tokens) /\ said \in Seq(Tokens)
  BY JobType DEF ClientTypes
<1>2. Goal = job.ids \o said
  BY DEF Goal
<1>3. said = <<>> => job.ids \o said = job.ids
  BY <1>1, ConcatEmptySeq
<1>4. job.ids \o said \in Seq(Tokens) /\ Len(job.ids \o said) = Len(job.ids) + Len(said)
  BY <1>1
<1> QED BY <1>2, <1>3, <1>4

\* What eval wants scored is its window of the text.
LEMMA EvalGoal ==
  ASSUME ClientTypes, job.name = "eval", from + 1 < Len(job.ids)
  PROVE  /\ Goal = Window /\ Goal \in Seq(Tokens)
         /\ Len(Goal) = Least(from + job.n, Len(job.ids)) - from /\ Len(Goal) > 0
         /\ \A i \in 1..Len(Goal) : Goal[i] = job.ids[from + i]
<1> DEFINE m == Least(from + job.n, Len(job.ids))
<1>1. from \in Nat /\ job.ids \in Seq(Tokens) /\ job.n \in Nat \ {0} /\ Len(job.ids) \in Nat
  BY JobType, Limits DEF ClientTypes
<1>2. m \in from+1..Len(job.ids)
  BY <1>1 DEF Least
<1>3. Goal = SubSeq(job.ids, from + 1, m) /\ Goal = Window
  BY DEF Goal, Window
<1> HIDE DEF m
<1> QED BY <1>1, <1>2, <1>3 DEF m

\* What a logits dump wants is the text up to its next row.
LEMMA LogitsGoal ==
  ASSUME ClientTypes, job.name = "logits", from < Len(job.ids)
  PROVE  LET m == IF from = 0 /\ Prefilled(job) > 0 THEN Prefilled(job) ELSE from + 1
         IN  /\ Goal = SubSeq(job.ids, 1, m) /\ Goal \in Seq(Tokens)
             /\ m \in from+1..Len(job.ids) /\ Len(Goal) = m
             /\ \A i \in 1..m : Goal[i] = job.ids[i]
<1> DEFINE m == IF from = 0 /\ Prefilled(job) > 0 THEN Prefilled(job) ELSE from + 1
<1>1. from \in Nat /\ job.ids \in Seq(Tokens) /\ job.n \in Nat /\ Len(job.ids) \in Nat
  BY JobType DEF ClientTypes
<1>2. m \in from+1..Len(job.ids)
  BY <1>1 DEF Prefilled, Least
<1>3. Goal = SubSeq(job.ids, 1, m)
  BY DEF Goal
<1> HIDE DEF m
<1>4. Goal \in Seq(Tokens) /\ Len(Goal) = m /\ \A i \in 1..m : Goal[i] = job.ids[i]
  BY <1>1, <1>2, <1>3
<1> QED BY <1>2, <1>3, <1>4 DEF m
-----------------------------------------------------------------------------
(* Calls and the steps of the session                                      *)

\* A forward that begins talks towards the goal if its tokens are what comes next.
LEMMA Begun ==
  ASSUME pos \in Nat, NEW ts \in Seq(Tokens), NEW rest \in Seq(Tokens), Enter(ts, rest), at' = "reply",
         Accepts(ts) =>
           /\ pos + Len(ts) + Len(rest) = Len(Goal')
           /\ \A i \in 1..pos : kv[0][i-1] = Goal'[i]
           /\ \A i \in 1..Len(ts) : ts[i] = Goal'[pos + i]
           /\ \A i \in 1..Len(rest) : rest[i] = Goal'[pos + Len(ts) + i]
           /\ job'.name = "eval" => pos = 0 /\ rest = <<>>
           /\ job'.name = "logits" => pos = from' /\ rest = <<>>
  PROVE  Talking' /\ AnswersAreDue' /\ (Accepts(ts) => ~Failing')
<1>1. CASE ~Accepts(ts) /\ phase' = "idle" /\ thrown' = TRUE
  BY <1>1 DEF Talking, AnswersAreDue, Running
<1>2. CASE Accepts(ts) /\ phase' = "embed" /\ input' = ts /\ todo' = rest /\ thrown' = FALSE /\ UNCHANGED <<opt, pos, kv>>
  <2>1. pos' = pos /\ kv' = kv /\ phase' # "idle" /\ phase' # "chunk"
    BY <1>2
  <2> QED BY <1>2, <2>1 DEF Talking, AnswersAreDue, Failing, Agrees, Follows
<1> QED BY <1>1, <1>2 DEF Enter, Refuse

\* What the conversation holds below pos_ stays as long as pos_ does.
LEMMA OldTokensStay ==
  ASSUME SessionInv, WriteRows
  PROVE  \A i \in 1..pos : kv'[0][i-1] = kv[0][i-1]
<1> SUFFICES ASSUME NEW i \in 1..pos PROVE kv'[0][i-1] = kv[0][i-1]
  OBVIOUS
<1> DEFINE p == i - 1
<1>1. /\ pos \in 0..opt.ctx /\ opt.ctx \in Nat /\ kv \in [0..Layers-1 -> [0..opt.ctx-1 -> Value]]
      /\ 0 \in 0..Layers-1 /\ Len(input) \in Nat
  BY SessionAssumption, WholeType DEF SessionAssumption, SessionInv, Types
<1>2. p \in 0..opt.ctx-1 /\ p < pos
  BY <1>1
<1> HIDE DEF p
<1>3. kv' = [kv EXCEPT ![layer] = [q \in DOMAIN kv[layer] |->
              IF q \in pos..pos+Len(input)-1 THEN hidden[q - pos + 1] ELSE kv[layer][q]]]
  BY DEF WriteRows
<1>4. kv'[0][p] = kv[0][p]
  <2>1. CASE layer = 0
    BY <1>1, <1>2, <1>3, <2>1
  <2>2. CASE layer # 0
    BY <1>1, <1>3, <2>2
  <2> QED BY <2>1, <2>2
<1> QED BY <1>4 DEF p

\* The logits of a forward that returns are of prefixes of the conversation.
LEMMA ReturnRows ==
  ASSUME SessionInv, Return
  PROVE  /\ Rows \in 1..Len(input)
         /\ out' = [i \in 1..Rows |-> Prefix(Text', pos' - Rows + i)]
         /\ pos' = pos + Len(input)
         /\ \A i \in 1..pos' : Text'[i] = kv[0][i-1] /\ kv'[0][i-1] = kv[0][i-1]
         /\ \A i \in 1..Len(input) : kv[0][pos + i - 1] = input[i]
<1>0. pos \in Nat /\ Len(input) \in Nat /\ Rows \in 1..Len(input) /\ pos' = pos + Len(input) /\ kv' = kv
  BY SessionAssumption, WholeType DEF SessionAssumption, SessionInv, Types, WithinBounds, Running, Return, Rows
<1>1. Len(out') = Rows /\ \A i \in 1..Len(out') : out'[i] = Prefix(Text', pos' - Len(out') + i)
  BY ReturnAnswers
<1>2. out' = [i \in 1..Rows |-> out'[i]]
  BY DEF Return
<1>3. out' = [i \in 1..Rows |-> Prefix(Text', pos' - Rows + i)]
  BY <1>1, <1>2
<1>4. \A i \in 1..pos' : Text'[i] = kv[0][i-1]
  BY <1>0 DEF Text
<1>5. ASSUME NEW i \in 1..Len(input) PROVE kv[0][pos + i - 1] = input[i]
  <2>1. pos + i \in 1..pos'
    BY <1>0
  <2>2. Text'[pos + i] = input[i]
    BY ReturnText, WholeType DEF SessionInv
  <2> QED BY <1>0, <1>4, <2>1, <2>2
<1> QED BY <1>0, <1>3, <1>4, <1>5

\* When a call's last forward returns, the conversation has come to the goal.
LEMMA ReturnReaches ==
  ASSUME CommandsInv, Return, UNCHANGED <<clientVars, at>>
  PROVE  /\ at = "reply" /\ Goal' = Goal /\ Goal \in Seq(Tokens)
         /\ \A i \in 1..pos' : kv[0][i-1] = Goal[i] /\ Text'[i] = Goal[i]
         /\ pos' + Len(todo) = Len(Goal)
         /\ \A i \in 1..Len(todo) : todo[i] = Goal[pos' + i]
<1>1. at = "reply" /\ Running
  BY DEF CommandsInv, Between, Return, Running
<1>2. Goal' = Goal
  BY DEF Goal, clientVars, Window, Prefilled
<1>3. Goal \in Seq(Tokens)
  BY <1>1, JobType, RunGoal, EvalGoal, LogitsGoal DEF CommandsInv, Between
<1>4. /\ pos \in Nat /\ Len(input) \in Nat /\ Len(todo) \in Nat /\ pos' = pos + Len(input)
      /\ pos + Len(input) + Len(todo) = Len(Goal)
      /\ Agrees(pos) /\ Follows(input, pos) /\ Follows(todo, pos + Len(input))
  BY <1>1, ReturnRows DEF CommandsInv, Talking, SessionInv, Types
<1>5. ASSUME NEW i \in 1..pos' PROVE kv[0][i-1] = Goal[i] /\ Text'[i] = Goal[i]
  <2>1. CASE i <= pos
    <3> i \in 1..pos
      BY <1>4, <2>1
    <3> QED BY <1>4, ReturnRows DEF CommandsInv, Agrees
  <2>2. CASE ~(i <= pos)
    <3> DEFINE t == i - pos
    <3>1. t \in 1..Len(input) /\ pos + t = i /\ pos + t - 1 = i - 1
      BY <1>4, <2>2
    <3> HIDE DEF t
    <3>2. kv[0][pos + t - 1] = input[t] /\ input[t] = Goal[pos + t]
      BY <1>4, <3>1, ReturnRows DEF CommandsInv, Follows
    <3>3. kv[0][i - 1] = Goal[i]
      BY <3>1, <3>2
    <3>4. Text'[i] = kv[0][i-1]
      BY ReturnRows DEF CommandsInv
    <3> QED BY <3>3, <3>4
  <2> QED BY <2>1, <2>2
<1> QED BY <1>1, <1>2, <1>3, <1>4, <1>5 DEF Follows

\* The logits of a call that returns are those its command means.
LEMMA ReturnIsDue ==
  ASSUME CommandsInv, Return, UNCHANGED <<clientVars, at>>, todo = <<>>
  PROVE  out' = Due'
<1>0. /\ pos \in Nat /\ Len(input) \in Nat \ {0} /\ pos' = pos + Len(input) /\ Rows \in 1..Len(input)
      /\ out' = [i \in 1..Rows |-> Prefix(Text', pos' - Rows + i)]
      /\ input' = input /\ job' = job /\ said' = said /\ from' = from
      /\ Rows = IF opt.all THEN Len(input) ELSE 1
  BY ReturnRows DEF CommandsInv, SessionInv, Types, Return, Rows, callVars, clientVars
<1>a. pos \in Nat /\ Len(input) \in Nat /\ pos' = pos + Len(input)
  BY <1>0
<1>1. Goal \in Seq(Tokens) /\ pos' = Len(Goal) /\ \A i \in 1..pos' : Text'[i] = Goal[i]
  <2> Len(todo) = 0 /\ Len(Goal) \in Nat
    BY ReturnReaches
  <2> QED BY <1>0, ReturnReaches
<1>2. at = "reply" /\ Running
  BY DEF CommandsInv, Between, Return, Running
<1>3. CASE job.name \in {"run", "bench"}
  <2>1. Rows = 1 /\ Goal = job.ids \o said
    BY <1>0, <1>3, Limits, RunGoal DEF CommandsInv
  <2>2. Prefix(Text', pos') = Goal
    <3> Prefix(Text', pos') = [i \in 1..Len(Goal) |-> Goal[i]]
      BY <1>1 DEF Prefix
    <3> QED BY <1>1
  <2>3. out' = [i \in 1..1 |-> Goal]
    <3>1. \A i \in 1..1 : pos' - 1 + i = pos'
      BY <1>a
    <3>2. \A i \in 1..1 : Prefix(Text', pos' - 1 + i) = Goal
      BY <2>2, <3>1
    <3>3. out' = [i \in 1..1 |-> Prefix(Text', pos' - 1 + i)]
      BY <1>0, <2>1
    <3> QED BY <3>2, <3>3
  <2>4. [i \in 1..1 |-> Goal] = <<Goal>>
    OBVIOUS
  <2>5. Due' = <<job'.ids \o said'>>
    BY <1>0, <1>3 DEF Due
  <2> QED BY <1>0, <2>1, <2>3, <2>4, <2>5
<1>4. CASE job.name = "eval"
  <2>1. /\ Rows = Len(input) /\ pos = 0 /\ Len(input) = Len(Goal) /\ Goal = Window /\ from \in Nat
        /\ Len(Goal) = Least(from + job.n, Len(job.ids)) - from
        /\ \A i \in 1..Len(Goal) : Goal[i] = job.ids[from + i]
        /\ job.ids \in Seq(Tokens) /\ Len(job.ids) \in Nat /\ job.n \in Nat
    BY <1>0, <1>1, <1>2, <1>4, Limits, EvalGoal, JobType DEF CommandsInv, Talking, Between, ClientTypes
  <2>2. ASSUME NEW i \in 1..Len(Window) PROVE Prefix(Text', i) = SubSeq(job.ids, from + 1, from + i)
    <3>1. Prefix(Text', i) = [k \in 1..i |-> job.ids[from + k]]
      BY <1>0, <1>1, <2>1 DEF Prefix
    <3>2. SubSeq(job.ids, from + 1, from + i) = [k \in 1..i |-> job.ids[from + k]]
      <4> from + i <= Len(job.ids)
        BY <2>1 DEF Least
      <4> QED BY <2>1
    <3> QED BY <3>1, <3>2
  <2>3. \A i \in 1..Len(Window) : pos' - Rows + i = i
    BY <1>0, <2>1
  <2>4. Window' = Window
    BY <1>0 DEF Window
  <2>5. Due' = [i \in 1..Len(Window) |-> SubSeq(job.ids, from + 1, from + i)]
    BY <1>0, <1>4, <2>4 DEF Due
  <2> QED BY <1>0, <2>1, <2>2, <2>3, <2>5
<1>5. CASE job.name = "logits"
  <2>1. /\ Rows = Len(input) /\ pos = from /\ from + Len(input) = Len(Goal) /\ Len(Goal) <= Len(job.ids)
        /\ from \in Nat /\ \A i \in 1..Len(Goal) : Goal[i] = job.ids[i]
        /\ job.ids \in Seq(Tokens) /\ Len(job.ids) \in Nat
    <3>1. from \in Nat
      BY <1>1, <1>5 DEF CommandsInv, ClientTypes
    <3>2. job.ids \in Seq(Tokens) /\ Len(job.ids) \in Nat
      BY <1>1, JobType DEF CommandsInv, ClientTypes
    <3> QED BY <1>0, <1>1, <1>2, <1>5, <3>1, <3>2, Limits, LogitsGoal, JobType, SMTT(40)
          DEF CommandsInv, Talking, Between, ClientTypes
  <2>2. ASSUME NEW i \in 1..Len(input) PROVE Prefix(Text', from + i) = SubSeq(job.ids, 1, from + i)
    <3>1. Prefix(Text', from + i) = [k \in 1..from+i |-> job.ids[k]]
      BY <1>0, <1>1, <2>1 DEF Prefix
    <3>2. SubSeq(job.ids, 1, from + i) = [k \in 1..from+i |-> job.ids[k]]
      BY <1>0, <2>1
    <3> QED BY <3>1, <3>2
  <2>3. \A i \in 1..Len(input) : pos' - Rows + i = from + i
    <3> Rows = Len(input) /\ pos = from
      BY <2>1
    <3> QED BY <1>a
  <2>4. Due' = [i \in 1..Len(input) |-> SubSeq(job.ids, 1, from + i)]
    BY <1>0, <1>5 DEF Due
  <2> QED BY <1>0, <2>1, <2>2, <2>3, <2>4
<1> QED BY <1>3, <1>4, <1>5, JobType DEF CommandsInv

\* Only a text that the arguments should have ruled out is longer than the context.
LEMMA TooLong ==
  ASSUME ClientTypes, Len(Goal) > opt.ctx,
         job.name = "run" => RoomForRun,
         job.name \in {"run", "bench"} => Len(said) <= job.n,
         job.name = "eval" => from + 1 < Len(job.ids),
         job.name = "logits" => from < Len(job.ids)
  PROVE  ~Fits /\ job.name # "run"
<1>1. CASE job.name \in {"run", "bench"}
  <2>1. Len(Goal) = Len(job.ids) + Len(said)
    BY <1>1, RunGoal
  <2>2. CASE job.name = "run"
    <3> Len(job.ids) + job.n <= opt.ctx
      BY <2>2 DEF RoomForRun
    <3> QED BY <1>1, <2>1, <2>2, JobType, Limits
  <2>3. CASE job.name = "bench"
    <3>1. Fits => Len(job.ids) + job.n <= MaxSeq
      BY <2>3 DEF Fits
    <3>2. opt.ctx = Least(Len(job.ids) + job.n + 8, MaxSeq) /\ Len(said) <= job.n
      BY <2>3, Limits
    <3>3. Len(job.ids) \in Nat /\ Len(said) \in Nat /\ job.n \in Nat /\ MaxSeq \in Nat
      BY JobType
    <3>4. ~(Len(job.ids) + job.n <= MaxSeq)
      BY <2>1, <3>2, <3>3 DEF Least
    <3> QED BY <2>3, <3>1, <3>4
  <2> QED BY <1>1, <2>2, <2>3
<1>2. CASE job.name = "eval"
  <2> Len(Goal) = Least(from + job.n, Len(job.ids)) - from /\ from \in Nat
    BY <1>2, EvalGoal DEF ClientTypes
  <2> QED BY <1>2, JobType, Limits, SMTT(40) DEF Fits, Least
<1>3. CASE job.name = "logits"
  <2> Len(Goal) \in Nat /\ Len(Goal) <= Len(job.ids)
    BY <1>3, LogitsGoal, JobType
  <2> QED BY <1>3, JobType, Limits DEF Fits, Least
<1> QED BY <1>1, <1>2, <1>3, JobType

\* A prefill goes on with its next chunk, or cannot.
LEMMA ChunkStep ==
  ASSUME CommandsInv, NextChunk, UNCHANGED <<clientVars, at>>
  PROVE  Talking' /\ AnswersAreDue' /\ Fate'
<1> DEFINE m == Least(opt.batch, Len(todo))
           ts == SubSeq(todo, 1, m)
           rest == SubSeq(todo, m + 1, Len(todo))
<1>1. /\ at = "reply" /\ phase = "chunk" /\ pos \in Nat /\ todo \in Seq(Tokens) /\ Len(todo) \in Nat
      /\ pos + Len(todo) = Len(Goal) /\ Len(todo) > 0 /\ Agrees(pos) /\ Follows(todo, pos)
      /\ job.name \in {"run", "bench"} /\ ClientTypes
  BY DEF CommandsInv, Between, Talking, NextChunk, SessionInv, Types
<1>2. Goal' = Goal /\ at' = at /\ job' = job /\ said' = said
  BY DEF Goal, clientVars, Window, Prefilled
<1>3. opt.batch \in Nat /\ opt.ctx \in Nat /\ (opt.ctx > 0 => opt.batch > 0)
  BY <1>1, Limits
<1>4. m \in Nat /\ m <= Len(todo) /\ m <= opt.batch /\ (opt.ctx > 0 => m > 0)
  BY <1>1, <1>3 DEF Least
<1>5. Enter(ts, rest)
  BY DEF NextChunk
<1> HIDE DEF m
<1>6. /\ ts \in Seq(Tokens) /\ rest \in Seq(Tokens) /\ Len(ts) = m /\ Len(rest) = Len(todo) - m
      /\ \A i \in 1..m : ts[i] = todo[i]
      /\ \A i \in 1..Len(todo)-m : rest[i] = todo[m + i]
  BY <1>1, <1>4
<1> HIDE DEF ts, rest
<1>7. \A i \in 1..Len(ts) : ts[i] = Goal'[pos + i]
  BY <1>1, <1>2, <1>4, <1>6 DEF Follows
<1>8. ASSUME NEW i \in 1..Len(rest) PROVE rest[i] = Goal'[pos + Len(ts) + i]
  <2>1. rest[i] = todo[m + i] /\ m + i \in 1..Len(todo)
    BY <1>1, <1>4, <1>6
  <2>2. todo[m + i] = Goal[pos + (m + i)]
    BY <1>1, <2>1 DEF Follows
  <2>3. pos + (m + i) = pos + Len(ts) + i
    BY <1>1, <1>4, <1>6
  <2> QED BY <1>2, <2>1, <2>2, <2>3
<1>9. /\ pos + Len(ts) + Len(rest) = Len(Goal')
      /\ \A i \in 1..pos : kv[0][i-1] = Goal'[i]
  <2>1. Len(ts) + Len(rest) = Len(todo)
    BY <1>1, <1>4, <1>6
  <2>2. pos + Len(ts) + Len(rest) = pos + Len(todo)
    BY <1>1, <1>4, <1>6
  <2> QED BY <1>1, <1>2, <2>2 DEF Agrees
<1>10. Talking' /\ AnswersAreDue' /\ (Accepts(ts) => ~Failing')
  <2> job'.name # "eval" /\ job'.name # "logits" /\ at' = "reply"
    BY <1>1, <1>2
  <2> QED BY <1>1, <1>5, <1>6, <1>7, <1>8, <1>9, Begun
<1>11. ASSUME ~Accepts(ts) PROVE ~Fits /\ job.name # "run"
  <2> Len(Goal) > opt.ctx
    BY <1>1, <1>3, <1>4, <1>6, <1>11 DEF Accepts
  <2> QED BY <1>1, TooLong DEF CommandsInv, Between
<1>12. Fate'
  <2> Fits' = Fits
    BY <1>2 DEF Fits
  <2> QED BY <1>2, <1>10, <1>11 DEF Fate
<1> QED BY <1>10, <1>12

\* The session goes on.
LEMMA SessionStep ==
  ASSUME CommandsInv, Step, UNCHANGED <<clientVars, at>>
  PROVE  CommandsInv'
<1>1. SessionInv'
  BY SessionInvNext DEF CommandsInv, Next
<1>2. /\ opt' = opt /\ job' = job /\ said' = said /\ next' = next /\ from' = from /\ at' = at
      /\ at = "reply" /\ pos \in Nat /\ Len(input) \in Nat
  BY WholeType DEF Step, NextChunk, Enter, Refuse, Embed, WriteRows, Attend, Return, clientVars, CommandsInv, Between,
     SessionInv, Types
<1>3. Goal' = Goal
  BY <1>2 DEF Goal, Window, Prefilled
<1>4. ClientTypes' /\ Between' /\ RunStops'
  BY <1>2 DEF CommandsInv, ClientTypes, Between, RunStops, RoomForRun, Reached
<1>5. ASSUME Running, Running', UNCHANGED <<pos, input, todo, thrown>>, \A i \in 1..pos : kv'[0][i-1] = kv[0][i-1]
      PROVE  Talking' /\ AnswersAreDue' /\ Fate'
  <2>1. phase' # "idle" /\ phase' # "chunk" /\ phase # "idle"
    BY <1>5 DEF Running
  <2>2. Talking'
    BY <1>2, <1>3, <1>5, <2>1 DEF CommandsInv, Talking, Agrees, Follows
  <2> QED BY <1>2, <2>1, <2>2 DEF AnswersAreDue, Fate, Failing
<1>6. ASSUME Embed \/ Attend PROVE Talking' /\ AnswersAreDue' /\ Fate'
  BY <1>5, <1>6 DEF Embed, Attend, callVars, Running
<1>7. ASSUME WriteRows PROVE Talking' /\ AnswersAreDue' /\ Fate'
  BY <1>5, <1>7, OldTokensStay DEF CommandsInv, WriteRows, callVars, Running
<1>8. ASSUME Return PROVE Talking' /\ AnswersAreDue' /\ Fate'
  <2>1. /\ \A i \in 1..pos' : kv'[0][i-1] = Goal[i]
        /\ pos' + Len(todo) = Len(Goal)
        /\ \A i \in 1..Len(todo) : todo[i] = Goal[pos' + i]
        /\ kv' = kv /\ pos' = pos + Len(input) /\ todo' = todo /\ input' = input /\ thrown' = thrown
        /\ phase' = IF todo = <<>> THEN "idle" ELSE "chunk"
        /\ todo \in Seq(Tokens) /\ Running
    BY <1>2, <1>8, ReturnReaches DEF Return, callVars, CommandsInv, SessionInv, Types, Running
  <2>2. CASE todo = <<>>
    <3>1. phase' = "idle" /\ Len(todo) = 0 /\ pos' \in Nat
      BY <1>2, <2>1, <2>2
    <3>2. Talking'
      <4>1. Reached'
        BY <1>3, <2>1, <3>1 DEF Reached, Agrees
      <4>2. job.name = "logits" => pos' = from + Len(input)
        BY <1>2, <2>1 DEF CommandsInv, Talking
      <4> QED BY <1>2, <2>1, <3>1, <4>1, <4>2 DEF Talking, Running
    <3>3. AnswersAreDue'
      BY <1>8, <2>2, ReturnIsDue DEF AnswersAreDue
    <3>4. Fate'
      BY <1>2, <2>1, <3>1 DEF CommandsInv, Talking, Running, Fate, Failing
    <3> QED BY <3>2, <3>3, <3>4
  <2>3. CASE todo # <<>>
    <3>1. phase' = "chunk" /\ Len(todo) > 0
      BY <2>1, <2>3
    <3>2. job.name \in {"run", "bench"}
      BY <1>2, <2>1, <2>3, JobType DEF CommandsInv, Talking
    <3>3. ~thrown'
      BY <1>2, <2>1 DEF CommandsInv, Talking, Running
    <3>4. Talking'
      BY <1>2, <1>3, <2>1, <3>1, <3>2, <3>3 DEF Talking, Running, Agrees, Follows
    <3> QED BY <1>2, <3>1, <3>4 DEF AnswersAreDue, Fate, Failing
  <2> QED BY <2>2, <2>3
<1> QED BY <1>1, <1>4, <1>6, <1>7, <1>8, ChunkStep DEF CommandsInv, Step
-----------------------------------------------------------------------------
(* The steps of the commands                                               *)

\* The session's invariant outlives whatever a command asks of it.
LEMMA SessionKept ==
  ASSUME SessionInv,
         \/ UNCHANGED vars \/ Reset
         \/ \E ts \in Seq(Tokens) : Forward(ts) \/ Prefill(ts)
  PROVE  SessionInv'
<1>1. CASE UNCHANGED vars \/ Reset
  BY <1>1, SessionInvNext DEF Next
<1>2. ASSUME NEW ts \in Seq(Tokens), Forward(ts) PROVE SessionInv'
  BY <1>2, EnterStep, EmptySeq DEF Forward
<1>3. ASSUME NEW ts \in Seq(Tokens), Prefill(ts) PROVE SessionInv'
  BY <1>3, IdleStep DEF Prefill, Refuse, callVars, SessionInv, Types
<1> QED BY <1>1, <1>2, <1>3

\* run and bench begin with the prompt.
LEMMA PromptStep ==
  ASSUME CommandsInv, job.name \in {"run", "bench"}, Prefill(job.ids), pos = 0, said = <<>>,
         at' = "reply", UNCHANGED clientVars, job.name = "run" => RoomForRun
  PROVE  CommandsInv'
<1>1. /\ job' = job /\ said' = said /\ from' = from /\ next' = next /\ opt' = opt /\ kv' = kv /\ pos' = pos
      /\ job.ids \in Seq(Tokens) /\ Len(job.ids) \in Nat /\ ClientTypes
  BY JobType DEF clientVars, Prefill, Refuse, CommandsInv
<1>2. SessionInv'
  BY <1>1, SessionKept DEF CommandsInv
<1>3. ClientTypes' /\ RunStops'
  BY <1>1 DEF CommandsInv, ClientTypes, RunStops
<1>4. Between'
  <2> 0 <= job.n
    BY JobType DEF CommandsInv
  <2> Len(said) = 0
    OBVIOUS
  <2> QED BY <1>1 DEF Between, RoomForRun, Reached
<1>5. Goal' = job.ids
  BY <1>1, RunGoal DEF Goal, Window, Prefilled
<1>6. Talking' /\ AnswersAreDue' /\ Fate'
  <2>1. CASE job.ids = <<>>
    <3>1. phase' = "idle" /\ thrown' = TRUE
      BY <2>1 DEF Prefill, Refuse
    <3>2. ~Fits
      <4>1. job.name = "run"
        BY <1>1, <2>1, Limits
      <4> QED BY <2>1, <4>1 DEF Fits
    <3>3. Fits' = Fits
      BY <1>1 DEF Fits
    <3> QED BY <1>1, <3>1, <3>2, <3>3 DEF Talking, AnswersAreDue, Fate, Running
  <2>2. CASE job.ids # <<>>
    <3>1. phase' = "chunk" /\ todo' = job.ids /\ thrown' = FALSE
      BY <2>2 DEF Prefill
    <3>2. Len(job.ids) > 0
      BY <1>1, <2>2
    <3> QED BY <1>1, <1>5, <3>1, <3>2 DEF Talking, AnswersAreDue, Fate, Failing, Running, Agrees, Follows
  <2> QED BY <2>1, <2>2
<1> QED BY <1>2, <1>3, <1>4, <1>6 DEF CommandsInv

\* A token more.
LEMMA Longer ==
  ASSUME NEW s \in Seq(Tokens), NEW t \in Seq(Tokens), NEW x \in Tokens
  PROVE  LET u == s \o t
             v == s \o (t \o <<x>>)
         IN  Len(v) = Len(u) + 1 /\ v[Len(u) + 1] = x /\ \A i \in 1..Len(u) : v[i] = u[i]
<1> DEFINE u == s \o t
<1>1. <<x>> \in Seq(Tokens) /\ u \in Seq(Tokens)
  OBVIOUS
<1>2. s \o (t \o <<x>>) = u \o <<x>>
  BY <1>1, ConcatAssociative
<1> HIDE DEF u
<1>3. Len(u \o <<x>>) = Len(u) + 1 /\ (u \o <<x>>)[Len(u) + 1] = x /\ \A i \in 1..Len(u) : (u \o <<x>>)[i] = u[i]
  BY <1>1
<1> QED BY <1>2, <1>3 DEF u

\* run and bench go on with the token sampled.
LEMMA SampledStep ==
  ASSUME CommandsInv, job.name \in {"run", "bench"}, at = "use", Len(said) < job.n,
         job.name = "run" => next # Eos \/ ~job.eos,
         said' = said \o <<next>>, Decode(next), at' = "reply", UNCHANGED <<job, next, from>>
  PROVE  CommandsInv'
<1>1. /\ opt' = opt /\ kv' = kv /\ pos' = pos /\ said \in Seq(Tokens) /\ next \in Tokens /\ Len(said) \in Nat
      /\ job.ids \in Seq(Tokens) /\ Len(job.ids) \in Nat /\ ClientTypes /\ job.n \in Nat /\ pos \in Nat
      /\ phase = "idle"
  BY JobType DEF Decode, Forward, Enter, Refuse, CommandsInv, ClientTypes, SessionInv, Types
<1>2. <<next>> \in Seq(Tokens) /\ Len(<<next>>) = 1 /\ <<next>>[1] = next
  BY <1>1
<1>3. /\ said' \in Seq(Tokens) /\ Len(said') = Len(said) + 1 /\ said'[Len(said) + 1] = next
      /\ \A i \in 1..Len(said) : said'[i] = said[i]
  BY <1>1, <1>2
<1>4. SessionInv'
  BY <1>2, SessionKept DEF CommandsInv, Decode
<1>5. ClientTypes' /\ RunStops'
  <2>1. ClientTypes'
    BY <1>1, <1>3 DEF ClientTypes
  <2>2. ASSUME job.name = "run", job.eos, NEW i \in 1..Len(said') PROVE said'[i] # Eos
    <3>1. CASE i \in 1..Len(said)
      BY <1>3, <2>2, <3>1 DEF CommandsInv, RunStops
    <3>2. CASE i = Len(said) + 1
      BY <1>3, <2>2, <3>2
    <3> QED BY <1>1, <1>3, <3>1, <3>2
  <2> QED BY <2>1, <2>2 DEF RunStops
<1>6. Between'
  <2>1. Len(said') <= job.n
    BY <1>1, <1>3
  <2>2. job.name = "run" => RoomForRun
    BY DEF CommandsInv, Between
  <2> QED BY <1>1, <2>1, <2>2 DEF Between, RoomForRun
<1>7. /\ Len(Goal) = Len(job.ids) + Len(said) /\ pos = Len(Goal) /\ Agrees(pos)
      /\ Goal = job.ids \o said
  BY RunGoal DEF CommandsInv, Between, Reached
<1>8. Goal' = job.ids \o said'
  BY DEF Goal
<1>9. /\ Len(Goal') = pos + 1 /\ Goal'[pos + 1] = next
      /\ \A i \in 1..pos : Goal'[i] = Goal[i]
  <2>1. Goal' = job.ids \o (said \o <<next>>)
    BY <1>8
  <2>2. LET v == job.ids \o (said \o <<next>>)
        IN  Len(v) = Len(Goal) + 1 /\ v[Len(Goal) + 1] = next /\ \A i \in 1..Len(Goal) : v[i] = Goal[i]
    <3> job.ids \in Seq(Tokens) /\ said \in Seq(Tokens) /\ next \in Tokens
      BY <1>1
    <3> Goal = job.ids \o said
      BY <1>7
    <3> QED BY Longer, ZenonT(40)
  <2> HIDE DEF Goal
  <2> pos = Len(Goal)
    BY <1>7
  <2> QED BY <2>1, <2>2
<1>10. Talking' /\ AnswersAreDue' /\ (Accepts(<<next>>) => ~Failing')
  <2>1. Enter(<<next>>, <<>>)
    BY DEF Decode, Forward
  <2>2. <<>> \in Seq(Tokens) /\ Len(<<>>) = 0
    OBVIOUS
  <2>3. \A i \in 1..pos : kv[0][i-1] = Goal'[i]
    BY <1>7, <1>9 DEF Agrees
  <2>4. pos + Len(<<next>>) + Len(<<>>) = Len(Goal')
    BY <1>1, <1>2, <1>9, <2>2
  <2>5. \A i \in 1..Len(<<next>>) : <<next>>[i] = Goal'[pos + i]
    BY <1>2, <1>9
  <2>6. \A i \in 1..Len(<<>>) : <<>>[i] = Goal'[pos + Len(<<next>>) + i]
    BY <2>2
  <2>7. job'.name # "eval" /\ job'.name # "logits"
    OBVIOUS
  <2> QED BY <1>1, <1>2, <2>1, <2>2, <2>3, <2>4, <2>5, <2>6, <2>7, Begun
<1>11. ASSUME ~Accepts(<<next>>) PROVE ~Fits' /\ job'.name # "run"
  <2>1. Len(job.ids) + job.n > opt.ctx
    BY <1>1, <1>2, <1>7, <1>11, Limits DEF Accepts
  <2>2. job.name = "bench"
    BY <1>1, <2>1, Limits DEF CommandsInv, Between, RoomForRun
  <2>3. opt.ctx = Least(Len(job.ids) + job.n + 8, MaxSeq) /\ MaxSeq \in Nat
    BY <2>2, <1>1, Limits, JobType
  <2>4. ~(Len(job.ids) + job.n <= MaxSeq)
    BY <1>1, <2>1, <2>3 DEF Least
  <2> QED BY <2>2, <2>4 DEF Fits
<1>12. Fate'
  BY <1>10, <1>11 DEF Fate
<1> QED BY <1>4, <1>5, <1>6, <1>10, <1>12 DEF CommandsInv

\* eval and logits pass a piece of their text to one forward.
LEMMA PieceStep ==
  ASSUME CommandsInv, job.name \in {"eval", "logits"}, NEW ts \in Seq(Tokens), Forward(ts),
         at' = "reply", UNCHANGED clientVars,
         pos + Len(ts) = Len(Goal), Agrees(pos), Follows(ts, pos), Len(ts) > 0,
         Len(ts) <= opt.ctx => Len(ts) <= opt.batch,
         job.name = "eval" => pos = 0 /\ from + 1 < Len(job.ids),
         job.name = "logits" => pos = from /\ from < Len(job.ids)
  PROVE  CommandsInv'
<1>1. /\ job' = job /\ said' = said /\ from' = from /\ next' = next /\ opt' = opt
      /\ pos \in Nat /\ Len(ts) \in Nat /\ opt.ctx \in Nat /\ ClientTypes
  BY Limits DEF clientVars, Forward, Enter, Refuse, CommandsInv, SessionInv, Types
<1>2. SessionInv'
  BY SessionKept DEF CommandsInv
<1>3. ClientTypes' /\ RunStops' /\ Between'
  BY <1>1 DEF CommandsInv, ClientTypes, RunStops, Between
<1>4. Goal' = Goal
  BY <1>1 DEF Goal, Window, Prefilled
<1>5. Talking' /\ AnswersAreDue' /\ (Accepts(ts) => ~Failing')
  <2>1. Enter(ts, <<>>) /\ <<>> \in Seq(Tokens) /\ Len(<<>>) = 0
    BY DEF Forward
  <2>2. pos + Len(ts) + Len(<<>>) = Len(Goal')
    BY <1>1, <1>4, <2>1
  <2>3. /\ \A i \in 1..pos : kv[0][i-1] = Goal'[i]
        /\ \A i \in 1..Len(ts) : ts[i] = Goal'[pos + i]
    BY <1>4 DEF Agrees, Follows
  <2>4. \A i \in 1..Len(<<>>) : <<>>[i] = Goal'[pos + Len(ts) + i]
    BY <2>1
  <2> QED BY <1>1, <2>1, <2>2, <2>3, <2>4, Begun
<1>6. ASSUME ~Accepts(ts) PROVE ~Fits
  <2> Len(Goal) > opt.ctx
    BY <1>1, <1>6 DEF Accepts
  <2> QED BY <1>1, TooLong
<1>7. Fate'
  <2> Fits' = Fits
    BY <1>1 DEF Fits
  <2> QED BY <1>1, <1>5, <1>6 DEF Fate
<1> QED BY <1>2, <1>3, <1>5, <1>7 DEF CommandsInv

\* A window of eval, from an empty cache.
LEMMA WindowStep == ASSUME CommandsInv, FeedWindow PROVE CommandsInv'
<1>1. /\ job.name = "eval" /\ Forward(Window) /\ at' = "reply" /\ UNCHANGED clientVars
      /\ pos = 0 /\ from + 1 < Len(job.ids) /\ ClientTypes
  BY DEF FeedWindow, Ask, CommandsInv, Between
<1>2. /\ Goal = Window /\ Goal \in Seq(Tokens) /\ Len(Goal) > 0
      /\ opt.batch = opt.ctx
  BY <1>1, EvalGoal, Limits
<1>3. Len(Goal) \in Nat /\ Agrees(pos) /\ Follows(Goal, pos) /\ pos + Len(Goal) = Len(Goal)
  BY <1>1, <1>2 DEF Agrees, Follows
<1>4. job.name # "logits" /\ (Len(Goal) <= opt.ctx => Len(Goal) <= opt.batch)
  BY <1>1, <1>2
<1>5. Forward(Goal) /\ job.name \in {"eval", "logits"} /\ (job.name = "eval" => pos = 0 /\ from + 1 < Len(job.ids))
  BY <1>1, <1>2
<1>6. at' = "reply" /\ UNCHANGED clientVars /\ Goal \in Seq(Tokens) /\ Len(Goal) > 0
  BY <1>1, <1>2
<1> HIDE DEF Goal
<1> QED BY <1>3, <1>4, <1>5, <1>6, PieceStep, Zenon

\* The prefill of logits.
LEMMA FirstStep ==
  ASSUME CommandsInv, job.name = "logits", at = "start", Prefilled(job) > 0,
         Forward(SubSeq(job.ids, 1, Prefilled(job))), at' = "reply", UNCHANGED clientVars
  PROVE  CommandsInv'
<1>1. pos = 0 /\ from = 0 /\ ClientTypes
  BY DEF CommandsInv, Between
<1>2. from < Len(job.ids)
  BY <1>1, JobType DEF Prefilled, Least
<1>3. Goal = SubSeq(job.ids, 1, Prefilled(job)) /\ Goal \in Seq(Tokens) /\ Len(Goal) = Prefilled(job)
  BY <1>1, <1>2, LogitsGoal
<1>4. Len(Goal) <= opt.ctx => Len(Goal) <= opt.batch
  BY <1>1, <1>3, Limits
<1>5. Agrees(pos) /\ Follows(Goal, pos) /\ pos + Len(Goal) = Len(Goal) /\ Len(Goal) > 0
  BY <1>1, <1>3 DEF Agrees, Follows
<1>6. Forward(Goal) /\ job.name \in {"eval", "logits"} /\ job.name # "eval" /\ pos = from
  BY <1>1, <1>3
<1> QED BY <1>2, <1>3, <1>4, <1>5, <1>6, PieceStep, Zenon

\* logits goes on with the next token of the text.
LEMMA TokenStep ==
  ASSUME CommandsInv, job.name = "logits", at = "use", from < Len(job.ids), Decode(job.ids[from+1]),
         at' = "reply", UNCHANGED clientVars
  PROVE  CommandsInv'
<1> DEFINE ts == <<job.ids[from+1]>>
<1>1. /\ pos = from /\ from \in Nat /\ ClientTypes /\ (from = 0 => Prefilled(job) = 0)
      /\ \A i \in 1..from : kv[0][i-1] = job.ids[i]
      /\ job.ids \in Seq(Tokens) /\ Len(job.ids) \in Nat
  BY JobType DEF CommandsInv, Between, ClientTypes
<1>2. /\ Goal \in Seq(Tokens) /\ Len(Goal) = from + 1
      /\ \A i \in 1..from+1 : Goal[i] = job.ids[i]
  <2> DEFINE m == IF from = 0 /\ Prefilled(job) > 0 THEN Prefilled(job) ELSE from + 1
  <2>1. m = from + 1
    BY <1>1
  <2>2. Goal \in Seq(Tokens) /\ Len(Goal) = m /\ \A i \in 1..m : Goal[i] = job.ids[i]
    BY <1>1, LogitsGoal
  <2> QED BY <2>1, <2>2
<1>3. ts \in Seq(Tokens) /\ Len(ts) = 1 /\ ts[1] = job.ids[from+1]
  BY <1>1
<1>4. opt.ctx \in Nat /\ opt.batch \in Nat /\ (opt.ctx > 0 => opt.batch > 0)
  BY <1>1, Limits
<1>5. Forward(ts)
  BY DEF Decode
<1> HIDE DEF ts
<1>6. Agrees(pos) /\ Follows(ts, pos) /\ pos + Len(ts) = Len(Goal) /\ Len(ts) > 0
  BY <1>1, <1>2, <1>3, SMTT(40) DEF Agrees, Follows
<1>7. Len(ts) <= opt.ctx => Len(ts) <= opt.batch
  BY <1>3, <1>4
<1>8. job.name \in {"eval", "logits"} /\ job.name # "eval" /\ pos = from
  BY <1>1
<1> QED BY <1>3, <1>5, <1>6, <1>7, <1>8, PieceStep, Zenon

\* A step outside of calls.
LEMMA QuietStep ==
  ASSUME CommandsInv, at' # "reply", UNCHANGED vars \/ Reset, ClientTypes', Between', RunStops',
         at' = "error" => ~Fits' /\ (job'.name = "run" => said' = <<>>)
  PROVE  CommandsInv'
<1>1. SessionInv'
  BY SessionKept DEF CommandsInv
<1>2. Talking' /\ AnswersAreDue' /\ Fate'
  BY DEF Talking, AnswersAreDue, Fate, Failing
<1> QED BY <1>1, <1>2 DEF CommandsInv

\* What a step that only moves the command on leaves as it was.
LEMMA Unmoved ==
  ASSUME CommandsInv, UNCHANGED clientVars, UNCHANGED vars \/ Reset
  PROVE  /\ job' = job /\ said' = said /\ from' = from /\ next' = next /\ opt' = opt /\ kv' = kv
         /\ phase' = phase /\ ClientTypes' /\ Fits' = Fits /\ Goal' = Goal
<1>1. /\ job' = job /\ said' = said /\ from' = from /\ next' = next /\ opt' = opt /\ kv' = kv /\ phase' = phase
  BY DEF vars, Reset, clientVars
<1> QED BY <1>1 DEF CommandsInv, ClientTypes, Fits, Goal, Window, Prefilled

\* run and bench sample a token from the logits of the goal.
LEMMA SampleStep == ASSUME CommandsInv, Sample PROVE CommandsInv'
<1>1. /\ at = "reply" /\ phase = "idle" /\ ~thrown /\ at' = "use" /\ next' \in Tokens
      /\ job.name \in {"run", "bench"} /\ UNCHANGED <<vars, job, said, from>>
  BY DEF Sample, Answered
<1>2. opt' = opt /\ phase' = phase /\ pos' = pos /\ kv' = kv /\ job' = job /\ said' = said /\ from' = from
  BY <1>1 DEF vars
<1>3. Goal' = Goal
  BY <1>2 DEF Goal, Window, Prefilled
<1>4. ClientTypes' /\ RunStops'
  BY <1>1, <1>2 DEF CommandsInv, ClientTypes, RunStops
<1>5. Reached'
  BY <1>1, <1>2, <1>3 DEF CommandsInv, Talking, Reached, Agrees
<1>6. Between'
  BY <1>1, <1>2, <1>5 DEF CommandsInv, Between, RoomForRun
<1> QED BY <1>1, <1>4, <1>6, QuietStep

\* run.
LEMMA RunStep == ASSUME CommandsInv, job.name = "run", Run PROVE CommandsInv'
<1>0. Len(said) \in Nat /\ said \in Seq(Tokens) /\ job.n \in Nat /\ next \in Tokens /\ Len(said) <= job.n
  BY JobType DEF CommandsInv, ClientTypes, Between
<1>1. CASE StartRun
  <2>1. pos = 0 /\ said = <<>> /\ phase = "idle" /\ at = "start"
    BY <1>1 DEF StartRun, CommandsInv, Between
  <2>2. CASE RoomForRun
    <3> Prefill(job.ids) /\ at' = "reply" /\ UNCHANGED clientVars
      BY <1>1, <2>2 DEF StartRun, Ask
    <3> QED BY <2>1, <2>2, PromptStep
  <2>3. CASE ~RoomForRun
    <3>1. at' = "error" /\ UNCHANGED vars /\ UNCHANGED clientVars
      BY <1>1, <2>3 DEF StartRun
    <3>2. ~Fits
      <4>1. ~(Len(job.ids) + job.n <= opt.ctx) /\ opt.ctx = Least(job.ctx, MaxSeq)
        BY <2>3, Limits DEF RoomForRun, CommandsInv
      <4> QED BY <4>1 DEF Fits
    <3>3. Between' /\ RunStops'
      BY <1>0, <2>1, <3>1, Unmoved DEF Between, RunStops
    <3> QED BY <2>1, <3>1, <3>2, <3>3, Unmoved, QuietStep
  <2> QED BY <2>2, <2>3
<1>2. CASE Sample
  BY <1>2, SampleStep
<1>3. CASE Stop
  <2>1. /\ at = "use" /\ at' = "done" /\ UNCHANGED vars /\ UNCHANGED clientVars /\ phase = "idle"
        /\ Exhausted \/ (next = Eos /\ job.eos)
    BY <1>3 DEF Stop, CommandsInv, Between
  <2>2. Between'
    BY <1>0, <2>1, Unmoved DEF Between
  <2>3. RunStops'
    BY <2>1, Unmoved DEF CommandsInv, RunStops, Exhausted
  <2> QED BY <2>1, <2>2, <2>3, Unmoved, QuietStep
<1>4. CASE Speak
  <2>1. /\ at = "use" /\ Len(said) < job.n /\ (next # Eos \/ ~job.eos) /\ phase = "idle"
        /\ said' = said \o <<next>> /\ UNCHANGED <<job, next, from>>
    BY <1>0, <1>4, JobType DEF Speak, Exhausted, CommandsInv, Between
  <2>2. CASE Len(said') = job.n
    <3>1. at' = "done" /\ UNCHANGED vars
      BY <1>4, <2>2 DEF Speak
    <3>2. said' \in Seq(Tokens) /\ Len(said') = Len(said) + 1 /\ said'[Len(said) + 1] = next
          /\ \A i \in 1..Len(said) : said'[i] = said[i]
      BY <1>0, <2>1
    <3>3. opt' = opt /\ phase' = phase /\ pos' = pos /\ kv' = kv
      BY <3>1 DEF vars
    <3>4. ClientTypes'
      BY <2>1, <3>2, <3>3 DEF CommandsInv, ClientTypes
    <3>5. Between'
      BY <1>0, <2>1, <2>2, <3>1, <3>3 DEF Between
    <3>6. ASSUME job.eos, NEW i \in 1..Len(said') PROVE said'[i] # Eos
      <4>1. CASE i \in 1..Len(said)
        BY <3>2, <3>6, <4>1 DEF CommandsInv, RunStops
      <4>2. CASE i = Len(said) + 1
        BY <2>1, <3>2, <3>6, <4>2
      <4> QED BY <1>0, <3>2, <4>1, <4>2
    <3>7. RunStops'
      BY <2>1, <2>2, <3>6 DEF RunStops
    <3> QED BY <3>1, <3>4, <3>5, <3>7, QuietStep
  <2>3. CASE Len(said') # job.n
    <3> Decode(next) /\ at' = "reply"
      BY <1>4, <2>3 DEF Speak, Ask
    <3> QED BY <2>1, SampledStep
  <2> QED BY <2>2, <2>3
<1> QED BY <1>1, <1>2, <1>3, <1>4 DEF Run

\* bench.
LEMMA BenchStep == ASSUME CommandsInv, job.name = "bench", Bench PROVE CommandsInv'
<1>0. Len(said) \in Nat /\ said \in Seq(Tokens) /\ job.n \in Nat /\ Len(said) <= job.n
  BY JobType DEF CommandsInv, ClientTypes, Between
<1>1. CASE StartBench
  <2>1. at = "start" /\ Reset /\ at' = "feed" /\ UNCHANGED clientVars /\ phase = "idle" /\ pos' = 0 /\ said = <<>>
    BY <1>1 DEF StartBench, Reset, CommandsInv, Between
  <2>2. Between' /\ RunStops'
    BY <1>0, <2>1, Unmoved DEF Between, RunStops
  <2> QED BY <2>1, <2>2, Unmoved, QuietStep
<1>2. CASE Feed
  <2> Prefill(job.ids) /\ at' = "reply" /\ UNCHANGED clientVars /\ pos = 0 /\ said = <<>>
    BY <1>2 DEF Feed, Ask, CommandsInv, Between
  <2> QED BY PromptStep
<1>3. CASE Go
  <2> /\ at = "use" /\ Len(said) < job.n /\ said' = said \o <<next>> /\ Decode(next) /\ at' = "reply"
      /\ UNCHANGED <<job, next, from>>
    BY <1>3 DEF Go, Ask
  <2> QED BY SampledStep
<1>4. CASE Repeat
  <2>1. /\ at = "use" /\ phase = "idle" /\ UNCHANGED vars /\ job' = job /\ next' = next
        /\ from' = from + 1 /\ said' = <<>> /\ at' \in {"start", "done"}
    BY <1>4 DEF Repeat, CommandsInv, Between
  <2>2. opt' = opt /\ phase' = phase /\ pos' = pos /\ kv' = kv
    BY <2>1 DEF vars
  <2>3. ClientTypes'
    BY <2>1, <2>2 DEF CommandsInv, ClientTypes
  <2>4. Len(said') = 0
    BY <2>1
  <2>5. Between' /\ RunStops'
    BY <1>0, <2>1, <2>2, <2>4 DEF Between, RunStops
  <2> QED BY <2>1, <2>3, <2>5, QuietStep
<1> QED BY <1>1, <1>2, <1>3, <1>4 DEF Bench

\* eval.
LEMMA EvalStep == ASSUME CommandsInv, job.name = "eval", Eval PROVE CommandsInv'
<1>1. CASE StartWindow
  <2>0. at = "start" /\ phase = "idle" /\ UNCHANGED clientVars /\ (UNCHANGED vars \/ Reset)
    BY <1>1 DEF StartWindow, CommandsInv, Between
  <2>1. CASE from + 1 < Len(job.ids) /\ Len(Window) >= 2
    <3>1. Reset /\ at' = "feed" /\ pos' = 0
      BY <1>1, <2>1 DEF StartWindow, Reset
    <3>2. Between' /\ RunStops'
      BY <2>0, <2>1, <3>1, Unmoved DEF Between, RunStops
    <3> QED BY <2>0, <3>1, <3>2, Unmoved, QuietStep
  <2>2. CASE ~(from + 1 < Len(job.ids) /\ Len(Window) >= 2)
    <3>1. UNCHANGED vars /\ at' = "done"
      BY <1>1, <2>2 DEF StartWindow
    <3>2. Between' /\ RunStops'
      BY <2>0, <3>1, Unmoved DEF Between, RunStops
    <3> QED BY <2>0, <3>1, <3>2, Unmoved, QuietStep
  <2> QED BY <2>1, <2>2
<1>2. CASE FeedWindow
  BY <1>2, WindowStep
<1>3. CASE Score
  <2>1. /\ at = "reply" /\ phase = "idle" /\ at' = "start" /\ from' = from + job.n
        /\ UNCHANGED <<vars, job, next, said>>
    BY <1>3 DEF Score, Answered, Stride
  <2>2. opt' = opt /\ phase' = phase /\ job' = job /\ next' = next /\ said' = said
    BY <2>1 DEF vars
  <2>3. from' \in Nat
    BY <2>1, JobType DEF CommandsInv, ClientTypes
  <2>4. ClientTypes'
    BY <2>2, <2>3 DEF CommandsInv, ClientTypes
  <2>5. Between' /\ RunStops'
    BY <2>1, <2>2 DEF Between, RunStops
  <2> QED BY <2>1, <2>4, <2>5, QuietStep
<1> QED BY <1>1, <1>2, <1>3 DEF Eval

\* logits.
LEMMA LogitsStep == ASSUME CommandsInv, job.name = "logits", Logits PROVE CommandsInv'
<1>0. job.ids \in Seq(Tokens) /\ Len(job.ids) \in Nat /\ job.n \in Nat /\ from \in Nat
  BY JobType DEF CommandsInv, ClientTypes
<1>1. CASE StartLogits
  <2>1. at = "start" /\ phase = "idle" /\ UNCHANGED clientVars /\ pos = 0 /\ from = 0
    BY <1>1 DEF StartLogits, CommandsInv, Between
  <2>2. CASE Prefilled(job) > 0
    <3> Forward(SubSeq(job.ids, 1, Prefilled(job))) /\ at' = "reply"
      BY <1>1, <2>2 DEF StartLogits, Ask
    <3> QED BY <2>1, <2>2, FirstStep
  <2>3. CASE ~(Prefilled(job) > 0)
    <3>1. UNCHANGED vars /\ at' = "use" /\ pos' = pos
      BY <1>1, <2>3 DEF StartLogits, vars
    <3>2. Prefilled(job) = 0
      BY <1>0, <2>3 DEF Prefilled, Least
    <3>3. Prefilled(job') = Prefilled(job)
      BY <2>1 DEF clientVars
    <3>4. Between' /\ RunStops'
      BY <1>0, <2>1, <3>1, <3>2, <3>3, Unmoved DEF Between, RunStops
    <3> QED BY <2>1, <3>1, <3>4, Unmoved, QuietStep
  <2> QED BY <2>2, <2>3
<1>2. CASE Dump
  <2>1. /\ at = "reply" /\ phase = "idle" /\ ~thrown /\ at' = "use" /\ from' = from + Len(input)
        /\ UNCHANGED <<vars, job, next, said>> /\ from < Len(job.ids)
    BY <1>2 DEF Dump, Answered, CommandsInv, Between
  <2>2. opt' = opt /\ phase' = phase /\ pos' = pos /\ kv' = kv /\ job' = job /\ next' = next /\ said' = said
    BY <2>1 DEF vars
  <2>3. pos = Len(Goal) /\ Agrees(pos) /\ pos = from + Len(input)
    BY <2>1 DEF CommandsInv, Talking, Reached
  <2>4. /\ Len(Goal) \in from+1..Len(job.ids)
        /\ \A i \in 1..Len(Goal) : Goal[i] = job.ids[i]
    BY <2>1, LogitsGoal DEF CommandsInv
  <2>5. from' = pos /\ from' \in Nat /\ from' > 0 /\ from' <= Len(job.ids)
    BY <1>0, <2>1, <2>3, <2>4
  <2>6. \A i \in 1..from' : kv'[0][i-1] = job'.ids[i]
    BY <2>2, <2>3, <2>4, <2>5 DEF Agrees
  <2>7. ClientTypes'
    BY <2>2, <2>5 DEF CommandsInv, ClientTypes
  <2>8. Between' /\ RunStops'
    BY <2>1, <2>2, <2>5, <2>6 DEF Between, RunStops, CommandsInv
  <2> QED BY <2>1, <2>7, <2>8, QuietStep
<1>3. CASE DecodeNext
  <2>1. at = "use" /\ phase = "idle" /\ UNCHANGED clientVars
    BY <1>3 DEF DecodeNext, CommandsInv, Between
  <2>2. CASE from < Len(job.ids)
    <3> Decode(job.ids[from+1]) /\ at' = "reply"
      BY <1>3, <2>2 DEF DecodeNext, Ask
    <3> QED BY <2>1, <2>2, TokenStep
  <2>3. CASE ~(from < Len(job.ids))
    <3>1. UNCHANGED vars /\ at' = "done"
      BY <1>3, <2>3 DEF DecodeNext
    <3>2. Between' /\ RunStops'
      BY <2>1, <3>1, Unmoved DEF Between, RunStops
    <3> QED BY <2>1, <3>1, <3>2, Unmoved, QuietStep
  <2> QED BY <2>2, <2>3
<1> QED BY <1>1, <1>2, <1>3 DEF Logits

\* The exception that ends a command, and its end.
LEMMA EndStep == ASSUME CommandsInv, Fail \/ Ended PROVE CommandsInv'
<1>1. CASE Fail
  <2>1. /\ at = "reply" /\ phase = "idle" /\ thrown /\ at' = "error" /\ UNCHANGED vars /\ UNCHANGED clientVars
    BY <1>1 DEF Fail
  <2>2. ~Fits /\ (job.name = "run" => said = <<>>)
    BY <2>1 DEF CommandsInv, Fate, Failing
  <2>3. Between' /\ RunStops'
    BY <2>1, Unmoved DEF CommandsInv, Between, RunStops
  <2> QED BY <2>1, <2>2, <2>3, Unmoved, QuietStep
<1>2. CASE Ended
  <2>1. at' = at /\ at \in {"done", "error"} /\ UNCHANGED vars /\ UNCHANGED clientVars
    BY <1>2 DEF Ended, allVars
  <2>2. at = "error" => ~Fits /\ (job.name = "run" => said = <<>>)
    BY DEF CommandsInv, Fate, Failing
  <2>3. Between' /\ RunStops'
    BY <2>1, Unmoved DEF CommandsInv, Between, RunStops
  <2> QED BY <2>1, <2>2, <2>3, Unmoved, QuietStep
<1> QED BY <1>1, <1>2
-----------------------------------------------------------------------------
(* Theorems                                                                *)

\* The invariant holds at the start.
LEMMA CommandsInvInit == CommandsInit => CommandsInv
<1> SUFFICES ASSUME CommandsInit PROVE CommandsInv
  OBVIOUS
<1>1. /\ job \in Jobs /\ opt = Clamp(Asked(job)) /\ at = "start" /\ next = Eos /\ said = <<>>
      /\ from = (IF job.name = "bench" THEN -1 ELSE 0) /\ pos = 0 /\ phase = "idle" /\ Init
  BY DEF CommandsInit, Init
<1>2. SessionInv
  BY <1>1, SessionInvInit
<1>3. ClientTypes
  BY <1>1, CommandsAssumption DEF CommandsAssumption, ClientTypes
<1>4. job.n \in Nat /\ Len(said) = 0
  BY <1>1, <1>3, JobType
<1>5. Between /\ RunStops
  BY <1>1, <1>4 DEF Between, RunStops
<1>6. Talking /\ Fate /\ AnswersAreDue
  BY <1>1 DEF Talking, Fate, Failing, AnswersAreDue
<1> QED BY <1>2, <1>3, <1>5, <1>6 DEF CommandsInv

\* Every step keeps it.
LEMMA CommandsInvNext == CommandsInv /\ [CommandsNext]_allVars => CommandsInv'
<1> SUFFICES ASSUME CommandsInv, [CommandsNext]_allVars PROVE CommandsInv'
  OBVIOUS
<1>1. CASE Step /\ UNCHANGED <<clientVars, at>>
  BY <1>1, SessionStep
<1>2. CASE Run
  <2>1. CASE Sample
    BY <2>1, SampleStep
  <2>2. CASE ~Sample
    BY <1>2, <2>2, RunStep DEF Run, StartRun, Stop, Speak
  <2> QED BY <2>1, <2>2
<1>3. CASE Bench
  BY <1>3, BenchStep DEF Bench, StartBench, Feed, Go, Repeat
<1>4. CASE Eval
  BY <1>4, EvalStep DEF Eval, StartWindow, FeedWindow, Score, Answered
<1>5. CASE Logits
  BY <1>5, LogitsStep DEF Logits, StartLogits, Dump, Answered, DecodeNext
<1>6. CASE Fail \/ Ended
  BY <1>6, EndStep
<1>7. CASE UNCHANGED allVars
  <2>1. UNCHANGED vars /\ UNCHANGED clientVars /\ at' = at
    BY <1>7 DEF allVars
  <2>2. SessionInv'
    BY <2>1, SessionKept DEF CommandsInv
  <2>3. pos' = pos /\ todo' = todo /\ input' = input /\ thrown' = thrown /\ out' = out /\ phase' = phase
    BY <2>1 DEF vars, callVars
  <2>4. Due' = Due
    BY <2>3, Unmoved, <2>1 DEF Due, Window
  <2>5. AnswersAreDue' /\ Fate' /\ RunStops'
    BY <2>1, <2>3, <2>4, Unmoved DEF CommandsInv, AnswersAreDue, Fate, Failing, RunStops
  <2>6. Talking'
    BY <2>1, <2>3, Unmoved DEF CommandsInv, Talking, Running, Agrees, Follows, Reached
  <2>7. Prefilled(job') = Prefilled(job)
    BY <2>1, Unmoved
  <2>8. Between'
    BY <2>1, <2>3, <2>7, Unmoved DEF CommandsInv, Between, RoomForRun, Agrees, Reached
  <2> QED BY <2>1, <2>2, <2>5, <2>6, <2>8, Unmoved DEF CommandsInv
<1> QED BY <1>1, <1>2, <1>3, <1>4, <1>5, <1>6, <1>7 DEF CommandsNext

\* CommandsInv holds of every behaviour of the commands.
LEMMA CommandsInvariant == CommandsSpec => []CommandsInv
  BY CommandsInvInit, CommandsInvNext, PTL DEF CommandsSpec

\* For any model, text, counts and sizes, and any tokens sampled: the logits that a command samples from,
\* scores or dumps are those of the text it means.
THEOREM AnswersAreAlwaysDue == CommandsSpec => []AnswersAreDue
<1> CommandsInv => AnswersAreDue
  BY DEF CommandsInv
<1> QED BY CommandsInvariant, PTL

\* A command fails only on what cannot be served, and run before it prints a token.
THEOREM FailsOnlyOnLongTexts == CommandsSpec => []FailsOnlyWhenTooLong
<1> CommandsInv => FailsOnlyWhenTooLong
  BY DEF CommandsInv, Fate, Failing, FailsOnlyWhenTooLong
<1> QED BY CommandsInvariant, PTL

\* run stops at its count or at the end of text, and does not print that.
THEOREM RunAlwaysStops == CommandsSpec => []RunStops
<1> CommandsInv => RunStops
  BY DEF CommandsInv
<1> QED BY CommandsInvariant, PTL
=============================================================================
