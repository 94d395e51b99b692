-------------------------------- MODULE Bpe --------------------------------
(***************************************************************************)
(* Tokenizer::encode and encode_piece (src/tokenizer.cpp): special tokens  *)
(* are found first, the text between them is cut into pieces, each piece's *)
(* bytes become ids, and ids are merged pair by pair, the pair of lowest   *)
(* rank first.  pretokenize is any cut of its argument into pieces, which  *)
(* is what Pretokenizer's LosesNothing says of it.                         *)
(***************************************************************************)
EXTENDS Integers, Sequences, SequencesExt

CONSTANTS Inputs  \* records tokens, special (a set of ids), merges (<<a, b, result>> by rank), text

Byte == 0..255
\* The exporter looks the result of a merge up by what its pair spells (tools/elm.py:198).
MergesSpell(x) ==
  \A k \in DOMAIN x.merges :
    x.tokens[x.merges[k][3]] = x.tokens[x.merges[k][1]] \o x.tokens[x.merges[k][2]]
ASSUME InputsAreTables ==
  \A x \in Inputs :
    /\ x.tokens \in Seq(Seq(Byte)) /\ x.text \in Seq(Byte) /\ x.special \subseteq DOMAIN x.tokens
    /\ x.merges \in Seq((DOMAIN x.tokens) \X (DOMAIN x.tokens) \X (DOMAIN x.tokens))
    /\ MergesSpell(x)

VARIABLES
  in,     \* the tokenizer and the text
  at,     \* encode's i
  start,  \* where the text that is not encoded yet starts
  rest,   \* what is left of the stretch that flush encodes
  then,   \* the special token that follows the stretch, 0 for the end of the text
  ids,    \* encode_piece's ids
  out,
  phase   \* "scan", "flush", "merge", "done", "failed"

vars == <<in, at, start, rest, then, ids, out, phase>>

Ids == DOMAIN in.tokens
Spell(s) == FlattenSeq([k \in DOMAIN s |-> in.tokens[s[k]]])

Init ==
  /\ in \in Inputs /\ at = 0 /\ start = 0 /\ rest = <<>> /\ then = 0
  /\ ids = <<>> /\ out = <<>> /\ phase = "scan"

\* byte_id_: the last ordinary token that is this byte alone.
ByteIds(b) == {t \in Ids \ in.special : in.tokens[t] = <<b>>}
ByteId(b) == CHOOSE t \in ByteIds(b) : \A u \in ByteIds(b) : u <= t
-----------------------------------------------------------------------------
(* encode                                                                  *)

\* The special tokens that the text has at offset k, of which the empty ones are not kept.
Matching(k) ==
  {t \in in.special : in.tokens[t] # <<>> /\ IsPrefix(in.tokens[t], SubSeq(in.text, k + 1, Len(in.text)))}
\* specials_ is sorted: the first that matches is a longest one.  Mutant of FirstMatch: sorted the other way.
FirstMatchShortest(k) == {t \in Matching(k) : \A u \in Matching(k) : Len(in.tokens[u]) >= Len(in.tokens[t])}
FirstMatch(k) == {t \in Matching(k) : \A u \in Matching(k) : Len(in.tokens[u]) <= Len(in.tokens[t])}

Scanning == phase = "scan" /\ at < Len(in.text)
Flush(t) ==
  /\ rest' = SubSeq(in.text, start + 1, at) /\ then' = t /\ phase' = "flush"
  /\ UNCHANGED <<in, at, start, ids, out>>

Hit == Scanning /\ \E t \in FirstMatch(at) : Flush(t)
Miss ==
  /\ Scanning /\ FirstMatch(at) = {}
  /\ at' = at + 1 /\ UNCHANGED <<in, start, rest, then, ids, out, phase>>
End == phase = "scan" /\ at = Len(in.text) /\ Flush(0)

\* Mutant of Resume: start stays where the stretch began.
ResumeAtStart(t) == at' = at + Len(in.tokens[t]) /\ start' = start
Resume(t) == at' = at + Len(in.tokens[t]) /\ start' = at'
Flushed ==
  /\ phase = "flush" /\ rest = <<>>
  /\ IF then = 0 THEN phase' = "done" /\ UNCHANGED <<at, start, out>>
     ELSE phase' = "scan" /\ out' = Append(out, then) /\ Resume(then)
  /\ UNCHANGED <<in, rest, then, ids>>
-----------------------------------------------------------------------------
(* encode_piece                                                            *)

\* The next piece of the stretch; a byte that no token spells is an error.
Piece ==
  /\ phase = "flush"
  /\ \E n \in 1..Len(rest) :
       LET piece == SubSeq(rest, 1, n)
       IN  /\ rest' = SubSeq(rest, n + 1, Len(rest))
           /\ IF \E k \in 1..n : ByteIds(piece[k]) = {} THEN phase' = "failed" /\ UNCHANGED ids
              ELSE phase' = "merge" /\ ids' = [k \in 1..n |-> ByteId(piece[k])]
  /\ UNCHANGED <<in, at, start, then, out>>

\* The rank of the pair at k: of two merges of one pair the map keeps the first.
Rank(k) == SelectInSeq(in.merges, LAMBDA m : m[1] = ids[k] /\ m[2] = ids[k+1])
Pairs == {k \in 1..Len(ids)-1 : Rank(k) > 0}
\* The leftmost pair of lowest rank.  Mutant of Best: the rightmost.
BestLast == CHOOSE k \in Pairs : \A j \in Pairs : Rank(k) < Rank(j) \/ (Rank(k) = Rank(j) /\ k >= j)
Best == CHOOSE k \in Pairs : \A j \in Pairs : Rank(k) < Rank(j) \/ (Rank(k) = Rank(j) /\ k <= j)

Merge ==
  /\ phase = "merge" /\ Pairs # {}
  /\ ids' = RemoveAt([ids EXCEPT ![Best] = in.merges[Rank(Best)][3]], Best + 1)
  /\ UNCHANGED <<in, at, start, rest, then, out, phase>>

Emit ==
  /\ phase = "merge" /\ Pairs = {}
  /\ out' = out \o ids /\ ids' = <<>> /\ phase' = "flush"
  /\ UNCHANGED <<in, at, start, rest, then>>

Done == phase \in {"done", "failed"} /\ UNCHANGED vars

Next == Hit \/ Miss \/ End \/ Flushed \/ Piece \/ Merge \/ Emit \/ Done
Spec == Init /\ [][Next]_vars
-----------------------------------------------------------------------------
(* Properties                                                              *)

\* Decoding what encode returns gives the text back, byte for byte.
RoundTrip == phase = "done" => Spell(out) = in.text

\* Where in the text the k-th token of out begins.
Offset(k) == Len(Spell(SubSeq(out, 1, k - 1)))
\* Special tokens win over ordinary text and the longer one over the shorter: where an encoding has an
\* ordinary token no special token begins at any byte of it, and where it has a special one no longer
\* one begins there.
SpecialsWin ==
  phase = "done" =>
    \A k \in DOMAIN out :
      IF out[k] \in in.special THEN \A t \in Matching(Offset(k)) : Len(in.tokens[t]) <= Len(in.tokens[out[k]])
      ELSE \A o \in Offset(k)..Offset(k+1)-1 : Matching(o) = {}

\* A merge, everywhere it fits from the left; and the merges that a table lists, one after the other.
Joined(done, t, m) ==
  IF done # <<>> /\ t = m[2] /\ Last(done) = m[1] THEN Append(Front(done), m[3]) ELSE Append(done, t)
Apply(s, m) ==
  LET done[k \in 0..Len(s)] == IF k = 0 THEN <<>> ELSE Joined(done[k-1], s[k], m) IN done[Len(s)]
ApplyAll(s, ms) ==
  LET after[k \in 0..Len(ms)] == IF k = 0 THEN s ELSE Apply(after[k-1], ms[k]) IN after[Len(ms)]
BytesAlone(bytes) == [k \in DOMAIN bytes |-> ByteId(bytes[k])]
\* Merging one leftmost pair at a time ends where byte-pair encoding is defined to end: with every merge
\* applied in the order it was learned.
MergesAsLearned ==
  phase = "merge" /\ Pairs = {} => ids = ApplyAll(BytesAlone(Spell(ids)), in.merges)

\* Training makes a new token of two that it has (tools/make_tiny.py:49-52), which no merge up to there is of.
InLearningOrder(x) ==
  \A k \in DOMAIN x.merges : \A l \in 1..k : x.merges[k][3] \notin {x.merges[l][1], x.merges[l][2]}
=============================================================================
