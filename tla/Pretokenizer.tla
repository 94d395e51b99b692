---------------------------- MODULE Pretokenizer ----------------------------
(***************************************************************************)
(* pretokenize and gpt2_split (src/tokenizer.cpp): the text, a sequence of *)
(* bytes, is cut at every ASCII digit, each stretch between is decoded as  *)
(* UTF-8 and split the way GPT-2's regular expression matches.  The regex  *)
(* itself, as its alternatives are defined, is the reference.              *)
(***************************************************************************)
EXTENDS Integers, Sequences, SequencesExt

CONSTANTS Texts  \* the texts to split

Byte == 0..255
ASSUME TextsAreBytes == \A t \in Texts : t \in Seq(Byte)

VARIABLES
  text,
  at,     \* bytes of the text that the outer loop is done with
  cur,    \* the digit-free stretch that is being collected or split
  phase,  \* "gather", "split" or "done"
  cps,    \* the code points of the stretch: records cp, off, len
  i,      \* gpt2_split's place in cps, from 1
  out     \* the pieces

vars == <<text, at, cur, phase, cps, i, out>>

Init ==
  /\ text \in Texts /\ at = 0 /\ cur = <<>> /\ phase = "gather" /\ cps = <<>> /\ i = 1 /\ out = <<>>

\* classify
Spaces == {32, 133, 160, 5760, 8232, 8233, 8239, 8287, 12288} \cup 9..13 \cup 8192..8202
Digits == 48..57
Numbers == Digits \cup {178, 179, 185} \cup 188..190
Letters == 65..90 \cup 97..122 \cup {170, 181, 186}
Symbols == {215, 247} \cup 768..879 \cup 8192..11263 \cup 12288..12351 \cup 65024..65039
             \cup 65281..65295 \cup 126976..129791
Classify(cp) ==
  CASE cp \in Spaces -> "space"
    [] cp \in Numbers -> "number"
    [] cp \in Letters -> "letter"
    [] cp \notin Spaces \cup Numbers \cup Letters ->
         IF cp < 192 \/ cp \in Symbols THEN "other" ELSE "letter"

\* decode_utf8: how long the code point at s[k] says it is; one byte when the text ends before that.
Announced(b) ==
  CASE b \div 32 = 6 -> 2 [] b \div 16 = 14 -> 3 [] b \div 8 = 30 -> 4 [] OTHER -> 1
Length(s, k) == IF k + Announced(s[k]) - 1 <= Len(s) THEN Announced(s[k]) ELSE 1
CodePoint(s, k, n) ==
  IF n = 1 THEN s[k]
  ELSE FoldLeft(LAMBDA cp, b : cp * 64 + (b % 64), s[k] % (2^(7 - n)), SubSeq(s, k + 1, k + n - 1))
Decode(s) ==
  LET from[k \in 1..Len(s)+1] ==
        IF k > Len(s) THEN <<>>
        ELSE LET n == Length(s, k)
             IN  <<[cp |-> CodePoint(s, k, n), off |-> k, len |-> n]>> \o from[k + n]
  IN  from[1]

Ch(c) == CASE c = "s" -> 115 [] c = "t" -> 116 [] c = "m" -> 109 [] c = "d" -> 100 [] c = "r" -> 114
           [] c = "e" -> 101 [] c = "v" -> 118 [] c = "l" -> 108 [] c = "'" -> 39 [] c = " " -> 32
Cls(c, k) == Classify(c[k].cp)
IsCh(c, k, ch) == k <= Len(c) /\ c[k].cp = Ch(ch)
\* Mutant of Emitted: the last code point is counted as one byte.
EmittedShort(c, b, e) == SubSeq(cur, c[b].off, c[e-1].off)
Emitted(c, b, e) == SubSeq(cur, c[b].off, c[e-1].off + c[e-1].len - 1)
-----------------------------------------------------------------------------
(* pretokenize                                                             *)

NextIsDigit == at < Len(text) /\ text[at+1] \in Digits

Gather ==
  /\ phase = "gather" /\ at < Len(text) /\ ~NextIsDigit
  /\ cur' = Append(cur, text[at+1]) /\ at' = at + 1
  /\ UNCHANGED <<text, phase, cps, i, out>>

\* A digit, or the end of the text, closes the stretch.
StartSplit ==
  /\ phase = "gather" /\ cur # <<>> /\ (NextIsDigit \/ at = Len(text))
  /\ phase' = "split" /\ cps' = Decode(cur) /\ i' = 1
  /\ UNCHANGED <<text, at, cur, out>>

Digit ==
  /\ phase = "gather" /\ cur = <<>> /\ NextIsDigit
  /\ out' = Append(out, <<text[at+1]>>) /\ at' = at + 1
  /\ UNCHANGED <<text, cur, phase, cps, i>>

Finish ==
  /\ phase = "gather" /\ cur = <<>> /\ at = Len(text)
  /\ phase' = "done" /\ UNCHANGED <<text, at, cur, cps, i, out>>
-----------------------------------------------------------------------------
(* gpt2_split, one piece per turn                                          *)

EmitUpTo(e) ==
  /\ out' = Append(out, Emitted(cps, i, e)) /\ i' = e
  /\ UNCHANGED <<text, at, cur, phase, cps>>

\* How many code points a contraction at k has, 0 when there is none.
Contracted(c, k) ==
  IF ~(IsCh(c, k, "'") /\ k + 1 <= Len(c)) THEN 0
  ELSE IF \E ch \in {"s", "t", "m", "d"} : IsCh(c, k + 1, ch) THEN 2
  ELSE IF \E p \in {<<"r", "e">>, <<"v", "e">>, <<"l", "l">>} : IsCh(c, k + 1, p[1]) /\ IsCh(c, k + 2, p[2]) THEN 3
  ELSE 0

\* Where the run of one class that starts at k ends.
RunEnd(k) ==
  CHOOSE e \in k..Len(cps)+1 :
    /\ \A x \in k..e-1 : Cls(cps, x) = Cls(cps, k)
    /\ e <= Len(cps) => Cls(cps, e) # Cls(cps, k)
\* A space goes with the word after it.
WordStart == IF IsCh(cps, i, " ") /\ i + 1 <= Len(cps) /\ Cls(cps, i + 1) # "space" THEN i + 1 ELSE i

Splitting == phase = "split" /\ i <= Len(cps)
Contraction == Splitting /\ Contracted(cps, i) > 0 /\ EmitUpTo(i + Contracted(cps, i))
Word ==
  /\ Splitting /\ Contracted(cps, i) = 0
  /\ Cls(cps, WordStart) # "space"
  /\ EmitUpTo(RunEnd(WordStart))
\* Two spaces or more leave the last one for what follows.  Mutant of SpaceEnd: they do not.
SpaceEndGreedy == RunEnd(i)
SpaceEnd == IF RunEnd(i) <= Len(cps) /\ RunEnd(i) - i >= 2 THEN RunEnd(i) - 1 ELSE RunEnd(i)
Space ==
  /\ Splitting /\ Contracted(cps, i) = 0
  /\ Cls(cps, WordStart) = "space"
  /\ EmitUpTo(SpaceEnd)
EndSplit ==
  /\ phase = "split" /\ i > Len(cps)
  /\ phase' = "gather" /\ cur' = <<>> /\ cps' = <<>> /\ i' = 1
  /\ UNCHANGED <<text, at, out>>

Done == phase = "done" /\ UNCHANGED vars

Next == Gather \/ StartSplit \/ Digit \/ Finish \/ Contraction \/ Word \/ Space \/ EndSplit \/ Done
Spec == Init /\ [][Next]_vars
-----------------------------------------------------------------------------
(* The regular expression                                                  *)
(* 's|'t|'re|'ve|'m|'ll|'d, space? letters, space? numbers, space? others,  *)
(* whitespace that no other character follows, whitespace.                 *)

Endings == {<<"s">>, <<"t">>, <<"r", "e">>, <<"v", "e">>, <<"m">>, <<"l", "l">>, <<"d">>}
All(c, from, n, class) == n > 0 /\ from + n - 1 <= Len(c) /\ \A x \in from..from+n-1 : Cls(c, x) = class
\* The lengths at which alternative alt matches c from k on.
Matches(c, k, alt) ==
  {n \in 1..Len(c)-k+1 :
    CASE alt = "contraction" ->
           IsCh(c, k, "'") /\ \E w \in Endings : n = Len(w) + 1 /\ \A x \in 1..Len(w) : IsCh(c, k + x, w[x])
      [] alt \in {"letter", "number", "other"} ->
           All(c, k, n, alt) \/ (IsCh(c, k, " ") /\ All(c, k + 1, n - 1, alt))
      [] alt = "trailing" -> All(c, k, n, "space") /\ (k + n > Len(c) \/ Cls(c, k + n) = "space")
      [] alt = "space" -> All(c, k, n, "space")}
Alternatives == <<"contraction", "letter", "number", "other", "trailing", "space">>
\* The first alternative that matches, at its longest.
MatchLength(c, k) ==
  LET a == CHOOSE a \in DOMAIN Alternatives :
             Matches(c, k, Alternatives[a]) # {} /\ \A b \in 1..a-1 : Matches(c, k, Alternatives[b]) = {}
      M == Matches(c, k, Alternatives[a])
  IN  CHOOSE n \in M : \A m \in M : m <= n
-----------------------------------------------------------------------------
(* Properties                                                              *)

\* Every piece of the split is the regular expression's next match: the hand-written loop agrees with it
\* on contractions, on the space before a word, on runs of spaces and where they end, and on bytes that
\* are not UTF-8.
SplitsByTheRegex ==
  [][phase = "split" /\ i' > i =>
       LET e == i + MatchLength(cps, i)
       IN  out' = Append(out, SubSeq(cur, cps[i].off, IF e <= Len(cps) THEN cps[e].off - 1 ELSE Len(cur)))]_vars

\* No byte is lost, added or reordered, whatever the bytes are: the tokens of the pieces decode to the text.
LosesNothing ==
  LET split == IF phase # "split" THEN 0 ELSE IF i <= Len(cps) THEN cps[i].off - 1 ELSE Len(cur)
  IN  FlattenSeq(out) \o SubSeq(cur, split + 1, Len(cur)) = SubSeq(text, 1, at)
=============================================================================
