----------------------------- MODULE Bpe_proofs -----------------------------
(* Bpe's RoundTrip and SpecialsWin, for every table whose merges spell     *)
(* what their pairs spell, every text and every cut of it into pieces; and *)
(* MergesAsLearned, for every such table in the order training leaves.     *)
EXTENDS Bpe, SequenceTheorems, WellFoundedInduction, TLAPS

\* The lemmas on FlattenSeq are proved with the pre-tokenizer, and mention none of its variables.
Cut == INSTANCE Pretokenizer_proofs
         WITH Texts <- {}, text <- <<>>, cur <- <<>>, phase <- "done", cps <- <<>>, i <- 1, out <- <<>>

-----------------------------------------------------------------------------
(* Concatenation                                                           *)

\* A set of natural numbers has a least one: what stands for induction on the length of a sequence.
LEMMA LeastExists ==
  ASSUME NEW S \in SUBSET Nat, S # {}
  PROVE  \E m \in S : \A n \in S : m <= n
  BY Cut!LeastExists

\* The concatenation of no sequences.
LEMMA FlattenNone == FlattenSeq(<<>>) = <<>>
  BY DEF FlattenSeq

\* One more sequence goes to the end of the concatenation.
LEMMA FlattenAppend ==
  ASSUME NEW C, NEW s \in Seq(Seq(C)), NEW x \in Seq(C)
  PROVE  FlattenSeq(Append(s, x)) = FlattenSeq(s) \o x
  BY Cut!FlattenAppend DEF FlattenSeq, Cut!FlattenSeq

\* A sequence is empty, or its last element comes after the others.
LEMMA LastApart ==
  ASSUME NEW B, NEW s \in Seq(B), Len(s) # 0
  PROVE  \E r \in Seq(B), x \in B : s = Append(r, x) /\ Len(r) = Len(s) - 1
<1> DEFINE n == Len(s)
           r == SubSeq(s, 1, n - 1)
<1>1. n \in Nat \ {0} /\ n \in 1..n /\ 1 \in 1..n /\ s[n] \in B
  BY LenProperties, ElementOfSeq
<1>2. SubSeq(s, 1, n) = r \o <<s[n]>> /\ SubSeq(s, 1, n) = s
  BY <1>1, SubSeqRecursiveSecond, SubSeqFull
<1>3. r \in Seq(B) /\ Len(r) = n - 1
  <2>1. \A k \in 1..n-1 : s[k] \in B
    BY <1>1, ElementOfSeq
  <2> HIDE DEF n, r
  <2>2. n - 1 \in Int /\ 1 \in Int /\ (IF 1 <= n - 1 THEN (n - 1) - 1 + 1 ELSE 0) = n - 1
    BY <1>1
  <2> USE DEF r
  <2> QED BY <2>1, <2>2, SubSeqProperties
<1> HIDE DEF r, n
<1>4. Append(r, s[n]) = r \o <<s[n]>>
  BY <1>1, <1>3, AppendIsConcat
<1> QED BY <1>1, <1>2, <1>3, <1>4 DEF n

\* Three pieces of text concatenate in either order.
LEMMA ConcatThree ==
  ASSUME NEW C, NEW r, NEW s, NEW t, r \in Seq(C), s \in Seq(C), t \in Seq(C)
  PROVE  (r \o s) \o t = r \o (s \o t) /\ s \o t \in Seq(C)
  BY ConcatAssociative, ConcatProperties

\* An equation of its own, so that a prover can take it as it is.
Regroups(w, x, y, z) == (w \o x) \o (y \o z) = (w \o (x \o y)) \o z

\* Four pieces: the two in the middle may go together first.
LEMMA ConcatFour ==
  ASSUME NEW C
  PROVE  \A w, x, y, z \in Seq(C) : Regroups(w, x, y, z)
<1> SUFFICES ASSUME NEW w \in Seq(C), NEW x \in Seq(C), NEW y \in Seq(C), NEW z \in Seq(C)
             PROVE  (w \o x) \o (y \o z) = (w \o (x \o y)) \o z
  BY DEF Regroups
<1>1. w \o x \in Seq(C)
  BY ConcatProperties
<1>2. ((w \o x) \o y) \o z = (w \o x) \o (y \o z)
  BY <1>1, ConcatAssociative, SMTT(40)
<1>3. (w \o x) \o y = w \o (x \o y)
  BY ConcatAssociative
<1> QED BY <1>2, <1>3

\* Sequences that agree on a stretch have it in common.
LEMMA SubSeqAgree ==
  ASSUME NEW s, NEW t, NEW m \in Int, NEW n \in Int, \A j \in m..n : s[j] = t[j]
  PROVE  SubSeq(s, m, n) = SubSeq(t, m, n)
  OBVIOUS

\* Appending to the second of two sequences appends to both.
LEMMA ConcatAppend ==
  ASSUME NEW B, NEW s \in Seq(B), NEW r \in Seq(B), NEW x \in B
  PROVE  s \o r \in Seq(B) /\ s \o Append(r, x) = Append(s \o r, x)
<1>1. <<x>> \in Seq(B)
  OBVIOUS
<1>2. s \o r \in Seq(B)
  BY ConcatProperties
<1>3. (s \o r) \o <<x>> = s \o (r \o <<x>>)
  BY <1>1, ConcatAssociative
<1>4. Append(r, x) = r \o <<x>> /\ Append(s \o r, x) = (s \o r) \o <<x>>
  BY <1>2, AppendIsConcat
<1> QED BY <1>2, <1>3, <1>4

\* What holds of the concatenation of t after s, for a least counterexample of length n.
FlattenGood(C, s, t) ==
  FlattenSeq(t) \in Seq(C) /\ FlattenSeq(s \o t) = FlattenSeq(s) \o FlattenSeq(t)

\* The step of FlattenConcatAt: one more sequence at the end of t.
LEMMA FlattenMore ==
  ASSUME NEW C, NEW s \in Seq(Seq(C)), NEW r \in Seq(Seq(C)), NEW x \in Seq(C),
         FlattenSeq(s) \in Seq(C), FlattenGood(C, s, r)
  PROVE  FlattenGood(C, s, Append(r, x))
<1>1. FlattenSeq(Append(r, x)) = FlattenSeq(r) \o x
  BY FlattenAppend
<1>2. s \o r \in Seq(Seq(C)) /\ s \o Append(r, x) = Append(s \o r, x)
  <2> DEFINE B == Seq(C)
  <2>1. s \in Seq(B) /\ r \in Seq(B) /\ x \in B
    OBVIOUS
  <2> HIDE DEF B
  <2>2. s \o r \in Seq(B) /\ s \o Append(r, x) = Append(s \o r, x)
    BY <2>1, ConcatAppend, SMTT(30)
  <2> QED BY <2>2 DEF B
<1>3. FlattenSeq(s \o Append(r, x)) = FlattenSeq(s \o r) \o x
  BY <1>2, FlattenAppend
<1>4. PICK F, G : F = FlattenSeq(s) /\ G = FlattenSeq(r)
  OBVIOUS
<1>5. F \in Seq(C) /\ G \in Seq(C) /\ FlattenSeq(s \o r) = F \o G
  BY <1>4 DEF FlattenGood
<1>6. (F \o G) \o x = F \o (G \o x) /\ G \o x \in Seq(C)
  <2>1. F \in Seq(C) /\ G \in Seq(C) /\ x \in Seq(C)
    BY <1>5
  <2> HIDE DEF FlattenGood
  <2>2. G \o x \in Seq(C)
    BY <2>1, ConcatProperties
  <2> QED BY <2>1, <2>2, ConcatThree, SMTT(40)
<1> QED BY <1>1, <1>3, <1>4, <1>5, <1>6 DEF FlattenGood

\* Flattening s and then t is flattening s \o t, by the least length of t where it is not.
LEMMA FlattenConcatAt ==
  ASSUME NEW C, NEW s \in Seq(Seq(C)), FlattenSeq(s) \in Seq(C)
  PROVE  \A t \in Seq(Seq(C)) : FlattenGood(C, s, t)
<1> DEFINE Bad == {n \in Nat : \E t \in Seq(Seq(C)) : Len(t) = n /\ ~FlattenGood(C, s, t)}
<1>1. SUFFICES Bad = {}
  BY LenProperties
<1>2. SUFFICES ASSUME Bad # {} PROVE FALSE
  OBVIOUS
<1>3. PICK n \in Bad : \A m \in Bad : n <= m
  <2>1. Bad \in SUBSET Nat
    OBVIOUS
  <2> HIDE DEF Bad
  <2> QED BY <1>2, <2>1, LeastExists
<1>4. PICK t \in Seq(Seq(C)) : Len(t) = n /\ ~FlattenGood(C, s, t)
  OBVIOUS
<1>5. n \in Nat
  OBVIOUS
<1> DEFINE B == Seq(C)
<1>6. CASE n = 0
  <2>1. t = <<>>
    BY <1>4, <1>6, EmptySeq
  <2>2. s \o <<>> = s
    BY ConcatEmptySeq
  <2>3. FlattenSeq(s) \o <<>> = FlattenSeq(s)
    BY ConcatEmptySeq
  <2>4. FlattenSeq(t) = <<>> /\ <<>> \in Seq(C)
    BY <2>1, FlattenNone
  <2> QED BY <1>4, <2>1, <2>2, <2>3, <2>4 DEF FlattenGood
<1>7. CASE n # 0
  <2>1. PICK r \in Seq(B) : \E y \in B : t = Append(r, y) /\ Len(r) = n - 1
    <3> HIDE DEF B
    <3>1. t \in Seq(B) /\ Len(t) # 0
      BY <1>4, <1>7 DEF B
    <3> QED BY <1>4, <3>1, LastApart, ZenonT(40)
  <2>2. PICK x \in B : t = Append(r, x) /\ Len(r) = n - 1
    BY <2>1
  <2>3. n - 1 \in Nat /\ ~(n <= n - 1)
    BY <1>5, <1>7
  <2>4. n - 1 \notin Bad
    <3> HIDE DEF Bad
    <3> QED BY <1>3, <2>3
  <2>5. FlattenGood(C, s, r)
    BY <2>2, <2>3, <2>4
  <2>6. FlattenGood(C, s, Append(r, x))
    BY <2>5, FlattenMore
  <2> QED BY <1>4, <2>2, <2>6
<1> QED BY <1>6, <1>7

\* The concatenation of two sequences of sequences is the concatenation of theirs.
LEMMA FlattenConcat ==
  ASSUME NEW C, NEW s \in Seq(Seq(C)), NEW t \in Seq(Seq(C))
  PROVE  /\ FlattenSeq(s) \in Seq(C) /\ FlattenSeq(t) \in Seq(C)
         /\ FlattenSeq(s \o t) = FlattenSeq(s) \o FlattenSeq(t)
<1>1. <<>> \in Seq(Seq(C)) /\ FlattenSeq(<<>>) \in Seq(C)
  BY FlattenNone, EmptySeq
<1>2. \A r \in Seq(Seq(C)) : FlattenSeq(r) \in Seq(C)
  <2>1. \A r \in Seq(Seq(C)) : FlattenGood(C, <<>>, r)
    BY <1>1, FlattenConcatAt
  <2> QED BY <2>1 DEF FlattenGood
<1>3. FlattenSeq(s) \in Seq(C)
  BY <1>2
<1>4. FlattenGood(C, s, t)
  BY <1>3, FlattenConcatAt
<1> QED BY <1>3, <1>4 DEF FlattenGood

\* The sequences of one element each that make up p.
Singles(p) == [k \in 1..Len(p) |-> <<p[k]>>]

\* The step of SinglesFlatten: one more element.
LEMMA SinglesMore ==
  ASSUME NEW C, NEW r \in Seq(C), NEW x \in C, FlattenSeq(Singles(r)) = r
  PROVE  FlattenSeq(Singles(Append(r, x))) = Append(r, x)
<1> DEFINE p == Append(r, x)
           B == Seq(C)
<1>1. /\ p \in Seq(C) /\ Len(p) = Len(r) + 1 /\ Len(r) \in Nat /\ p[Len(p)] = x
      /\ \A k \in 1..Len(r) : p[k] = r[k]
  BY AppendProperties
<1>2. Singles(r) \in Seq(B) /\ Len(Singles(r)) = Len(r) /\ <<x>> \in B
  <2>1. \A k \in 1..Len(r) : <<r[k]>> \in B
    BY ElementOfSeq
  <2> HIDE DEF B
  <2>2. Singles(r) \in Seq(B) /\ Len(Singles(r)) = Len(r)
    BY <1>1, <2>1 DEF Singles
  <2> QED BY <2>2 DEF B
<1>3. Singles(p) = Append(Singles(r), <<x>>)
  <2> HIDE DEF p
  <2> DEFINE q == Append(Singles(r), <<x>>)
  <2>1. Singles(p) = [k \in 1..Len(r)+1 |-> <<p[k]>>]
    BY <1>1 DEF Singles
  <2>2. q = [k \in 1..Len(r)+1 |-> q[k]]
    <3> HIDE DEF B
    <3> QED BY <1>1, <1>2
  <2>3. ASSUME NEW k \in 1..Len(r)+1 PROVE q[k] = <<p[k]>>
    <3> HIDE DEF B
    <3>1. CASE k = Len(r) + 1
      BY <1>1, <1>2, <3>1
    <3>2. CASE k # Len(r) + 1
      <4>1. k \in 1..Len(r)
        BY <1>1, <3>2
      <4>2. q[k] = Singles(r)[k]
        BY <1>2, <4>1
      <4>3. Singles(r)[k] = <<r[k]>>
        BY <4>1 DEF Singles
      <4> QED BY <1>1, <4>1, <4>2, <4>3
    <3> QED BY <3>1, <3>2
  <2> HIDE DEF q
  <2> QED BY <2>1, <2>2, <2>3 DEF q
<1>4. FlattenSeq(Append(Singles(r), <<x>>)) = FlattenSeq(Singles(r)) \o <<x>>
  BY <1>2, FlattenAppend
<1>5. p = r \o <<x>>
  BY AppendIsConcat
<1> QED BY <1>3, <1>4, <1>5

\* A sequence is the concatenation of its elements: what ids of single bytes spell is their piece.
LEMMA SinglesFlatten ==
  ASSUME NEW C
  PROVE  \A p \in Seq(C) : FlattenSeq(Singles(p)) = p
<1> DEFINE Bad == {n \in Nat : \E p \in Seq(C) : Len(p) = n /\ FlattenSeq(Singles(p)) # p}
<1>1. SUFFICES Bad = {}
  BY LenProperties
<1>2. SUFFICES ASSUME Bad # {} PROVE FALSE
  OBVIOUS
<1>3. PICK n \in Bad : \A m \in Bad : n <= m
  <2>1. Bad \in SUBSET Nat
    OBVIOUS
  <2> HIDE DEF Bad
  <2> QED BY <1>2, <2>1, LeastExists
<1>4. PICK p \in Seq(C) : Len(p) = n /\ FlattenSeq(Singles(p)) # p
  OBVIOUS
<1>5. n \in Nat
  OBVIOUS
<1>6. n # 0
  <2>1. SUFFICES ASSUME n = 0 PROVE FALSE
    OBVIOUS
  <2>2. p = <<>>
    BY <1>4, <2>1, EmptySeq
  <2>3. Singles(<<>>) = <<>>
    BY DEF Singles
  <2> QED BY <1>4, <2>2, <2>3, FlattenNone
<1>7. PICK r \in Seq(C) : \E x \in C : p = Append(r, x) /\ Len(r) = n - 1
  BY <1>4, <1>6, LastApart, SMTT(40)
<1>8. PICK x \in C : p = Append(r, x) /\ Len(r) = n - 1
  BY <1>7
<1>9. n - 1 \in Nat /\ ~(n <= n - 1)
  BY <1>5, <1>6
<1>10. n - 1 \notin Bad
  <2> HIDE DEF Bad
  <2> QED BY <1>3, <1>9
<1>11. FlattenSeq(Singles(r)) = r
  BY <1>8, <1>9, <1>10
<1>12. FlattenSeq(Singles(Append(r, x))) = Append(r, x)
  BY <1>11, SinglesMore
<1> QED BY <1>4, <1>8, <1>12

-----------------------------------------------------------------------------
(* Spelling                                                                *)

Words(tok, s) == [k \in DOMAIN s |-> tok[s[k]]]
Spelling(tok, s) == FlattenSeq(Words(tok, s))

\* What each of two sequences of ids spells, token by token, makes up what both spell.
LEMMA WordsConcat ==
  ASSUME NEW B, NEW tok \in Seq(B), NEW s \in Seq(DOMAIN tok), NEW t \in Seq(DOMAIN tok)
  PROVE  /\ Words(tok, s) \in Seq(B) /\ Words(tok, t) \in Seq(B)
         /\ s \o t \in Seq(DOMAIN tok)
         /\ Words(tok, s \o t) = Words(tok, s) \o Words(tok, t)
<1> DEFINE D == DOMAIN tok
<1>1. \A d \in D : tok[d] \in B
  BY LenProperties, ElementOfSeq
<1> HIDE DEF D
<1>2. ASSUME NEW u \in Seq(D) PROVE Words(tok, u) \in Seq(B) /\ Len(Words(tok, u)) = Len(u)
  <2>1. Len(u) \in Nat /\ DOMAIN u = 1..Len(u) /\ \A k \in 1..Len(u) : u[k] \in D
    BY LenProperties, ElementOfSeq
  <2> QED BY <1>1, <2>1 DEF Words
<1>3. s \in Seq(D) /\ t \in Seq(D)
  BY DEF D
<1>4. /\ s \o t \in Seq(D) /\ Len(s \o t) = Len(s) + Len(t) /\ Len(s) \in Nat /\ Len(t) \in Nat
      /\ \A k \in 1..Len(s)+Len(t) : (s \o t)[k] = IF k <= Len(s) THEN s[k] ELSE t[k - Len(s)]
  BY <1>3, ConcatProperties, LenProperties
<1> DEFINE v == Words(tok, s)
           w == Words(tok, t)
<1>5. /\ v \in Seq(B) /\ w \in Seq(B) /\ v \o w \in Seq(B) /\ Len(v \o w) = Len(s) + Len(t)
      /\ \A k \in 1..Len(s)+Len(t) : (v \o w)[k] = IF k <= Len(s) THEN v[k] ELSE w[k - Len(s)]
  <2>1. v \in Seq(B) /\ w \in Seq(B) /\ Len(v) = Len(s) /\ Len(w) = Len(t)
    BY <1>2, <1>3
  <2> HIDE DEF v, w
  <2>2. /\ v \o w \in Seq(B) /\ Len(v \o w) = Len(v) + Len(w)
        /\ \A k \in 1..Len(v)+Len(w) : (v \o w)[k] = IF k <= Len(v) THEN v[k] ELSE w[k - Len(v)]
    BY <2>1, ConcatProperties
  <2> QED BY <2>1, <2>2, Zenon
<1> DEFINE c == s \o t
           d == v \o w
<1>6. ASSUME NEW k \in 1..Len(s)+Len(t) PROVE Words(tok, c)[k] = d[k]
  <2>1. Words(tok, c)[k] = tok[c[k]]
    <3> HIDE DEF c
    <3> QED BY <1>4, LenProperties DEF Words, c
  <2>2. CASE k <= Len(s)
    <3>1. k \in DOMAIN s
      BY <1>3, <1>4, <2>2, LenProperties
    <3>2. v[k] = tok[s[k]]
      BY <3>1 DEF Words
    <3> HIDE DEF v, w
    <3> QED BY <1>4, <1>5, <2>1, <2>2, <3>2
  <2>3. CASE ~(k <= Len(s))
    <3>1. k - Len(s) \in DOMAIN t
      BY <1>3, <1>4, <2>3, LenProperties
    <3>2. w[k - Len(s)] = tok[t[k - Len(s)]]
      BY <3>1 DEF Words
    <3> HIDE DEF v, w
    <3> QED BY <1>4, <1>5, <2>1, <2>3, <3>2
  <2> QED BY <2>2, <2>3
<1>7. Words(tok, c) = d
  <2>1. c \in Seq(D)
    BY <1>4
  <2>2. Words(tok, c) \in Seq(B) /\ Len(Words(tok, c)) = Len(c)
    <3> HIDE DEF c
    <3> QED BY <1>2, <2>1
  <2>3. d \in Seq(B) /\ Len(d) = Len(s) + Len(t)
    BY <1>5
  <2> DEFINE e == Words(tok, c)
  <2>4. e \in Seq(B) /\ Len(e) = Len(d) /\ \A k \in 1..Len(e) : e[k] = d[k]
    BY <1>4, <1>6, <2>2, <2>3
  <2> HIDE DEF e, d
  <2> QED BY <2>3, <2>4, SeqEqual DEF e
<1> QED BY <1>4, <1>5, <1>7 DEF D

\* Ids after ids spell text after text: an encoding decodes piece by piece.
LEMMA SpellingConcat ==
  ASSUME NEW C, NEW tok \in Seq(Seq(C)), NEW s \in Seq(DOMAIN tok), NEW t \in Seq(DOMAIN tok)
  PROVE  /\ Spelling(tok, s) \in Seq(C) /\ Spelling(tok, t) \in Seq(C)
         /\ Spelling(tok, s \o t) = Spelling(tok, s) \o Spelling(tok, t)
<1> DEFINE B == Seq(C)
           v == Words(tok, s)
           w == Words(tok, t)
<1>1. v \in Seq(B) /\ w \in Seq(B) /\ Words(tok, s \o t) = v \o w
  <2> HIDE DEF B
  <2> QED BY WordsConcat DEF B
<1>2. FlattenSeq(v) \in B /\ FlattenSeq(w) \in B /\ FlattenSeq(v \o w) = FlattenSeq(v) \o FlattenSeq(w)
  <2> HIDE DEF v, w
  <2> QED BY <1>1, FlattenConcat
<1> QED BY <1>1, <1>2 DEF Spelling

\* One id spells its token.
LEMMA SpellingOne ==
  ASSUME NEW C, NEW tok \in Seq(Seq(C)), NEW t \in DOMAIN tok
  PROVE  Spelling(tok, <<t>>) = tok[t] /\ tok[t] \in Seq(C) /\ <<t>> \in Seq(DOMAIN tok)
<1> DEFINE x == tok[t]
<1>1. x \in Seq(C)
  BY LenProperties, ElementOfSeq
<1> HIDE DEF x
<1>2. Words(tok, <<t>>) = <<x>>
  BY DEF Words, x
<1>3. <<x>> = Append(<<>>, x)
  OBVIOUS
<1>4. FlattenSeq(Append(<<>>, x)) = FlattenSeq(<<>>) \o x
  BY <1>1, EmptySeq, FlattenAppend
<1>5. <<>> \o x = x
  BY <1>1, ConcatEmptySeq
<1>6. <<t>> \in Seq(DOMAIN tok)
  OBVIOUS
<1> QED BY <1>1, <1>2, <1>3, <1>4, <1>5, <1>6, FlattenNone DEF Spelling, x

\* Tokens of one byte each spell the bytes.
LEMMA SpellingBytes ==
  ASSUME NEW C, NEW tok \in Seq(Seq(C)), NEW p \in Seq(C), NEW s,
         s = [k \in 1..Len(p) |-> s[k]], \A k \in 1..Len(p) : tok[s[k]] = <<p[k]>>
  PROVE  Spelling(tok, s) = p
<1>1. DOMAIN s = 1..Len(p)
  OBVIOUS
<1>2. Words(tok, s) = Singles(p)
  BY <1>1 DEF Words, Singles
<1> QED BY <1>2, SinglesFlatten DEF Spelling

\* No ids spell no text.
LEMMA SpellingNone == ASSUME NEW tok PROVE Spelling(tok, <<>>) = <<>>
<1>1. Words(tok, <<>>) = <<>>
  BY DEF Words
<1> QED BY <1>1, FlattenNone DEF Spelling

\* A pair that is replaced by what it spells leaves the spelling as it is.
LEMMA SpellingMerged ==
  ASSUME NEW C, NEW tok \in Seq(Seq(C)), NEW s \in Seq(DOMAIN tok), NEW k \in 1..Len(s)-1, NEW r \in DOMAIN tok,
         tok[r] = tok[s[k]] \o tok[s[k+1]]
  PROVE  LET m == RemoveAt([s EXCEPT ![k] = r], k + 1)
         IN  m \in Seq(DOMAIN tok) /\ Spelling(tok, m) = Spelling(tok, s)
<1> DEFINE D == DOMAIN tok
           n == Len(s)
           e == [s EXCEPT ![k] = r]
           left == SubSeq(s, 1, k - 1)
           right == SubSeq(s, k + 2, n)
           a == s[k]
           b == s[k+1]
<1>1. n \in Nat /\ k \in 1..n /\ k + 1 \in 1..n /\ s \in Seq(D) /\ r \in D /\ DOMAIN s = 1..n
  BY LenProperties
<1> HIDE DEF D
<1>2. a \in D /\ b \in D /\ \A j \in 1..n : s[j] \in D
  BY <1>1, ElementOfSeq
<1>3. e \in Seq(D) /\ Len(e) = n /\ \A j \in 1..n : e[j] = IF j = k THEN r ELSE s[j]
  BY <1>1, ExceptSeq
<1>4. left \in Seq(D) /\ right \in Seq(D)
  <2>1. 1 \in Int /\ k - 1 \in Int /\ k + 2 \in Int /\ n \in Int
    BY <1>1
  <2> HIDE DEF n
  <2>2. 1..k-1 \subseteq 1..n /\ k+2..n \subseteq 1..n
    <3>1. n \in Nat /\ k \in 1..n
      BY <1>1
    <3> QED BY <3>1
  <2>3. (\A j \in 1..k-1 : s[j] \in D) /\ (\A j \in k+2..n : s[j] \in D)
    BY <1>2, <2>2
  <2> QED BY <2>1, <2>3, SubSeqProperties
<1>5. s = (left \o <<a>>) \o (<<b>> \o right)
  <2>1. s = SubSeq(s, 1, n)
    BY <1>1, SubSeqFull
  <2>2. SubSeq(s, 1, k) = left \o <<a>>
    <3>1. 1 \in 1..n /\ k \in 1..n
      BY <1>1
    <3> QED BY <1>1, <3>1, SubSeqRecursiveSecond
  <2>3. SubSeq(s, k + 1, n) = <<b>> \o right
    <3>1. k + 1 \in 1..n /\ n \in k+1..n /\ (k + 1) + 1 = k + 2
      BY <1>1
    <3> HIDE DEF n
    <3>2. SubSeq(s, k + 1, n) = <<s[k+1]>> \o SubSeq(s, (k + 1) + 1, n)
      BY <1>1, <3>1, SubSeqRecursiveFirst DEF n
    <3> QED BY <3>1, <3>2
  <2>4. SubSeq(s, 1, k) \o SubSeq(s, k + 1, n) = SubSeq(s, 1, n)
    <3>1. 1 \in 1..n+1 /\ k \in 1-1..n /\ n \in k..n
      BY <1>1
    <3> QED BY <1>1, <3>1, ConcatAdjacentSubSeq
  <2> QED BY <2>1, <2>2, <2>3, <2>4
<1>6. RemoveAt(e, k + 1) = (left \o <<r>>) \o right
  <2>1. RemoveAt(e, k + 1) = SubSeq(e, 1, k) \o SubSeq(e, k + 2, n)
    <3>1. (k + 1) - 1 = k /\ (k + 1) + 1 = k + 2
      BY <1>1
    <3> HIDE DEF e
    <3> QED BY <1>3, <3>1 DEF RemoveAt
  <2>2. SubSeq(e, 1, k) = SubSeq(e, 1, k - 1) \o <<e[k]>>
    <3>1. 1 \in 1..Len(e) /\ k \in 1..Len(e)
      BY <1>1, <1>3
    <3> HIDE DEF e
    <3> QED BY <1>3, <3>1, SubSeqRecursiveSecond
  <2>3. SubSeq(e, 1, k - 1) = left
    <3>1. \A j \in 1..k-1 : e[j] = s[j]
      BY <1>1, <1>3
    <3> HIDE DEF e
    <3> QED BY <1>1, <3>1
  <2>4. SubSeq(e, k + 2, n) = right
    <3>1. k + 2 \in Int /\ n \in Int /\ \A j \in k+2..n : e[j] = s[j]
      BY <1>1, <1>3
    <3> HIDE DEF e, n
    <3> QED BY <3>1, SubSeqAgree
  <2>5. e[k] = r
    BY <1>1, <1>3
  <2> QED BY <2>1, <2>2, <2>3, <2>4, <2>5
<1> HIDE DEF left, right, a, b, e, n
<1>7. <<a>> \in Seq(D) /\ <<b>> \in Seq(D) /\ <<r>> \in Seq(D)
  BY <1>1, <1>2
<1> DEFINE F(t) == Spelling(tok, t)
<1>8. \A t, u \in Seq(D) : t \o u \in Seq(D) /\ F(t) \in Seq(C) /\ F(t \o u) = F(t) \o F(u)
  BY SpellingConcat, ConcatProperties DEF D
<1>9. F(<<a>>) = tok[a] /\ F(<<b>>) = tok[b] /\ F(<<r>>) = tok[r]
  BY <1>1, <1>2, SpellingOne DEF D
<1>10. tok[r] = tok[a] \o tok[b]
  BY DEF a, b
<1>11. tok[a] \in Seq(C) /\ tok[b] \in Seq(C)
  BY <1>1, <1>2, SpellingOne DEF D
<1> HIDE DEF F
<1>12. F(s) = (F(left) \o tok[a]) \o (tok[b] \o F(right))
  <2>1. left \o <<a>> \in Seq(D) /\ F(left \o <<a>>) = F(left) \o F(<<a>>)
    BY <1>4, <1>7, <1>8
  <2>2. <<b>> \o right \in Seq(D) /\ F(<<b>> \o right) = F(<<b>>) \o F(right)
    BY <1>4, <1>7, <1>8
  <2>3. F((left \o <<a>>) \o (<<b>> \o right)) = F(left \o <<a>>) \o F(<<b>> \o right)
    BY <1>8, <2>1, <2>2
  <2> QED BY <1>5, <1>9, <2>1, <2>2, <2>3
<1>13. F(RemoveAt(e, k + 1)) = (F(left) \o tok[r]) \o F(right) /\ RemoveAt(e, k + 1) \in Seq(D)
  <2>1. left \o <<r>> \in Seq(D) /\ F(left \o <<r>>) = F(left) \o F(<<r>>)
    BY <1>4, <1>7, <1>8
  <2>2. /\ (left \o <<r>>) \o right \in Seq(D)
        /\ F((left \o <<r>>) \o right) = F(left \o <<r>>) \o F(right)
    BY <1>4, <1>8, <2>1
  <2> QED BY <1>6, <1>9, <2>1, <2>2
<1>14. (F(left) \o tok[a]) \o (tok[b] \o F(right)) = (F(left) \o tok[r]) \o F(right)
  <2>1. PICK w, x, y, z : w = F(left) /\ x = tok[a] /\ y = tok[b] /\ z = F(right)
    OBVIOUS
  <2>2. w \in Seq(C) /\ x \in Seq(C) /\ y \in Seq(C) /\ z \in Seq(C)
    BY <1>4, <1>8, <1>11, <2>1
  <2>3. Regroups(w, x, y, z)
    BY <2>2, ConcatFour, Zenon
  <2> QED BY <1>10, <2>1, <2>3 DEF Regroups
<1> QED BY <1>12, <1>13, <1>14 DEF F, D, e

-----------------------------------------------------------------------------
(* The invariant                                                           *)

Types ==
  /\ in \in Inputs /\ at \in 0..Len(in.text)
  /\ out \in Seq(Ids) /\ ids \in Seq(Ids) /\ rest \in Seq(Byte) /\ then \in Ids \cup {0}
  /\ phase \in {"scan", "flush", "merge", "done", "failed"}
\* The special token that ended a stretch is what the text goes on with.
Follows ==
  IF then = 0 THEN at = Len(in.text)
  ELSE /\ at + Len(in.tokens[then]) <= Len(in.text)
       /\ SubSeq(in.text, at + 1, at + Len(in.tokens[then])) = in.tokens[then]
\* What the ids say so far, with what is left of the stretch, is the text that has been read.
Read ==
  /\ phase = "scan" => start \in 0..at /\ Spell(out) = SubSeq(in.text, 1, start)
  /\ phase = "flush" => Follows /\ Spell(out) \o rest = SubSeq(in.text, 1, at)
  /\ phase = "merge" => Follows /\ Spell(out) \o (Spell(ids) \o rest) = SubSeq(in.text, 1, at)
  /\ phase = "done" => Spell(out) = in.text
EncodeInv == Types /\ Read

\* The tokenizer and text of a run, as InputsAreTables has them.
LEMMA TablesAre ==
  ASSUME Types
  PROVE  /\ in.tokens \in Seq(Seq(Byte)) /\ in.text \in Seq(Byte) /\ Len(in.text) \in Nat
         /\ in.special \subseteq Ids /\ Ids = 1..Len(in.tokens) /\ Len(in.tokens) \in Nat
         /\ in.merges \in Seq(Ids \X Ids \X Ids) /\ MergesSpell(in)
<1>1. in \in Inputs
  BY DEF Types
<1>2. /\ in.tokens \in Seq(Seq(Byte)) /\ in.text \in Seq(Byte) /\ in.special \subseteq DOMAIN in.tokens
      /\ in.merges \in Seq((DOMAIN in.tokens) \X (DOMAIN in.tokens) \X (DOMAIN in.tokens))
      /\ MergesSpell(in)
  BY <1>1, InputsAreTables, Zenon
<1>3. Len(in.text) \in Nat /\ DOMAIN in.tokens = 1..Len(in.tokens) /\ Len(in.tokens) \in Nat
  BY <1>2, LenProperties
<1>4. Ids = DOMAIN in.tokens
  BY DEF Ids
<1>5. in.merges \in Seq(Ids \X Ids \X Ids) /\ MergesSpell(in) /\ in.special \subseteq Ids
  BY <1>2, Zenon DEF Ids
<1>6. Ids = 1..Len(in.tokens)
  BY <1>3, <1>4
<1> QED BY <1>2, <1>3, <1>5, <1>6, Zenon

\* The model's Spell, with the table as an argument.
LEMMA SpellIs == \A s : Spell(s) = Spelling(in.tokens, s)
  BY DEF Spell, Spelling, Words

\* Before the first step nothing is encoded, and nothing has been passed.
LEMMA EncodeInvInit == Init => EncodeInv
<1> SUFFICES ASSUME Init PROVE EncodeInv
  OBVIOUS
<1>0. /\ in \in Inputs /\ at = 0 /\ start = 0 /\ rest = <<>> /\ then = 0
      /\ ids = <<>> /\ out = <<>> /\ phase = "scan"
  BY DEF Init
<1>1. in.text \in Seq(Byte)
  BY <1>0, InputsAreTables
<1>2. Types
  <2>1. Len(in.text) \in Nat
    BY <1>1, LenProperties
  <2>2. out \in Seq(Ids) /\ ids \in Seq(Ids) /\ rest \in Seq(Byte)
    BY <1>0, EmptySeq
  <2> QED BY <1>0, <2>1, <2>2 DEF Types
<1>3. Spell(out) = <<>>
  BY <1>0, SpellIs, SpellingNone
<1>4. SubSeq(in.text, 1, start) = <<>>
  BY <1>0, SubSeqEmpty
<1>5. start \in 0..at
  BY <1>0
<1> QED BY <1>0, <1>2, <1>3, <1>4, <1>5 DEF EncodeInv, Read

\* A stretch ends where a special token is, or at the end of the text.
LEMMA FlushKeeps ==
  ASSUME EncodeInv, phase = "scan", NEW t \in Ids \cup {0}, Flush(t),
         IF t = 0 THEN at = Len(in.text)
         ELSE /\ at + Len(in.tokens[t]) <= Len(in.text)
              /\ SubSeq(in.text, at + 1, at + Len(in.tokens[t])) = in.tokens[t]
  PROVE  EncodeInv'
<1>1. Types /\ start \in 0..at /\ Spell(out) = SubSeq(in.text, 1, start)
  BY DEF EncodeInv, Read
<1>2. in.text \in Seq(Byte) /\ Len(in.text) \in Nat /\ at \in 0..Len(in.text)
  BY <1>1, TablesAre DEF Types
<1>3. /\ rest' = SubSeq(in.text, start + 1, at) /\ then' = t /\ phase' = "flush"
      /\ in' = in /\ at' = at /\ out' = out /\ ids' = ids
  BY DEF Flush
<1>4. SubSeq(in.text, 1, start) \o SubSeq(in.text, start + 1, at) = SubSeq(in.text, 1, at)
  <2>1. 1 \in 1..Len(in.text)+1 /\ start \in 1-1..Len(in.text) /\ at \in start..Len(in.text)
    BY <1>1, <1>2
  <2> QED BY <1>2, <2>1, ConcatAdjacentSubSeq
<1>5. SubSeq(in.text, start + 1, at) \in Seq(Byte)
  <2>1. start + 1 \in Int /\ at \in Int /\ start + 1..at \subseteq 1..Len(in.text)
    BY <1>1, <1>2
  <2>2. \A k \in 1..Len(in.text) : in.text[k] \in Byte
    BY <1>2, ElementOfSeq
  <2>3. \A k \in start+1..at : in.text[k] \in Byte
    BY <2>1, <2>2
  <2> QED BY <2>1, <2>3, SubSeqProperties
<1>6. Spell(out)' = Spell(out)
  BY <1>3 DEF Spell
<1>7. Types'
  BY <1>1, <1>3, <1>5 DEF Types, Ids
<1>8. Follows'
  BY <1>3 DEF Follows
<1> QED BY <1>1, <1>3, <1>4, <1>6, <1>7, <1>8 DEF EncodeInv, Read

\* At a special token, the stretch before it is what flush has to encode.
LEMMA HitKeeps == EncodeInv /\ Hit => EncodeInv'
<1> SUFFICES ASSUME EncodeInv, Hit PROVE EncodeInv'
  OBVIOUS
<1>1. phase = "scan" /\ at < Len(in.text) /\ Types
  BY DEF EncodeInv, Hit, Scanning
<1>2. PICK t \in FirstMatch(at) : Flush(t)
  BY DEF Hit
<1>3. t \in in.special /\ IsPrefix(in.tokens[t], SubSeq(in.text, at + 1, Len(in.text)))
  BY <1>2 DEF FirstMatch, Matching
<1>4. t \in Ids /\ t # 0
  BY <1>1, <1>3, TablesAre
<1> DEFINE x == in.text
           w == in.tokens[t]
           n == Len(x)
           y == SubSeq(x, at + 1, n)
<1>5. w \in Seq(Byte) /\ Len(w) \in Nat /\ x \in Seq(Byte) /\ n \in Nat /\ at \in 0..n /\ at < n
  <2>1. w \in Seq(Byte)
    BY <1>1, <1>4, TablesAre, ElementOfSeq
  <2> QED BY <1>1, <2>1, TablesAre, LenProperties DEF Types
<1>6. IsPrefix(w, y)
  BY <1>3
<1>7. y \in Seq(Byte) /\ Len(y) = n - at
  <2> HIDE DEF n
  <2>1. at + 1 \in Int /\ n \in Int /\ at+1..n \subseteq 1..n /\ at + 1 <= n /\ n - (at + 1) + 1 = n - at
    BY <1>5
  <2>2. \A k \in at+1..n : x[k] \in Byte
    BY <1>5, <2>1, ElementOfSeq DEF n
  <2> HIDE DEF x
  <2>3. SubSeq(x, at + 1, n) \in Seq(Byte) /\ Len(SubSeq(x, at + 1, n)) = n - (at + 1) + 1
    BY <2>1, <2>2, SubSeqProperties
  <2> QED BY <2>1, <2>3
<1>8. Len(w) <= n - at /\ SubSeq(w, 1, Len(w)) = SubSeq(y, 1, Len(w))
  <2> HIDE DEF w, y
  <2> QED BY <1>6, <1>7 DEF IsPrefix
<1>9. SubSeq(w, 1, Len(w)) = w
  <2> HIDE DEF w
  <2> QED BY <1>5, SubSeqFull
<1>10. SubSeq(y, 1, Len(w)) = SubSeq(x, at + 1, at + Len(w))
  <2>1. CASE Len(w) = 0
    <3>1. SubSeq(y, 1, 0) = <<>>
      BY SubSeqEmpty
    <3>2. SubSeq(x, at + 1, at + 0) = <<>>
      BY <1>5, SubSeqEmpty
    <3> QED BY <1>5, <2>1, <3>1, <3>2
  <2>2. CASE Len(w) # 0
    <3> HIDE DEF w, x, n
    <3>1. /\ at + 1 \in 1..n /\ n \in 1..n /\ 1 \in 1..n-(at+1)+1 /\ Len(w) \in 1..n-(at+1)+1
          /\ at + 1 + 1 - 1 = at + 1 /\ at + 1 + Len(w) - 1 = at + Len(w)
      BY <1>5, <1>8, <2>2
    <3>2. SubSeq(SubSeq(x, at + 1, n), 1, Len(w)) = SubSeq(x, (at + 1) + 1 - 1, (at + 1) + Len(w) - 1)
      BY <1>5, <3>1, SubSeqOfSubSeq DEF n
    <3>3. (at + 1) + 1 - 1 = at + 1 /\ (at + 1) + Len(w) - 1 = at + Len(w)
      BY <1>5
    <3> QED BY <3>2, <3>3
  <2> QED BY <2>1, <2>2
<1>11. at + Len(w) <= n /\ SubSeq(x, at + 1, at + Len(w)) = w
  <2>1. at + Len(w) <= n
    <3> HIDE DEF w, n
    <3> QED BY <1>5, <1>8
  <2> HIDE DEF w, x, n, y
  <2> QED BY <1>8, <1>9, <1>10, <2>1
<1> QED BY <1>1, <1>2, <1>4, <1>11, FlushKeeps

\* After a stretch its special token spells the bytes that Resume skips.
LEMMA FlushedKeeps == EncodeInv /\ Flushed => EncodeInv'
<1> SUFFICES ASSUME EncodeInv, Flushed PROVE EncodeInv'
  OBVIOUS
<1>1. Types /\ Follows /\ Spell(out) \o rest = SubSeq(in.text, 1, at) /\ rest = <<>>
  BY DEF EncodeInv, Read, Flushed
<1>2. in' = in /\ rest' = rest /\ then' = then /\ ids' = ids
  BY DEF Flushed
<1>3. PICK tok, x : tok = in.tokens /\ x = in.text
  OBVIOUS
<1>4. tok \in Seq(Seq(Byte)) /\ x \in Seq(Byte) /\ Len(x) \in Nat /\ at \in 0..Len(x) /\ Ids = DOMAIN tok
  BY <1>1, <1>3, TablesAre DEF Types, Ids
<1>5. Spell(out) = SubSeq(x, 1, at)
  <2>1. Spell(out) \in Seq(Byte)
    <3>1. out \in Seq(DOMAIN tok)
      BY <1>1, <1>4 DEF Types
    <3>2. Spelling(tok, out) \in Seq(Byte)
      BY <1>4, <3>1, SpellingConcat
    <3> QED BY <1>3, <3>2, SpellIs
  <2>2. Spell(out) \o <<>> = Spell(out)
    BY <2>1, ConcatEmptySeq
  <2> QED BY <1>1, <1>3, <2>2
<1>6. CASE then = 0
  <2>1. phase' = "done" /\ at' = at /\ start' = start /\ out' = out
    BY <1>6 DEF Flushed
  <2>2. Spell(out)' = x
    <3>1. at = Len(x)
      BY <1>1, <1>3, <1>6 DEF Follows
    <3>2. Spell(out)' = Spell(out)
      BY <1>2, <2>1 DEF Spell
    <3> QED BY <1>4, <1>5, <3>1, <3>2, SubSeqFull
  <2>3. Types'
    BY <1>1, <1>2, <2>1 DEF Types, Ids
  <2> QED BY <1>2, <1>3, <2>1, <2>2, <2>3 DEF EncodeInv, Read
<1>7. CASE then # 0
  <2>1. /\ phase' = "scan" /\ out' = Append(out, then)
        /\ at' = at + Len(in.tokens[then]) /\ start' = at'
    BY <1>7 DEF Flushed, Resume
  <2>2. PICK t \in DOMAIN tok : t = then
    BY <1>1, <1>4, <1>7 DEF Types
  <2>3. PICK w : w = tok[t]
    OBVIOUS
  <2>4. w \in Seq(Byte) /\ Len(w) \in Nat /\ Spelling(tok, <<t>>) = w /\ <<t>> \in Seq(DOMAIN tok)
    BY <1>4, <2>3, SpellingOne, LenProperties
  <2>5. at + Len(w) <= Len(x) /\ SubSeq(x, at + 1, at + Len(w)) = w /\ at' = at + Len(w)
    BY <1>1, <1>3, <1>7, <2>1, <2>2, <2>3 DEF Follows
  <2>6. at' \in 0..Len(x)
    BY <1>4, <2>4, <2>5
  <2>7. out \in Seq(DOMAIN tok) /\ out' \in Seq(DOMAIN tok) /\ out' = out \o <<t>>
    <3>1. out \in Seq(DOMAIN tok)
      BY <1>1, <1>4 DEF Types
    <3> QED BY <2>1, <2>2, <3>1, AppendProperties, AppendIsConcat
  <2>8. Spell(out)' = SubSeq(x, 1, at')
    <3>1. Spelling(tok, out \o <<t>>) = Spelling(tok, out) \o w
      BY <1>4, <2>4, <2>7, SpellingConcat, ZenonT(40)
    <3>2. Spell(out)' = Spelling(tok, out')
      BY <1>2, <1>3 DEF Spell, Spelling, Words
    <3>3. Spelling(tok, out) = SubSeq(x, 1, at)
      BY <1>3, <1>5, SpellIs
    <3>4. SubSeq(x, 1, at) \o SubSeq(x, at + 1, at + Len(w)) = SubSeq(x, 1, at + Len(w))
      <4>1. 1 \in 1..Len(x)+1 /\ at \in 1-1..Len(x) /\ at + Len(w) \in at..Len(x)
        BY <1>4, <2>4, <2>5
      <4> QED BY <1>4, <4>1, ConcatAdjacentSubSeq
    <3> QED BY <2>5, <2>7, <3>1, <3>2, <3>3, <3>4
  <2>9. Types'
    <3>1. in' \in Inputs /\ ids' \in Seq(Ids) /\ rest' \in Seq(Byte) /\ then' \in Ids \cup {0}
      BY <1>1, <1>2 DEF Types
    <3>2. Ids' = Ids /\ Ids = DOMAIN tok
      BY <1>2, <1>4 DEF Ids
    <3>3. at' \in 0..Len(in'.text)
      BY <1>2, <1>3, <2>6
    <3> QED BY <2>1, <2>7, <3>1, <3>2, <3>3 DEF Types
  <2>10. start' \in 0..at'
    BY <1>4, <2>1, <2>6
  <2>11. Spell(out)' = SubSeq(in'.text, 1, start')
    BY <1>2, <1>3, <2>1, <2>8
  <2>12. Read'
    BY <2>1, <2>10, <2>11 DEF Read
  <2> QED BY <2>9, <2>12 DEF EncodeInv
<1> QED BY <1>6, <1>7

\* The last ordinary token that is a byte alone spells it.
LEMMA ByteIdIs ==
  ASSUME Types, NEW b, ByteIds(b) # {}
  PROVE  ByteId(b) \in Ids /\ in.tokens[ByteId(b)] = <<b>>
<1> DEFINE n == Len(in.tokens)
           I == ByteIds(b)
           Back == {n - t : t \in I}
<1>1. I \subseteq 1..n /\ n \in Nat
  BY TablesAre DEF ByteIds
<1> HIDE DEF n, I
<1>2. Back # {} /\ Back \in SUBSET Nat
  BY <1>1 DEF I
<1>3. PICK m \in Back : \A k \in Back : m <= k
  <2> HIDE DEF Back
  <2> QED BY <1>2, LeastExists
<1>4. PICK t \in I : m = n - t
  OBVIOUS
<1>5. ASSUME NEW u \in I PROVE u <= t
  <2>1. m <= n - u
    BY <1>3
  <2> QED BY <1>1, <1>4, <2>1
<1>6. ByteId(b) \in I
  BY <1>5 DEF ByteId, I
<1> QED BY <1>6 DEF I, ByteIds

\* The bytes of a piece become ids that spell it.
LEMMA PieceKeeps == EncodeInv /\ Piece => EncodeInv'
<1> SUFFICES ASSUME EncodeInv, Piece PROVE EncodeInv'
  OBVIOUS
<1>1. /\ Types /\ Follows /\ Spell(out) \o rest = SubSeq(in.text, 1, at)
      /\ in' = in /\ at' = at /\ start' = start /\ then' = then /\ out' = out
  BY DEF EncodeInv, Read, Piece
<1>2. PICK r \in Seq(Byte) : r = rest
  BY <1>1 DEF Types
<1>3. PICK n \in 1..Len(r) :
        LET piece == SubSeq(r, 1, n)
        IN  /\ rest' = SubSeq(r, n + 1, Len(r))
            /\ IF \E k \in 1..n : ByteIds(piece[k]) = {} THEN phase' = "failed" /\ UNCHANGED ids
               ELSE phase' = "merge" /\ ids' = [k \in 1..n |-> ByteId(piece[k])]
  BY <1>2 DEF Piece
<1>4. PICK p : p = SubSeq(r, 1, n)
  OBVIOUS
<1>5. p \in Seq(Byte) /\ Len(p) = n /\ n \in Nat
  <2>1. Len(r) \in Nat /\ \A k \in 1..Len(r) : r[k] \in Byte
    BY LenProperties, ElementOfSeq
  <2>2. 1 \in Int /\ n \in Int /\ 1 <= n /\ n - 1 + 1 = n /\ n \in Nat /\ \A k \in 1..n : r[k] \in Byte
    BY <2>1
  <2> QED BY <1>4, <2>2, SubSeqProperties
<1>6. r = p \o rest' /\ rest' \in Seq(Byte)
  <2>1. Len(r) \in Nat /\ \A k \in 1..Len(r) : r[k] \in Byte
    BY LenProperties, ElementOfSeq
  <2>2. /\ 1 \in 1..Len(r)+1 /\ n \in 1-1..Len(r) /\ Len(r) \in n..Len(r) /\ n + 1 \in Int /\ Len(r) \in Int
        /\ \A k \in n+1..Len(r) : r[k] \in Byte
    BY <2>1
  <2>3. SubSeq(r, 1, n) \o SubSeq(r, n + 1, Len(r)) = SubSeq(r, 1, Len(r)) /\ SubSeq(r, 1, Len(r)) = r
    BY <2>2, ConcatAdjacentSubSeq, SubSeqFull
  <2>4. SubSeq(r, n + 1, Len(r)) \in Seq(Byte)
    BY <2>2, SubSeqProperties
  <2> QED BY <1>3, <1>4, <2>3, <2>4
<1>7. CASE \E k \in 1..n : ByteIds(p[k]) = {}
  <2>1. phase' = "failed" /\ ids' = ids
    BY <1>3, <1>4, <1>7
  <2>2. Types'
    BY <1>1, <1>6, <2>1 DEF Types, Ids
  <2> QED BY <2>1, <2>2 DEF EncodeInv, Read
<1>8. CASE ~\E k \in 1..n : ByteIds(p[k]) = {}
  <2>1. phase' = "merge" /\ ids' = [k \in 1..n |-> ByteId(p[k])]
    BY <1>3, <1>4, <1>8
  <2>2. PICK tok : tok = in.tokens
    OBVIOUS
  <2>3. tok \in Seq(Seq(Byte)) /\ Ids = DOMAIN tok
    BY <1>1, <2>2, TablesAre DEF Ids
  <2>4. \A k \in 1..n : ids'[k] \in Ids /\ tok[ids'[k]] = <<p[k]>>
    BY <1>1, <1>8, <2>1, <2>2, ByteIdIs
  <2>5. ids' \in Seq(Ids) /\ ids' = [k \in 1..Len(p) |-> ids'[k]]
    BY <1>5, <2>1, <2>4
  <2>6. Spelling(tok, ids') = p
    BY <1>5, <2>3, <2>4, <2>5, SpellingBytes
  <2>7. Spell(ids)' = p /\ Spell(out)' = Spell(out)
    BY <1>1, <2>2, <2>6 DEF Spell, Spelling, Words
  <2>8. Types'
    BY <1>1, <1>6, <2>1, <2>5 DEF Types, Ids
  <2>9. Follows'
    BY <1>1 DEF Follows
  <2>10. (Spell(out) \o (Spell(ids) \o rest))' = SubSeq(in.text, 1, at)'
    BY <1>1, <1>2, <1>6, <2>7
  <2> QED BY <2>1, <2>8, <2>9, <2>10 DEF EncodeInv, Read
<1> QED BY <1>7, <1>8

\* A pair that Rank finds is the pair of a merge.
LEMMA RankIs ==
  ASSUME Types, NEW k \in Pairs
  PROVE  /\ Rank(k) \in DOMAIN in.merges /\ Rank(k) \in Nat
         /\ in.merges[Rank(k)][1] = ids[k] /\ in.merges[Rank(k)][2] = ids[k+1]
<1> DEFINE I == {j \in 1..Len(in.merges) : in.merges[j][1] = ids[k] /\ in.merges[j][2] = ids[k+1]}
           least == CHOOSE x \in I : \A y \in I : x <= y
<1>1. Rank(k) = IF I # {} THEN least ELSE 0
  BY DEF Rank, SelectInSeq, Min
<1>2. Rank(k) > 0
  BY DEF Pairs
<1>3. I # {} /\ I \in SUBSET Nat
  BY <1>1, <1>2
<1>4. least \in I
  <2> HIDE DEF I
  <2> QED BY <1>3, LeastExists
<1>5. DOMAIN in.merges = 1..Len(in.merges)
  BY TablesAre, LenProperties
<1> HIDE DEF least
<1> QED BY <1>1, <1>3, <1>4, <1>5

\* Where a pair can merge, one is the best.
LEMMA BestIs ==
  ASSUME Types, Pairs # {}
  PROVE  Best \in Pairs /\ \A j \in Pairs : Rank(Best) < Rank(j) \/ (Rank(Best) = Rank(j) /\ Best <= j)
<1> DEFINE Ranks == {Rank(k) : k \in Pairs}
<1>1. Ranks # {} /\ Ranks \in SUBSET Nat
  BY RankIs
<1>2. PICK r \in Ranks : \A q \in Ranks : r <= q
  <2> HIDE DEF Ranks
  <2> QED BY <1>1, LeastExists
<1> DEFINE Firsts == {k \in Pairs : Rank(k) = r}
<1>3. Pairs \in SUBSET Nat
  BY DEF Pairs
<1>4. Firsts # {} /\ Firsts \in SUBSET Nat
  BY <1>2, <1>3
<1>5. PICK k \in Firsts : \A j \in Firsts : k <= j
  <2> HIDE DEF Firsts
  <2> QED BY <1>4, LeastExists
<1>6. k \in Pairs /\ Rank(k) = r
  OBVIOUS
<1>7. ASSUME NEW j \in Pairs PROVE Rank(k) < Rank(j) \/ (Rank(k) = Rank(j) /\ k <= j)
  <2>1. Rank(j) \in Nat /\ Rank(k) \in Nat /\ Rank(k) <= Rank(j)
    BY <1>2, <1>6, RankIs
  <2>2. Rank(j) = r => k <= j
    <3>1. Rank(j) = r => j \in Firsts
      OBVIOUS
    <3> HIDE DEF Firsts
    <3> QED BY <1>5, <3>1
  <2> QED BY <1>6, <2>1, <2>2
<1> HIDE DEF Firsts, Ranks
<1>8. \E m \in Pairs : \A j \in Pairs : Rank(m) < Rank(j) \/ (Rank(m) = Rank(j) /\ m <= j)
  BY <1>6, <1>7
<1> QED BY <1>8, Zenon DEF Best

\* Merging a pair changes no text: the merge spells its pair.
LEMMA MergeKeeps == EncodeInv /\ Merge => EncodeInv'
<1> SUFFICES ASSUME EncodeInv, Merge PROVE EncodeInv'
  OBVIOUS
<1>1. /\ Types /\ Follows /\ Spell(out) \o (Spell(ids) \o rest) = SubSeq(in.text, 1, at) /\ Pairs # {}
      /\ in' = in /\ at' = at /\ start' = start /\ rest' = rest /\ then' = then /\ out' = out /\ phase' = "merge"
      /\ ids' = RemoveAt([ids EXCEPT ![Best] = in.merges[Rank(Best)][3]], Best + 1)
  BY DEF EncodeInv, Read, Merge
<1>2. PICK tok, s : tok = in.tokens /\ s = ids
  OBVIOUS
<1>3. tok \in Seq(Seq(Byte)) /\ Ids = DOMAIN tok /\ s \in Seq(DOMAIN tok) /\ Len(s) \in Nat
  BY <1>1, <1>2, TablesAre, LenProperties DEF Ids, Types
<1>4. PICK k \in 1..Len(s)-1 : k = Best /\ k \in Pairs
  BY <1>1, <1>2, BestIs DEF Pairs
<1>5. PICK q : q = Rank(k)
  OBVIOUS
<1>6. PICK r : r = in.merges[q][3]
  OBVIOUS
<1>7. /\ q \in DOMAIN in.merges /\ in.merges[q][1] = s[k] /\ in.merges[q][2] = s[k+1]
  BY <1>1, <1>2, <1>4, <1>5, RankIs
<1>8. r \in DOMAIN tok
  <2>1. in.merges[q] \in Ids \X Ids \X Ids
    BY <1>1, <1>7, TablesAre, LenProperties, ElementOfSeq
  <2> QED BY <1>3, <1>6, <2>1
<1>9. tok[r] = tok[s[k]] \o tok[s[k+1]]
  <2>1. in.tokens[in.merges[q][3]] = in.tokens[in.merges[q][1]] \o in.tokens[in.merges[q][2]]
    BY <1>1, <1>7, TablesAre DEF MergesSpell
  <2> QED BY <1>2, <1>6, <1>7, <2>1
<1>10. ids' = RemoveAt([s EXCEPT ![k] = r], k + 1)
  BY <1>1, <1>2, <1>4, <1>5, <1>6
<1>11. ids' \in Seq(DOMAIN tok) /\ Spelling(tok, ids') = Spelling(tok, s)
  BY <1>3, <1>8, <1>9, <1>10, SpellingMerged
<1>12. Spell(ids)' = Spell(ids) /\ Spell(out)' = Spell(out)
  BY <1>1, <1>2, <1>11 DEF Spell, Spelling, Words
<1>13. Types'
  BY <1>1, <1>3, <1>11 DEF Types, Ids
<1>14. Follows'
  BY <1>1 DEF Follows
<1> QED BY <1>1, <1>12, <1>13, <1>14 DEF EncodeInv, Read

\* A piece's ids go to the end of the output.
LEMMA EmitKeeps == EncodeInv /\ Emit => EncodeInv'
<1> SUFFICES ASSUME EncodeInv, Emit PROVE EncodeInv'
  OBVIOUS
<1>1. /\ Types /\ Follows /\ Spell(out) \o (Spell(ids) \o rest) = SubSeq(in.text, 1, at)
      /\ in' = in /\ at' = at /\ start' = start /\ rest' = rest /\ then' = then
      /\ out' = out \o ids /\ ids' = <<>> /\ phase' = "flush"
  BY DEF EncodeInv, Read, Emit
<1>2. PICK tok, s, o : tok = in.tokens /\ s = ids /\ o = out
  OBVIOUS
<1>3. tok \in Seq(Seq(Byte)) /\ Ids = DOMAIN tok /\ s \in Seq(DOMAIN tok) /\ o \in Seq(DOMAIN tok)
  BY <1>1, <1>2, TablesAre DEF Ids, Types
<1>4. /\ Spelling(tok, o) \in Seq(Byte) /\ Spelling(tok, s) \in Seq(Byte)
      /\ Spelling(tok, o \o s) = Spelling(tok, o) \o Spelling(tok, s)
  BY <1>3, SpellingConcat
<1>5. PICK x, y, z : x = Spelling(tok, o) /\ y = Spelling(tok, s) /\ z = rest
  OBVIOUS
<1>6. z \in Seq(Byte)
  BY <1>1, <1>5 DEF Types
<1>7. (x \o y) \o z = x \o (y \o z)
  BY <1>4, <1>5, <1>6, ConcatThree
<1>8. Spell(out)' = x \o y /\ Spell(out) = x /\ Spell(ids) = y
  BY <1>1, <1>2, <1>4, <1>5 DEF Spell, Spelling, Words
<1>9. out' \in Seq(Ids) /\ ids' \in Seq(Ids)
  <2>1. o \o s \in Seq(DOMAIN tok)
    BY <1>3, ConcatProperties
  <2> QED BY <1>1, <1>2, <1>3, <2>1, EmptySeq
<1>10. Types'
  BY <1>1, <1>9 DEF Types, Ids
<1>11. Follows'
  BY <1>1 DEF Follows
<1>12. (Spell(out) \o rest)' = SubSeq(in.text, 1, at)'
  BY <1>1, <1>5, <1>7, <1>8
<1> QED BY <1>1, <1>10, <1>11, <1>12 DEF EncodeInv, Read

\* Every step keeps the invariant.
LEMMA EncodeInvNext == EncodeInv /\ [Next]_vars => EncodeInv'
<1> SUFFICES ASSUME EncodeInv, [Next]_vars PROVE EncodeInv'
  OBVIOUS
<1>1. CASE Hit
  BY <1>1, HitKeeps
<1>2. CASE Miss
  <2>1. Types /\ start \in 0..at /\ Spell(out) = SubSeq(in.text, 1, start) /\ Len(in.text) \in Nat
    BY <1>2, TablesAre DEF EncodeInv, Read, Miss, Scanning
  <2>2. at < Len(in.text) /\ at' = at + 1 /\ UNCHANGED <<in, start, rest, then, ids, out, phase>> /\ phase = "scan"
    BY <1>2 DEF Miss, Scanning
  <2>3. at' \in 0..Len(in.text) /\ start' \in 0..at'
    BY <2>1, <2>2 DEF Types
  <2>4. Types'
    BY <2>1, <2>2, <2>3 DEF Types, Ids
  <2>5. Spell(out)' = Spell(out)
    BY <2>2 DEF Spell
  <2> QED BY <2>1, <2>2, <2>3, <2>4, <2>5 DEF EncodeInv, Read
<1>3. CASE End
  <2>1. phase = "scan" /\ at = Len(in.text) /\ Flush(0)
    BY <1>3 DEF End
  <2>2. 0 \in Ids \cup {0}
    OBVIOUS
  <2> QED BY <2>1, <2>2, FlushKeeps
<1>4. CASE Flushed
  BY <1>4, FlushedKeeps
<1>5. CASE Piece
  BY <1>5, PieceKeeps
<1>6. CASE Merge
  BY <1>6, MergeKeeps
<1>7. CASE Emit
  BY <1>7, EmitKeeps
<1>8. CASE Done \/ UNCHANGED vars
  BY <1>8 DEF Done, vars, EncodeInv, Types, Ids, Read, Follows, Spell
<1> QED BY <1>1, <1>2, <1>3, <1>4, <1>5, <1>6, <1>7, <1>8 DEF Next

-----------------------------------------------------------------------------
(* Special tokens                                                          *)

\* The bytes that ids spell, counted.
Size(tok, s) == Len(Spelling(tok, s))
\* Matching, with the tokenizer and text as an argument.
Found(x, p) == {t \in x.special : x.tokens[t] # <<>> /\ IsPrefix(x.tokens[t], SubSeq(x.text, p + 1, Len(x.text)))}
Longest(x, t, p) == t \in Found(x, p) /\ \A u \in Found(x, p) : Len(x.tokens[u]) <= Len(x.tokens[t])
\* What SpecialsWin asks of an id that spells the bytes from o to e.
Wins(x, t, o, e) ==
  IF t \in x.special THEN \A u \in Found(x, o) : Len(x.tokens[u]) <= Len(x.tokens[t])
  ELSE \A p \in o..e-1 : Found(x, p) = {}
Settled(x, s) ==
  \A k \in 1..Len(s) : Wins(x, s[k], Size(x.tokens, SubSeq(s, 1, k - 1)), Size(x.tokens, SubSeq(s, 1, k)))
Solid(tok, s) == \A k \in 1..Len(s) : tok[s[k]] # <<>>

\* No special token begins in the stretch; one that ends it is a longest there; and ids that say something
\* keep within it.
WinInv ==
  /\ start \in 0..at /\ \A p \in start..at-1 : Found(in, p) = {}
  /\ phase \in {"flush", "merge"} => start <= Size(in.tokens, out) /\ (then # 0 => Longest(in, then, at))
  /\ phase = "merge" => Solid(in.tokens, ids)
  /\ Settled(in, out)

\* Sizes add up.
LEMMA SizePlus ==
  ASSUME NEW C, NEW tok \in Seq(Seq(C)), NEW s \in Seq(DOMAIN tok), NEW t \in Seq(DOMAIN tok)
  PROVE  Size(tok, s) \in Nat /\ Size(tok, t) \in Nat /\ Size(tok, s \o t) = Size(tok, s) + Size(tok, t)
<1> DEFINE v == Spelling(tok, s)
           w == Spelling(tok, t)
<1>1. v \in Seq(C) /\ w \in Seq(C) /\ Spelling(tok, s \o t) = v \o w
  BY SpellingConcat
<1> HIDE DEF v, w
<1>2. Len(v) \in Nat /\ Len(w) \in Nat /\ Len(v \o w) = Len(v) + Len(w)
  BY <1>1, LenProperties, ConcatProperties
<1> QED BY <1>1, <1>2 DEF Size, v, w

\* A prefix of a sequence of ids is one.
LEMMA PrefixOfIds ==
  ASSUME NEW D, NEW s \in Seq(D), NEW k \in 0..Len(s)
  PROVE  /\ SubSeq(s, 1, k) \in Seq(D) /\ Len(SubSeq(s, 1, k)) = k
         /\ \A m \in 1..k : SubSeq(s, 1, k)[m] = s[m]
<1>1. Len(s) \in Nat /\ k \in Int /\ 1 \in Int /\ \A m \in 1..k : s[m] \in D
  BY LenProperties, ElementOfSeq
<1>2. /\ SubSeq(s, 1, k) \in Seq(D) /\ Len(SubSeq(s, 1, k)) = IF 1 <= k THEN k-1+1 ELSE 0
      /\ \A m \in 1..k-1+1 : SubSeq(s, 1, k)[m] = s[1+m-1]
  BY <1>1, SubSeqProperties
<1> QED BY <1>1, <1>2

\* The prefixes of a concatenation: first those of the first,
LEMMA PrefixOfFirst ==
  ASSUME NEW D, NEW s \in Seq(D), NEW t \in Seq(D), NEW k \in 0..Len(s)
  PROVE  SubSeq(s \o t, 1, k) = SubSeq(s, 1, k)
<1> DEFINE c == s \o t
           m == Len(s)
           n == Len(t)
           a == SubSeq(c, 1, k)
           b == SubSeq(s, 1, k)
<1>1. /\ m \in Nat /\ n \in Nat /\ c \in Seq(D) /\ Len(c) = m + n
      /\ \A i \in 1..m+n : c[i] = IF i <= m THEN s[i] ELSE t[i - m]
  BY LenProperties, ConcatProperties
<1>2. a \in Seq(D) /\ Len(a) = k /\ \A i \in 1..k : a[i] = c[i]
  <2> HIDE DEF c, m
  <2>1. k \in 0..Len(c)
    BY <1>1 DEF m
  <2> QED BY <1>1, <2>1, PrefixOfIds
<1>3. b \in Seq(D) /\ Len(b) = k /\ \A i \in 1..k : b[i] = s[i]
  BY PrefixOfIds
<1>4. \A i \in 1..k : a[i] = b[i]
  <2> HIDE DEF a, b, c
  <2> QED BY <1>1, <1>2, <1>3
<1> HIDE DEF a, b
<1>5. a = b
  BY <1>2, <1>3, <1>4, SeqEqual
<1> QED BY <1>5 DEF a, b

\* then all of it and those of the second.
LEMMA PrefixOfSecond ==
  ASSUME NEW D, NEW s \in Seq(D), NEW t \in Seq(D), NEW j \in 0..Len(t)
  PROVE  SubSeq(s \o t, 1, Len(s) + j) = s \o SubSeq(t, 1, j)
<1> DEFINE c == s \o t
           m == Len(s)
           n == Len(t)
           a == SubSeq(c, 1, m + j)
           q == SubSeq(t, 1, j)
           b == s \o q
<1>1. /\ m \in Nat /\ n \in Nat /\ c \in Seq(D) /\ Len(c) = m + n
      /\ \A i \in 1..m+n : c[i] = IF i <= m THEN s[i] ELSE t[i - m]
  BY LenProperties, ConcatProperties
<1>2. a \in Seq(D) /\ Len(a) = m + j /\ \A i \in 1..m+j : a[i] = c[i]
  <2> HIDE DEF c, m
  <2>1. m + j \in 0..Len(c)
    BY <1>1
  <2> QED BY <1>1, <2>1, PrefixOfIds
<1>3. q \in Seq(D) /\ Len(q) = j /\ \A i \in 1..j : q[i] = t[i]
  BY PrefixOfIds
<1> HIDE DEF q
<1>4. b \in Seq(D) /\ Len(b) = m + j /\ \A i \in 1..m+j : b[i] = IF i <= m THEN s[i] ELSE q[i - m]
  BY <1>3, ConcatProperties
<1>5. \A i \in 1..m+j : a[i] = b[i]
  <2>1. j \in Nat /\ j <= n
    BY <1>1
  <2> HIDE DEF a, b, c, m, n
  <2> TAKE i \in 1..m+j
  <2>2. i \in 1..m+n
    BY <1>1, <2>1
  <2>3. CASE i <= m
    BY <1>1, <1>2, <1>4, <2>2, <2>3
  <2>4. CASE ~(i <= m)
    <3>1. i - m \in 1..j
      BY <1>1, <2>1, <2>4
    <3> QED BY <1>1, <1>2, <1>3, <1>4, <2>2, <2>4, <3>1
  <2> QED BY <2>3, <2>4
<1> HIDE DEF a, b, c, m, n
<1>6. a = b
  BY <1>2, <1>4, <1>5, SeqEqual
<1> QED BY <1>6 DEF a, b, c, m, q

\* What has been settled stays so, and ids after it are placed behind it.
LEMMA SettledConcat ==
  ASSUME NEW C, NEW x, x.tokens \in Seq(Seq(C)), NEW s \in Seq(DOMAIN x.tokens), NEW t \in Seq(DOMAIN x.tokens),
         Settled(x, s),
         \A j \in 1..Len(t) : Wins(x, t[j], Size(x.tokens, s) + Size(x.tokens, SubSeq(t, 1, j - 1)),
                                            Size(x.tokens, s) + Size(x.tokens, SubSeq(t, 1, j)))
  PROVE  Settled(x, s \o t)
<1> DEFINE tok == x.tokens
           D == DOMAIN tok
           c == s \o t
           m == Len(s)
           n == Len(t)
<1>1. /\ m \in Nat /\ n \in Nat /\ c \in Seq(D) /\ Len(c) = m + n
      /\ \A i \in 1..m+n : c[i] = IF i <= m THEN s[i] ELSE t[i - m]
  BY LenProperties, ConcatProperties
<1>2. \A k \in 0..m : SubSeq(c, 1, k) = SubSeq(s, 1, k)
  BY PrefixOfFirst
<1>3. \A j \in 0..n : Size(tok, SubSeq(c, 1, m + j)) = Size(tok, s) + Size(tok, SubSeq(t, 1, j))
  <2> TAKE j \in 0..n
  <2>1. SubSeq(c, 1, m + j) = s \o SubSeq(t, 1, j)
    BY PrefixOfSecond
  <2>2. SubSeq(t, 1, j) \in Seq(D)
    BY PrefixOfIds
  <2> DEFINE q == SubSeq(t, 1, j)
  <2> HIDE DEF q
  <2>3. Size(tok, s \o q) = Size(tok, s) + Size(tok, q)
    BY <2>2, SizePlus DEF q
  <2> QED BY <2>1, <2>3 DEF q
<1> SUFFICES ASSUME NEW k \in 1..Len(c)
             PROVE  Wins(x, c[k], Size(tok, SubSeq(c, 1, k - 1)), Size(tok, SubSeq(c, 1, k)))
  BY DEF Settled
<1>4. CASE k <= m
  <2>1. k \in 1..m /\ k \in 0..m /\ k - 1 \in 0..m /\ c[k] = s[k]
    <3> HIDE DEF c, m, n
    <3> QED BY <1>1, <1>4
  <2>2. Wins(x, s[k], Size(tok, SubSeq(s, 1, k - 1)), Size(tok, SubSeq(s, 1, k)))
    BY <2>1 DEF Settled
  <2> HIDE DEF c, m
  <2> QED BY <1>2, <2>1, <2>2
<1>5. CASE k > m
  <2> DEFINE j == k - m
  <2>1. j \in 1..n /\ j \in 0..n /\ j - 1 \in 0..n /\ c[k] = t[j] /\ m + j = k /\ m + (j - 1) = k - 1
    <3> HIDE DEF c, m, n
    <3> QED BY <1>1, <1>5
  <2>2. Wins(x, t[j], Size(tok, s) + Size(tok, SubSeq(t, 1, j - 1)), Size(tok, s) + Size(tok, SubSeq(t, 1, j)))
    BY <2>1
  <2>3. /\ Size(tok, SubSeq(c, 1, k)) = Size(tok, s) + Size(tok, SubSeq(t, 1, j))
        /\ Size(tok, SubSeq(c, 1, k - 1)) = Size(tok, s) + Size(tok, SubSeq(t, 1, j - 1))
    <3> HIDE DEF c, m, n, j
    <3> QED BY <1>3, <2>1
  <2> HIDE DEF c, j
  <2> QED BY <2>1, <2>2, <2>3
<1>6. k \in 1..Len(c) /\ Len(c) \in Nat /\ m \in Nat
  BY <1>1
<1> HIDE DEF c, m, n
<1>7. k <= m \/ k > m
  BY <1>6
<1> QED BY <1>4, <1>5, <1>7

\* Ids that all say something lie one after the other within what they say.
LEMMA SolidSizes ==
  ASSUME NEW C, NEW tok \in Seq(Seq(C)), NEW s \in Seq(DOMAIN tok), Solid(tok, s), NEW j \in 1..Len(s)
  PROVE  /\ Size(tok, SubSeq(s, 1, j - 1)) \in Nat /\ Size(tok, SubSeq(s, 1, j)) \in Nat /\ Size(tok, s) \in Nat
         /\ Size(tok, SubSeq(s, 1, j - 1)) < Size(tok, SubSeq(s, 1, j))
         /\ Size(tok, SubSeq(s, 1, j)) <= Size(tok, s)
<1> DEFINE D == DOMAIN tok
           a == SubSeq(s, 1, j - 1)
           b == SubSeq(s, 1, j)
           z == SubSeq(s, j + 1, Len(s))
<1>1. Len(s) \in Nat /\ j \in 1..Len(s) /\ s[j] \in D
  BY LenProperties, ElementOfSeq
<1>2. a \in Seq(D) /\ b \in Seq(D)
  <2>1. j - 1 \in 0..Len(s) /\ j \in 0..Len(s)
    BY <1>1
  <2> QED BY <2>1, PrefixOfIds
<1>3. b = a \o <<s[j]>>
  <2>1. 1 \in 1..Len(s) /\ j \in 1..Len(s)
    BY <1>1
  <2> QED BY <2>1, SubSeqRecursiveSecond
<1>4. s = b \o z
  <2>1. 1 \in 1..Len(s)+1 /\ j \in 1-1..Len(s) /\ Len(s) \in j..Len(s)
    BY <1>1
  <2>2. SubSeq(s, 1, j) \o SubSeq(s, j+1, Len(s)) = SubSeq(s, 1, Len(s))
    BY <2>1, ConcatAdjacentSubSeq
  <2> QED BY <2>2, SubSeqFull
<1>5. z \in Seq(D)
  <2>1. j + 1 \in Int /\ Len(s) \in Int /\ \A i \in j+1..Len(s) : s[i] \in D
    BY <1>1, ElementOfSeq
  <2> QED BY <2>1, SubSeqProperties
<1>6. Size(tok, <<s[j]>>) \in Nat \ {0} /\ <<s[j]>> \in Seq(D)
  <2>1. Spelling(tok, <<s[j]>>) = tok[s[j]] /\ tok[s[j]] \in Seq(C) /\ <<s[j]>> \in Seq(D)
    BY <1>1, SpellingOne
  <2>2. tok[s[j]] # <<>>
    BY DEF Solid
  <2>3. Len(tok[s[j]]) \in Nat \ {0}
    BY <2>1, <2>2, EmptySeq
  <2> QED BY <2>1, <2>3 DEF Size
<1> HIDE DEF a, b, z
<1>7. Size(tok, a) \in Nat /\ Size(tok, b) = Size(tok, a) + Size(tok, <<s[j]>>)
  BY <1>2, <1>3, <1>6, SizePlus
<1>8. Size(tok, b) \in Nat /\ Size(tok, z) \in Nat /\ Size(tok, s) = Size(tok, b) + Size(tok, z)
  BY <1>2, <1>4, <1>5, SizePlus
<1>9. Size(tok, a) < Size(tok, b) /\ Size(tok, b) <= Size(tok, s) /\ Size(tok, s) \in Nat
  <2> DEFINE p == Size(tok, <<s[j]>>)
             q == Size(tok, a)
             r == Size(tok, b)
             u == Size(tok, z)
  <2>1. p \in Nat \ {0} /\ q \in Nat /\ r = q + p /\ u \in Nat /\ Size(tok, s) = r + u
    BY <1>6, <1>7, <1>8
  <2> HIDE DEF p, q, r, u
  <2>2. q < r /\ r <= Size(tok, s) /\ Size(tok, s) \in Nat
    BY <2>1
  <2> QED BY <2>2 DEF q, r
<1> QED BY <1>6, <1>7, <1>8, <1>9, Zenon DEF a, b

\* A special token that the text has at p ends within it.
LEMMA FoundFits ==
  ASSUME Types, NEW p \in 0..Len(in.text), NEW t \in Found(in, p)
  PROVE  t \in Ids /\ Len(in.tokens[t]) \in Nat \ {0} /\ Len(in.tokens[t]) <= Len(in.text) - p
<1>1. t \in in.special /\ in.tokens[t] # <<>> /\ IsPrefix(in.tokens[t], SubSeq(in.text, p + 1, Len(in.text)))
  BY DEF Found
<1>2. t \in Ids /\ in.tokens[t] \in Seq(Byte)
  <2>1. t \in Ids
    BY <1>1, TablesAre
  <2> QED BY <2>1, TablesAre, ElementOfSeq
<1>3. Len(in.tokens[t]) \in Nat \ {0}
  BY <1>1, <1>2, EmptySeq
<1> DEFINE x == in.text
           n == Len(x)
           y == SubSeq(x, p + 1, n)
<1>4. x \in Seq(Byte) /\ n \in Nat /\ \A k \in 1..n : x[k] \in Byte
  BY TablesAre, ElementOfSeq
<1>5. Len(y) = n - p
  <2> HIDE DEF x, n
  <2>1. p + 1 \in Int /\ n \in Int /\ \A k \in p+1..n : x[k] \in Byte
    BY <1>4 DEF n, x
  <2>2. Len(SubSeq(x, p + 1, n)) = IF p + 1 <= n THEN n - (p + 1) + 1 ELSE 0
    BY <2>1, SubSeqProperties
  <2>3. p \in 0..n
    BY DEF n, x
  <2> QED BY <1>4, <2>2, <2>3
<1>6. Len(in.tokens[t]) <= Len(y)
  <2> HIDE DEF y
  <2> QED BY <1>1 DEF IsPrefix, y
<1> QED BY <1>2, <1>3, <1>5, <1>6

\* Where a special token begins, one is the longest, and Hit finds it.
LEMMA LongestExists ==
  ASSUME Types, NEW p \in 0..Len(in.text), Found(in, p) # {}
  PROVE  \E t \in Found(in, p) : \A u \in Found(in, p) : Len(in.tokens[u]) <= Len(in.tokens[t])
<1> DEFINE L(t) == Len(in.tokens[t])
           n == Len(in.text)
           S == {k \in Nat : \E t \in Found(in, p) : k = n - L(t)}
<1>1. n \in Nat /\ \A t \in Found(in, p) : L(t) \in Nat /\ n - L(t) \in Nat
  <2>1. n \in Nat /\ p \in 0..n
    BY TablesAre
  <2>2. ASSUME NEW t \in Found(in, p) PROVE L(t) \in Nat /\ L(t) <= n - p
    BY <2>2, FoundFits
  <2> HIDE DEF L, n
  <2> QED BY <2>1, <2>2
<1> HIDE DEF L, n
<1>2. S # {} /\ S \in SUBSET Nat
  BY <1>1
<1>3. PICK k \in S : \A l \in S : k <= l
  <2> HIDE DEF S
  <2> QED BY <1>2, LeastExists
<1>4. PICK t \in Found(in, p) : k = n - L(t)
  BY <1>3
<1>5. \A u \in Found(in, p) : L(u) <= L(t)
  <2> TAKE u \in Found(in, p)
  <2>1. n - L(u) \in S
    BY <1>1
  <2>2. k <= n - L(u)
    BY <1>3, <2>1
  <2> QED BY <1>1, <1>4, <2>2
<1> QED BY <1>4, <1>5 DEF L

\* Nothing is encoded at first.
LEMMA WinInit == Init => WinInv
<1> SUFFICES ASSUME Init PROVE WinInv
  OBVIOUS
<1>1. at = 0 /\ start = 0 /\ out = <<>> /\ phase = "scan"
  BY DEF Init
<1>2. Len(out) = 0
  BY <1>1
<1> QED BY <1>1, <1>2 DEF WinInv, Settled

\* What is found in the table is what the scan compares with.
LEMMA FoundIs == \A p : Matching(p) = Found(in, p)
  BY DEF Matching, Found

\* The scan passes a byte only where no special token begins, and stops at a longest one.
LEMMA ScanWins == ASSUME EncodeInv, WinInv, Hit \/ Miss \/ End PROVE WinInv'
<1>1. Types /\ phase = "scan" /\ start \in 0..at /\ Spell(out) = SubSeq(in.text, 1, start)
  BY DEF EncodeInv, Read, Hit, Miss, End, Scanning
<1>2. in' = in /\ start' = start /\ out' = out /\ ids' = ids
  BY DEF Hit, Miss, End, Flush
<1>3. start <= Size(in.tokens, out)
  <2>1. in.text \in Seq(Byte) /\ start \in 0..Len(in.text)
    BY <1>1, TablesAre DEF Types
  <2>2. Len(SubSeq(in.text, 1, start)) = start
    BY <2>1, PrefixOfIds
  <2> QED BY <1>1, <2>1, <2>2, SpellIs DEF Size
<1>4. CASE Hit
  <2>1. PICK t \in FirstMatch(at) : Flush(t)
    BY <1>4 DEF Hit
  <2>2. Longest(in, t, at)
    BY <2>1, FoundIs DEF FirstMatch, Longest
  <2>3. at' = at /\ then' = t /\ phase' = "flush"
    BY <2>1 DEF Flush
  <2> QED BY <1>2, <1>3, <2>2, <2>3 DEF WinInv
<1>5. CASE Miss
  <2>1. at' = at + 1 /\ phase' = phase /\ FirstMatch(at) = {} /\ at \in 0..Len(in.text)
    BY <1>1, <1>5 DEF Miss, Types
  <2>2. Found(in, at) = {}
    <3>1. SUFFICES ASSUME Found(in, at) # {} PROVE FALSE
      OBVIOUS
    <3>2. PICK t \in Found(in, at) : \A u \in Found(in, at) : Len(in.tokens[u]) <= Len(in.tokens[t])
      BY <1>1, <2>1, <3>1, LongestExists
    <3>3. t \in FirstMatch(at)
      BY <3>2, FoundIs DEF FirstMatch
    <3> QED BY <2>1, <3>3
  <2>3. start \in 0..at' /\ start..at'-1 = (start..at-1) \cup {at}
    BY <1>1, <2>1
  <2>4. \A p \in start..at'-1 : Found(in, p) = {}
    BY <2>2, <2>3 DEF WinInv
  <2> QED BY <1>1, <1>2, <2>1, <2>3, <2>4 DEF WinInv
<1>6. CASE End
  <2>1. at' = at /\ then' = 0 /\ phase' = "flush"
    BY <1>6 DEF End, Flush
  <2> QED BY <1>2, <1>3, <2>1 DEF WinInv
<1> QED BY <1>4, <1>5, <1>6

\* The special token that ends a stretch comes right behind it.
LEMMA FlushedWins == ASSUME EncodeInv, WinInv, Flushed PROVE WinInv'
<1>1. Types /\ Spell(out) \o rest = SubSeq(in.text, 1, at) /\ rest = <<>> /\ phase = "flush"
  BY DEF EncodeInv, Read, Flushed
<1>2. in' = in
  BY DEF Flushed
<1>3. CASE then = 0
  <2>1. phase' = "done" /\ at' = at /\ start' = start /\ out' = out
    BY <1>3 DEF Flushed
  <2> QED BY <1>2, <2>1 DEF WinInv
<1>4. CASE then # 0
  <2>1. phase' = "scan" /\ out' = Append(out, then) /\ at' = at + Len(in.tokens[then]) /\ start' = at'
    BY <1>4 DEF Flushed, Resume
  <2>2. Longest(in, then, at)
    BY <1>1, <1>4 DEF WinInv
  <2> DEFINE tok == in.tokens
             t == <<then>>
  <2>3. /\ tok \in Seq(Seq(Byte)) /\ then \in DOMAIN tok /\ out \in Seq(DOMAIN tok) /\ at \in Nat
        /\ in.text \in Seq(Byte) /\ at \in 0..Len(in.text)
    BY <1>1, <1>4, TablesAre DEF Types, Ids
  <2>4. Len(tok[then]) \in Nat
    BY <2>3, LenProperties, ElementOfSeq
  <2>5. Size(tok, out) = at
    <3>1. Spell(out) \in Seq(Byte)
      BY <2>3, SpellingConcat, SpellIs
    <3>2. Spell(out) = SubSeq(in.text, 1, at)
      <4>1. Spell(out) \o <<>> = Spell(out)
        BY <3>1, ConcatEmptySeq
      <4> QED BY <1>1, <4>1
    <3>3. Len(SubSeq(in.text, 1, at)) = at
      BY <2>3, PrefixOfIds
    <3> QED BY <3>2, <3>3, SpellIs DEF Size
  <2>6. t \in Seq(DOMAIN tok) /\ Len(t) = 1 /\ t[1] = then /\ out' = out \o t
    <3>1. t \in Seq(DOMAIN tok) /\ Len(t) = 1 /\ t[1] = then
      <4>1. t \in Seq(DOMAIN tok)
        <5> HIDE DEF tok
        <5> QED BY <2>3
      <4> QED BY <4>1
    <3>2. Append(out, then) = out \o <<then>>
      BY <2>3, AppendIsConcat
    <3> QED BY <2>1, <3>1, <3>2
  <2>7. Size(tok, SubSeq(t, 1, 0)) = 0
    <3>1. SubSeq(t, 1, 0) = <<>>
      BY SubSeqEmpty
    <3>2. Spelling(tok, <<>>) = <<>> /\ Len(<<>>) = 0
      BY SpellingNone
    <3> QED BY <3>1, <3>2 DEF Size
  <2>8. Wins(in, then, at, Size(tok, out) + Size(tok, SubSeq(t, 1, 1)))
    <3>1. then \in in.special
      BY <2>2 DEF Longest, Found
    <3> QED BY <2>2, <3>1 DEF Wins, Longest
  <2>9. Settled(in, out \o t)
    <3>1. Settled(in, out)
      BY DEF WinInv
    <3>2. Size(tok, out) + Size(tok, SubSeq(t, 1, 1 - 1)) = at
      BY <2>3, <2>5, <2>7
    <3> HIDE DEF t
    <3>3. \A j \in 1..Len(t) : Wins(in, t[j], Size(tok, out) + Size(tok, SubSeq(t, 1, j - 1)),
                                             Size(tok, out) + Size(tok, SubSeq(t, 1, j)))
      BY <2>6, <2>8, <3>2
    <3> QED BY <2>3, <2>6, <3>1, <3>3, SettledConcat
  <2>10. start' \in 0..at' /\ start'..at'-1 = {}
    BY <2>1, <2>3, <2>4
  <2> QED BY <1>2, <2>1, <2>6, <2>9, <2>10 DEF WinInv
<1> QED BY <1>3, <1>4

\* Every id of a piece is a byte's.
LEMMA PieceWins == ASSUME EncodeInv, WinInv, Piece PROVE WinInv'
<1>1. /\ Types /\ phase = "flush" /\ phase' \in {"failed", "merge"}
      /\ in' = in /\ at' = at /\ start' = start /\ then' = then /\ out' = out
  BY DEF EncodeInv, Piece
<1>2. phase' = "merge" => Solid(in.tokens, ids')
  <2> SUFFICES ASSUME phase' = "merge" PROVE Solid(in.tokens, ids')
    OBVIOUS
  <2>1. PICK n \in 1..Len(rest) :
          /\ \A k \in 1..n : ByteIds(SubSeq(rest, 1, n)[k]) # {}
          /\ ids' = [k \in 1..n |-> ByteId(SubSeq(rest, 1, n)[k])]
    BY DEF Piece
  <2>2. n \in Nat /\ Len(ids') = n
    BY <1>1, <2>1, LenProperties DEF Types
  <2>3. ASSUME NEW k \in 1..n PROVE in.tokens[ids'[k]] # <<>>
    <3> DEFINE b == SubSeq(rest, 1, n)[k]
    <3>1. ByteIds(b) # {} /\ ids'[k] = ByteId(b)
      BY <2>1
    <3> HIDE DEF b
    <3>2. in.tokens[ids'[k]] = <<b>>
      BY <1>1, <3>1, ByteIdIs
    <3> QED BY <3>2
  <2> QED BY <2>2, <2>3 DEF Solid
<1> QED BY <1>1, <1>2 DEF WinInv

\* Leaving one id out leaves ids that were there.
LEMMA RemovedStays ==
  ASSUME NEW D, NEW s \in Seq(D), NEW n \in 1..Len(s)
  PROVE  \A j \in 1..Len(RemoveAt(s, n)) : \E k \in 1..Len(s) : RemoveAt(s, n)[j] = s[k]
<1> DEFINE m == Len(s)
           a == SubSeq(s, 1, n - 1)
           b == SubSeq(s, n + 1, m)
<1>1. m \in Nat /\ n \in 1..m /\ \A k \in 1..m : s[k] \in D
  BY LenProperties, ElementOfSeq
<1>2. a \in Seq(D) /\ Len(a) = n - 1 /\ \A j \in 1..n-1 : a[j] = s[j]
  <2>1. n - 1 \in 0..Len(s)
    BY <1>1
  <2> QED BY <2>1, PrefixOfIds
<1>3. b \in Seq(D) /\ Len(b) = m - n /\ \A j \in 1..m-n : b[j] = s[n + j]
  <2> HIDE DEF m
  <2>1. n + 1 \in Int /\ m \in Int /\ \A k \in n+1..m : s[k] \in D
    BY <1>1
  <2>2. /\ b \in Seq(D) /\ Len(b) = IF n + 1 <= m THEN m - (n + 1) + 1 ELSE 0
        /\ \A j \in 1..m-(n+1)+1 : b[j] = s[(n + 1) + j - 1]
    BY <2>1, SubSeqProperties
  <2> HIDE DEF b
  <2> QED BY <1>1, <2>2
<1>4. RemoveAt(s, n) = a \o b
  BY DEF RemoveAt
<1> HIDE DEF a, b
<1>5. /\ Len(a \o b) = (n - 1) + (m - n)
      /\ \A j \in 1..(n-1)+(m-n) : (a \o b)[j] = IF j <= n - 1 THEN a[j] ELSE b[j - (n - 1)]
  <2> HIDE DEF m
  <2>1. /\ Len(a \o b) = Len(a) + Len(b)
        /\ \A j \in 1..Len(a)+Len(b) : (a \o b)[j] = IF j <= Len(a) THEN a[j] ELSE b[j - Len(a)]
    BY <1>2, <1>3, ConcatProperties
  <2> QED BY <1>2, <1>3, <2>1
<1> SUFFICES ASSUME NEW j \in 1..Len(RemoveAt(s, n)) PROVE \E k \in 1..m : RemoveAt(s, n)[j] = s[k]
  OBVIOUS
<1> DEFINE c == a \o b
<1>6. j \in 1..(n-1)+(m-n) /\ RemoveAt(s, n)[j] = c[j]
  BY <1>4, <1>5
<1> HIDE DEF c, m
<1>7. c[j] = IF j <= n - 1 THEN a[j] ELSE b[j - (n - 1)]
  BY <1>5, <1>6 DEF c
<1>8. CASE j <= n - 1
  <2>1. j \in 1..n-1 /\ j \in 1..m
    BY <1>1, <1>6, <1>8
  <2> QED BY <1>2, <1>6, <1>7, <1>8, <2>1
<1>9. CASE ~(j <= n - 1)
  <2>1. j - (n - 1) \in 1..m-n /\ n + (j - (n - 1)) \in 1..m
    BY <1>1, <1>6, <1>9
  <2>2. b[j - (n - 1)] = s[n + (j - (n - 1))]
    BY <1>3, <2>1
  <2> QED BY <1>6, <1>7, <1>9, <2>1, <2>2
<1> QED BY <1>8, <1>9

\* A merge says what two ids said, which is something.
LEMMA MergeWins == ASSUME EncodeInv, WinInv, Merge PROVE WinInv'
<1>1. /\ Types /\ Pairs # {} /\ phase = "merge" /\ phase' = phase
      /\ in' = in /\ at' = at /\ start' = start /\ then' = then /\ out' = out
      /\ ids' = RemoveAt([ids EXCEPT ![Best] = in.merges[Rank(Best)][3]], Best + 1)
  BY DEF EncodeInv, Merge
<1> DEFINE tok == in.tokens
           k == Best
           q == Rank(k)
           r == in.merges[q][3]
           e == [ids EXCEPT ![k] = r]
<1>2. tok \in Seq(Seq(Byte)) /\ ids \in Seq(Ids) /\ Len(ids) \in Nat /\ Solid(tok, ids)
  BY <1>1, TablesAre, LenProperties DEF Types, WinInv
<1>3. k \in Pairs /\ k \in 1..Len(ids)-1
  BY <1>1, BestIs DEF Pairs
<1>4. q \in DOMAIN in.merges /\ in.merges[q][1] = ids[k] /\ in.merges[q][2] = ids[k+1]
  BY <1>1, <1>3, RankIs
<1>5. r \in Ids
  <2>1. in.merges[q] \in Ids \X Ids \X Ids
    BY <1>1, <1>4, TablesAre, LenProperties, ElementOfSeq
  <2> QED BY <2>1
<1>6. tok[r] = tok[ids[k]] \o tok[ids[k+1]]
  <2>1. tok[in.merges[q][3]] = tok[in.merges[q][1]] \o tok[in.merges[q][2]]
    BY <1>1, <1>4, TablesAre DEF MergesSpell
  <2> QED BY <1>4, <2>1
<1> HIDE DEF k, q, r
<1>7. tok[r] # <<>>
  <2>1. k \in 1..Len(ids) /\ k + 1 \in 1..Len(ids)
    BY <1>2, <1>3
  <2>2. ids[k] \in Ids /\ ids[k+1] \in Ids
    BY <1>2, <2>1, ElementOfSeq
  <2> DEFINE v == tok[ids[k]]
             w == tok[ids[k+1]]
  <2>3. v \in Seq(Byte) /\ w \in Seq(Byte)
    BY <1>1, <1>2, <2>2, TablesAre, ElementOfSeq
  <2>4. v # <<>>
    BY <1>2, <2>1 DEF Solid
  <2> HIDE DEF v, w
  <2>5. v \o w # <<>>
    BY <2>3, <2>4, ConcatEqualIffEmpty
  <2> QED BY <1>6, <2>5 DEF v, w
<1>8. e \in Seq(Ids) /\ Len(e) = Len(ids) /\ \A j \in 1..Len(ids) : e[j] = IF j = k THEN r ELSE ids[j]
  <2>1. k \in 1..Len(ids)
    BY <1>2, <1>3
  <2> QED BY <1>2, <1>5, <2>1, ExceptSeq
<1>9. \A j \in 1..Len(e) : tok[e[j]] # <<>>
  <2> HIDE DEF e
  <2> QED BY <1>2, <1>7, <1>8 DEF Solid
<1>10. k + 1 \in 1..Len(e)
  BY <1>2, <1>3, <1>8
<1> HIDE DEF e
<1>11. \A j \in 1..Len(RemoveAt(e, k + 1)) : \E l \in 1..Len(e) : RemoveAt(e, k + 1)[j] = e[l]
  BY <1>8, <1>10, RemovedStays
<1>12. Solid(tok, ids')
  <2>1. ids' = RemoveAt(e, k + 1)
    BY <1>1 DEF e, k, q, r
  <2> QED BY <1>9, <1>11, <2>1 DEF Solid
<1> QED BY <1>1, <1>12 DEF WinInv

\* A piece's ids are placed behind what is there, all of them within the stretch.
LEMMA EmitWins == ASSUME EncodeInv, WinInv, Emit PROVE WinInv'
<1>1. /\ Types /\ phase = "merge" /\ phase' = "flush" /\ out' = out \o ids
      /\ Spell(out) \o (Spell(ids) \o rest) = SubSeq(in.text, 1, at)
      /\ in' = in /\ at' = at /\ start' = start /\ then' = then
  BY DEF EncodeInv, Read, Emit
<1> DEFINE tok == in.tokens
<1>2. /\ tok \in Seq(Seq(Byte)) /\ out \in Seq(DOMAIN tok) /\ ids \in Seq(DOMAIN tok) /\ rest \in Seq(Byte)
      /\ in.text \in Seq(Byte) /\ at \in 0..Len(in.text) /\ Solid(tok, ids) /\ start <= Size(tok, out)
      /\ start \in 0..at /\ \A p \in start..at-1 : Found(in, p) = {}
  BY <1>1, TablesAre DEF Types, Ids, WinInv
<1>3. /\ Size(tok, out) \in Nat /\ Size(tok, ids) \in Nat /\ Size(tok, out \o ids) = Size(tok, out) + Size(tok, ids)
  BY <1>2, SizePlus
<1>4. Size(tok, out) + Size(tok, ids) <= at
  <2> DEFINE v == Spelling(tok, out)
             w == Spelling(tok, ids)
  <2>1. v \in Seq(Byte) /\ w \in Seq(Byte) /\ v \o (w \o rest) = SubSeq(in.text, 1, at)
    BY <1>1, <1>2, SpellingConcat, SpellIs
  <2>2. Len(SubSeq(in.text, 1, at)) = at
    BY <1>2, PrefixOfIds
  <2> HIDE DEF v, w
  <2>3. w \o rest \in Seq(Byte) /\ Len(w \o rest) = Len(w) + Len(rest)
    BY <1>2, <2>1, ConcatProperties
  <2>4. Len(v \o (w \o rest)) = Len(v) + (Len(w) + Len(rest))
    BY <2>1, <2>3, ConcatProperties
  <2>5. Len(v) \in Nat /\ Len(w) \in Nat /\ Len(rest) \in Nat
    BY <1>2, <2>1, LenProperties
  <2>6. Len(v) + (Len(w) + Len(rest)) = at
    BY <2>1, <2>2, <2>4
  <2>7. Len(v) + Len(w) <= at
    BY <2>5, <2>6
  <2> QED BY <2>7 DEF Size, v, w
<1>5. \A j \in 1..Len(ids) : Wins(in, ids[j], Size(tok, out) + Size(tok, SubSeq(ids, 1, j - 1)),
                                              Size(tok, out) + Size(tok, SubSeq(ids, 1, j)))
  <2> TAKE j \in 1..Len(ids)
  <2> DEFINE a == Size(tok, SubSeq(ids, 1, j - 1))
             b == Size(tok, SubSeq(ids, 1, j))
             c == Size(tok, ids)
             d == Size(tok, out)
  <2>1. a \in Nat /\ b \in Nat /\ c \in Nat /\ a < b /\ b <= c
    BY <1>2, SolidSizes
  <2>2. d \in Nat /\ d + c <= at /\ start <= d /\ at \in Nat /\ start \in Nat
    BY <1>2, <1>3, <1>4
  <2> HIDE DEF a, b, c, d
  <2>3. d + a \in start..at-1 /\ (d+a)..(d+b)-1 \subseteq start..at-1
    BY <2>1, <2>2
  <2>4. Wins(in, ids[j], d + a, d + b)
    BY <1>2, <2>3 DEF Wins
  <2> QED BY <2>4 DEF a, b, d
<1>6. Settled(in, out')
  <2>1. Settled(in, out)
    BY DEF WinInv
  <2>2. Settled(in, out \o ids)
    BY <1>2, <1>5, <2>1, SettledConcat
  <2> QED BY <1>1, <2>2
<1>7. then # 0 => Longest(in, then, at)
  BY <1>1 DEF WinInv
<1>8. start <= Size(tok, out \o ids)
  BY <1>2, <1>3
<1> QED BY <1>1, <1>2, <1>6, <1>7, <1>8 DEF WinInv

\* So every step keeps the invariant,
LEMMA WinNext == ASSUME EncodeInv, WinInv, [Next]_vars PROVE WinInv'
<1>1. CASE Done \/ UNCHANGED vars
  BY <1>1 DEF Done, vars, WinInv
<1> QED BY <1>1, ScanWins, FlushedWins, PieceWins, MergeWins, EmitWins DEF Next

\* and at the end it is what SpecialsWin says.
LEMMA WinSafe == ASSUME EncodeInv, WinInv PROVE SpecialsWin
<1> SUFFICES ASSUME phase = "done", NEW k \in DOMAIN out
             PROVE  IF out[k] \in in.special
                    THEN \A t \in Matching(Offset(k)) : Len(in.tokens[t]) <= Len(in.tokens[out[k]])
                    ELSE \A o \in Offset(k)..Offset(k+1)-1 : Matching(o) = {}
  BY DEF SpecialsWin
<1>1. k \in 1..Len(out) /\ k \in Int
  BY LenProperties DEF EncodeInv, Types
<1>2. Offset(k) = Size(in.tokens, SubSeq(out, 1, k - 1)) /\ Offset(k + 1) = Size(in.tokens, SubSeq(out, 1, k))
  <2>1. (k + 1) - 1 = k
    BY <1>1
  <2> QED BY <2>1, SpellIs DEF Offset, Size
<1>3. Wins(in, out[k], Offset(k), Offset(k + 1))
  BY <1>1, <1>2 DEF WinInv, Settled
<1> QED BY <1>3, FoundIs DEF Wins

-----------------------------------------------------------------------------
(* Merges in the order they were learned                                   *)

\* A claim about 0 that each number up to n hands on holds of them all, as a statement about the set where it does.
LEMMA UpTo ==
  ASSUME NEW n \in Nat, NEW P, 0 \in P, \A k \in 1..n : k - 1 \in P => k \in P
  PROVE  \A k \in 0..n : k \in P
<1> DEFINE Bad == {k \in 0..n : k \notin P}
<1>1. SUFFICES ASSUME Bad # {} PROVE FALSE
  OBVIOUS
<1>2. PICK m \in Bad : \A k \in Bad : m <= k
  <2>1. Bad \in SUBSET Nat
    OBVIOUS
  <2> HIDE DEF Bad
  <2> QED BY <1>1, <2>1, LeastExists
<1>3. m \in 1..n /\ m - 1 \in 0..n /\ ~(m <= m - 1)
  OBVIOUS
<1>4. m - 1 \in P
  BY <1>2, <1>3
<1> QED BY <1>3, <1>4

\* f[k] is what k steps of G make of e.
Folds(f, G, e, n) == f[0] = e /\ \A k \in 1..n : f[k] = G[<<f[k-1], k>>]

\* A function defined by recursion over 0..n exists when its step is one on S.
LEMMA FoldExists ==
  ASSUME NEW S, NEW n \in Nat, NEW e \in S, NEW G \in [S \X (1..n) -> S]
  PROVE  \E f \in [0..n -> S] : Folds(f, G, e, n)
<1> DEFINE Upto(j, f) == f[0] = e /\ \A k \in 1..j : f[k] = G[<<f[k-1], k>>]
           P == {j \in 0..n : \E f \in [0..j -> S] : Upto(j, f)}
<1>1. 0 \in P
  <2> DEFINE g == [k \in 0..0 |-> e]
  <2>1. g \in [0..0 -> S] /\ g[0] = e
    OBVIOUS
  <2>2. 0 \in 0..n /\ 1..0 = {}
    OBVIOUS
  <2> HIDE DEF g
  <2> QED BY <2>1, <2>2
<1>2. ASSUME NEW j \in 1..n, j - 1 \in P PROVE j \in P
  <2>1. PICK f \in [0..j-1 -> S] : Upto(j - 1, f)
    BY <1>2
  <2> DEFINE g == [k \in 0..j |-> IF k = j THEN G[<<f[j-1], j>>] ELSE f[k]]
  <2>2. f[j-1] \in S /\ G[<<f[j-1], j>>] \in S
    <3>1. j - 1 \in 0..j-1
      OBVIOUS
    <3>2. f[j-1] \in S
      BY <3>1
    <3> QED BY <3>2
  <2>3. g \in [0..j -> S]
    BY <2>2
  <2>4. g[0] = e /\ g[j] = G[<<g[j-1], j>>] /\ \A k \in 1..j-1 : g[k] = f[k] /\ g[k-1] = f[k-1]
    <3>1. /\ 0 \in 0..j /\ 0 # j /\ j \in 0..j /\ j - 1 \in 0..j /\ j - 1 # j
          /\ \A k \in 1..j-1 : k \in 0..j /\ k - 1 \in 0..j /\ k # j /\ k - 1 # j
      OBVIOUS
    <3> QED BY <2>1, <3>1
  <2>5. \A k \in 1..j : g[k] = G[<<g[k-1], k>>]
    <3> TAKE k \in 1..j
    <3>1. CASE k = j
      BY <2>4, <3>1
    <3>2. CASE k # j
      <4>1. k \in 1..j-1
        BY <3>2
      <4> HIDE DEF g
      <4> QED BY <2>1, <2>4, <4>1
    <3> QED BY <3>1, <3>2
  <2> HIDE DEF g
  <2> QED BY <2>3, <2>4, <2>5
<1>3. n \in P
  <2> HIDE DEF P
  <2>1. \A k \in 0..n : k \in P
    BY <1>1, <1>2, UpTo
  <2> QED BY <2>1
<1> QED BY <1>3 DEF Folds

\* What Joined returns is a sequence of tokens again.
LEMMA JoinedIs ==
  ASSUME NEW D, NEW m \in D \X D \X D, NEW s \in Seq(D), NEW t \in D
  PROVE  Joined(s, t, m) \in Seq(D)
<1>1. m[3] \in D /\ Append(s, t) \in Seq(D)
  OBVIOUS
<1>2. ASSUME s # <<>> PROVE Append(Front(s), m[3]) \in Seq(D)
  <2>1. Front(s) \in Seq(D)
    BY <1>2 DEF Front
  <2> QED BY <1>1, <2>1
<1> QED BY <1>1, <1>2 DEF Joined

\* One merge goes through its sequence from the left, f[k] being what the first k tokens have become.
Merges(f, s, m) ==
  /\ f[0] = <<>> /\ \A k \in 1..Len(s) : f[k] = Joined(f[k-1], s[k], m)
  /\ Apply(s, m) = f[Len(s)]

\* There is such an f, Apply being defined by recursion.
LEMMA ApplyIs ==
  ASSUME NEW D, NEW m \in D \X D \X D, NEW s \in Seq(D)
  PROVE  \E f \in [0..Len(s) -> Seq(D)] : Merges(f, s, m)
<1> DEFINE n == Len(s)
           S == Seq(D)
           G == [p \in S \X (1..n) |-> Joined(p[1], s[p[2]], m)]
           Step(f) == f = [k \in 0..n |-> IF k = 0 THEN <<>> ELSE Joined(f[k-1], s[k], m)]
           F == CHOOSE f : Step(f)
<1>1. n \in Nat /\ <<>> \in S /\ \A k \in 1..n : s[k] \in D
  BY LenProperties, ElementOfSeq, EmptySeq
<1>2. \A v \in S : \A k \in 1..n : Joined(v, s[k], m) \in S
  BY <1>1, JoinedIs
<1> HIDE DEF S, n
<1>3. G \in [S \X (1..n) -> S] /\ \A v \in S : \A k \in 1..n : G[<<v, k>>] = Joined(v, s[k], m)
  BY <1>2
<1> HIDE DEF G
<1>4. PICK g \in [0..n -> S] : g[0] = <<>> /\ \A k \in 1..n : g[k] = G[<<g[k-1], k>>]
  <2> HIDE DEF Step, F
  <2>1. \E g \in [0..n -> S] : Folds(g, G, <<>>, n)
    BY <1>1, <1>3, FoldExists
  <2> QED BY <2>1 DEF Folds
<1>5. Step(g)
  <2>1. \A k \in 1..n : k - 1 \in 0..n
    BY <1>1
  <2>2. \A k \in 1..n : g[k] = Joined(g[k-1], s[k], m)
    BY <1>3, <1>4, <2>1
  <2>3. g = [k \in 0..n |-> g[k]]
    BY <1>4
  <2>4. \A k \in 0..n : k = 0 \/ k \in 1..n
    BY <1>1
  <2>5. \A k \in 0..n : g[k] = IF k = 0 THEN <<>> ELSE Joined(g[k-1], s[k], m)
    BY <1>4, <2>2, <2>4
  <2>6. [k \in 0..n |-> g[k]] = [k \in 0..n |-> IF k = 0 THEN <<>> ELSE Joined(g[k-1], s[k], m)]
    BY <2>5, Zenon
  <2> QED BY <2>3, <2>6, Zenon
<1>6. Step(F)
  <2>1. \E f : Step(f)
    BY <1>5
  <2> HIDE DEF Step
  <2> QED BY <2>1
<1>7. Apply(s, m) = F[n]
  BY DEF Apply, n
<1> HIDE DEF F
<1>8. F[0] = <<>> /\ \A k \in 1..n : F[k] = Joined(F[k-1], s[k], m)
  <2>1. 0 \in 0..n /\ \A k \in 1..n : k \in 0..n /\ k # 0
    BY <1>1
  <2> QED BY <1>6, <2>1
<1>9. \A k \in 0..n : F[k] \in S
  <2> DEFINE P == {k \in 0..n : F[k] \in S}
  <2>1. 0 \in P
    BY <1>1, <1>8
  <2>2. ASSUME NEW k \in 1..n, k - 1 \in P PROVE k \in P
    <3>1. k \in 0..n
      BY <1>1
    <3> QED BY <1>2, <1>8, <2>2, <3>1
  <2> HIDE DEF P
  <2>3. \A k \in 0..n : k \in P
    BY <1>1, <2>1, <2>2, UpTo
  <2> QED BY <2>3 DEF P
<1>10. F \in [0..n -> S]
  <2>1. F = [k \in 0..n |-> F[k]]
    BY <1>6
  <2> QED BY <1>9, <2>1
<1> QED BY <1>7, <1>8, <1>10 DEF Merges, n, S

\* and so a sequence of tokens is what it leaves.
LEMMA ApplyTyped ==
  ASSUME NEW D, NEW m \in D \X D \X D, NEW s \in Seq(D)
  PROVE  Apply(s, m) \in Seq(D)
<1>1. PICK f \in [0..Len(s) -> Seq(D)] : Merges(f, s, m)
  BY ApplyIs
<1>2. Len(s) \in 0..Len(s)
  BY LenProperties
<1> QED BY <1>1, <1>2 DEF Merges

\* A table's merges go over s one after the other, h[k] being what the first k leave of it.
MergesAll(h, s, ms) ==
  /\ h[0] = s /\ \A k \in 1..Len(ms) : h[k] = Apply(h[k-1], ms[k])
  /\ ApplyAll(s, ms) = h[Len(ms)]

\* There is such an h.
LEMMA ApplyAllIs ==
  ASSUME NEW D, NEW ms \in Seq(D \X D \X D), NEW s \in Seq(D)
  PROVE  \E h \in [0..Len(ms) -> Seq(D)] : MergesAll(h, s, ms)
<1> DEFINE n == Len(ms)
           S == Seq(D)
           G == [p \in S \X (1..n) |-> Apply(p[1], ms[p[2]])]
           Step(f) == f = [k \in 0..n |-> IF k = 0 THEN s ELSE Apply(f[k-1], ms[k])]
           F == CHOOSE f : Step(f)
<1>1. n \in Nat /\ s \in S /\ \A k \in 1..n : ms[k] \in D \X D \X D
  BY LenProperties, ElementOfSeq
<1>2. \A v \in S : \A k \in 1..n : Apply(v, ms[k]) \in S
  BY <1>1, ApplyTyped
<1> HIDE DEF S, n
<1>3. G \in [S \X (1..n) -> S] /\ \A v \in S : \A k \in 1..n : G[<<v, k>>] = Apply(v, ms[k])
  BY <1>2
<1> HIDE DEF G
<1>4. PICK g \in [0..n -> S] : g[0] = s /\ \A k \in 1..n : g[k] = G[<<g[k-1], k>>]
  <2> HIDE DEF Step, F
  <2>1. \E g \in [0..n -> S] : Folds(g, G, s, n)
    BY <1>1, <1>3, FoldExists
  <2> QED BY <2>1 DEF Folds
<1>5. Step(g)
  <2>1. \A k \in 1..n : k - 1 \in 0..n
    BY <1>1
  <2>2. \A k \in 1..n : g[k] = Apply(g[k-1], ms[k])
    BY <1>3, <1>4, <2>1
  <2>3. g = [k \in 0..n |-> g[k]]
    BY <1>4
  <2>4. \A k \in 0..n : k = 0 \/ k \in 1..n
    BY <1>1
  <2>5. \A k \in 0..n : g[k] = IF k = 0 THEN s ELSE Apply(g[k-1], ms[k])
    BY <1>4, <2>2, <2>4
  <2>6. [k \in 0..n |-> g[k]] = [k \in 0..n |-> IF k = 0 THEN s ELSE Apply(g[k-1], ms[k])]
    BY <2>5, Zenon
  <2> QED BY <2>3, <2>6, Zenon
<1>6. Step(F)
  <2>1. \E f : Step(f)
    BY <1>5
  <2> HIDE DEF Step
  <2> QED BY <2>1
<1>7. ApplyAll(s, ms) = F[n]
  BY DEF ApplyAll, n
<1> HIDE DEF F
<1>8. F[0] = s /\ \A k \in 1..n : F[k] = Apply(F[k-1], ms[k])
  <2>1. 0 \in 0..n /\ \A k \in 1..n : k \in 0..n /\ k # 0
    BY <1>1
  <2> QED BY <1>6, <2>1
<1>9. \A k \in 0..n : F[k] \in S
  <2> DEFINE P == {k \in 0..n : F[k] \in S}
  <2>1. 0 \in P
    BY <1>1, <1>8
  <2>2. ASSUME NEW k \in 1..n, k - 1 \in P PROVE k \in P
    <3>1. k \in 0..n
      BY <1>1
    <3> QED BY <1>2, <1>8, <2>2, <3>1
  <2> HIDE DEF P
  <2>3. \A k \in 0..n : k \in P
    BY <1>1, <2>1, <2>2, UpTo
  <2> QED BY <2>3 DEF P
<1>10. F \in [0..n -> S]
  <2>1. F = [k \in 0..n |-> F[k]]
    BY <1>6
  <2> QED BY <1>9, <2>1
<1> QED BY <1>7, <1>8, <1>10 DEF MergesAll, n, S

\* A merge fits at k.
Fits(s, m, k) == s[k] = m[1] /\ s[k+1] = m[2]

\* One more token goes to the end of a prefix.
LEMMA PrefixMore ==
  ASSUME NEW D, NEW s \in Seq(D), NEW k \in 1..Len(s)
  PROVE  SubSeq(s, 1, k) = Append(SubSeq(s, 1, k - 1), s[k])
<1>1. Len(s) \in Nat /\ 1 \in 1..Len(s) /\ k - 1 \in 0..Len(s) /\ s[k] \in D
  BY LenProperties, ElementOfSeq
<1>2. SubSeq(s, 1, k) = SubSeq(s, 1, k - 1) \o <<s[k]>>
  BY <1>1, SubSeqRecursiveSecond
<1>3. SubSeq(s, 1, k - 1) \in Seq(D)
  BY <1>1, PrefixOfIds
<1> QED BY <1>1, <1>2, <1>3, AppendIsConcat

\* It fits nowhere before j, and after j tokens they are what they were.
NoneBefore(s, m, j) == \A k \in 1..j-1 : ~Fits(s, m, k)
AsBefore(f, j, s) == f[j] = SubSeq(s, 1, j)

\* As far as a merge fits nowhere, it leaves the tokens as they are.
LEMMA MergesNothing ==
  ASSUME NEW D, NEW m \in D \X D \X D, NEW s \in Seq(D), NEW f, Merges(f, s, m),
         NEW j \in 0..Len(s), NoneBefore(s, m, j)
  PROVE  AsBefore(f, j, s)
<1> DEFINE P == {k \in 0..j : f[k] = SubSeq(s, 1, k)}
<1>1. Len(s) \in Nat /\ j \in Nat
  BY LenProperties
<1>2. 0 \in P
  <2>1. f[0] = <<>> /\ 0 \in 0..j
    BY <1>1 DEF Merges
  <2>2. SubSeq(s, 1, 0) = <<>>
    BY SubSeqEmpty
  <2> QED BY <2>1, <2>2
<1>3. ASSUME NEW k \in 1..j, k - 1 \in P PROVE k \in P
  <2> DEFINE p == SubSeq(s, 1, k - 1)
  <2>1. k \in 1..Len(s) /\ k - 1 \in 0..Len(s) /\ k \in 0..j
    BY <1>1
  <2>2. f[k] = Joined(p, s[k], m)
    BY <1>3, <2>1 DEF Merges
  <2>3. p \in Seq(D) /\ Len(p) = k - 1 /\ \A i \in 1..k-1 : p[i] = s[i]
    BY <2>1, PrefixOfIds
  <2> HIDE DEF p
  <2>4. p # <<>> => Last(p) = s[k-1] /\ k - 1 \in 1..j-1 /\ (k - 1) + 1 = k
    <3> SUFFICES ASSUME p # <<>> PROVE Last(p) = s[k-1] /\ k - 1 \in 1..j-1 /\ (k - 1) + 1 = k
      OBVIOUS
    <3>1. Len(p) # 0
      BY <2>3, EmptySeq
    <3>2. k - 1 \in 1..k-1 /\ k - 1 \in 1..j-1 /\ (k - 1) + 1 = k
      BY <1>1, <2>3, <3>1
    <3> QED BY <2>3, <3>2 DEF Last
  <2>5. ~(p # <<>> /\ s[k] = m[2] /\ Last(p) = m[1])
    BY <2>4 DEF Fits, NoneBefore
  <2>6. f[k] = Append(p, s[k])
    BY <2>2, <2>5 DEF Joined
  <2>7. SubSeq(s, 1, k) = Append(p, s[k])
    BY <2>1, PrefixMore DEF p
  <2> QED BY <2>1, <2>6, <2>7
<1>4. j \in P
  <2> HIDE DEF P
  <2>1. \A k \in 0..j : k \in P
    BY <1>1, <1>2, <1>3, UpTo
  <2> QED BY <1>1, <2>1
<1> QED BY <1>4 DEF AsBefore

\* So it does with all of them when it fits nowhere.
LEMMA ApplyNothing ==
  ASSUME NEW D, NEW m \in D \X D \X D, NEW s \in Seq(D), \A k \in 1..Len(s)-1 : ~Fits(s, m, k)
  PROVE  Apply(s, m) = s
<1>1. PICK f \in [0..Len(s) -> Seq(D)] : Merges(f, s, m)
  BY ApplyIs
<1>2. Len(s) \in 0..Len(s)
  BY LenProperties
<1>3. NoneBefore(s, m, Len(s))
  BY DEF NoneBefore
<1>4. f[Len(s)] = SubSeq(s, 1, Len(s))
  BY <1>1, <1>2, <1>3, MergesNothing DEF AsBefore
<1> QED BY <1>1, <1>4, SubSeqFull DEF Merges

\* The pair at k becomes r.
Merged(s, k, r) == RemoveAt([s EXCEPT ![k] = r], k + 1)

\* What is before the pair stays, what is behind it moves up.
IsMerged(t, s, k, r) ==
  /\ Len(t) = Len(s) - 1 /\ t[k] = r
  /\ \A j \in 1..k-1 : t[j] = s[j]
  /\ \A j \in k+1..Len(s)-1 : t[j] = s[j+1]

\* So it is, RemoveAt being two stretches set together.
LEMMA MergedIs ==
  ASSUME NEW D, NEW s \in Seq(D), NEW k \in 1..Len(s)-1, NEW r \in D
  PROVE  Merged(s, k, r) \in Seq(D) /\ IsMerged(Merged(s, k, r), s, k, r)
<1> DEFINE n == Len(s)
           e == [s EXCEPT ![k] = r]
           a == SubSeq(e, 1, k)
           b == SubSeq(e, k + 2, n)
<1>1. n \in Nat /\ k \in 1..n /\ k + 1 \in 1..n /\ k \in 0..n /\ \A j \in 1..n : s[j] \in D
  BY LenProperties, ElementOfSeq
<1>2. e \in Seq(D) /\ Len(e) = n /\ \A j \in 1..n : e[j] = IF j = k THEN r ELSE s[j]
  BY <1>1, ExceptSeq
<1> HIDE DEF e, n
<1>3. a \in Seq(D) /\ Len(a) = k /\ \A j \in 1..k : a[j] = e[j]
  BY <1>1, <1>2, PrefixOfIds
<1>4. b \in Seq(D) /\ Len(b) = n - k - 1 /\ \A j \in 1..n-k-1 : b[j] = e[k + 1 + j]
  <2>1. k + 2 \in Int /\ n \in Int /\ \A j \in k+2..n : e[j] \in D
    <3>1. \A j \in k+2..n : j \in 1..n
      BY <1>1
    <3> QED BY <1>1, <1>2, <3>1, ElementOfSeq
  <2>2. /\ b \in Seq(D) /\ Len(b) = IF k + 2 <= n THEN n - (k + 2) + 1 ELSE 0
        /\ \A j \in 1..n-(k+2)+1 : b[j] = e[(k + 2) + j - 1]
    BY <2>1, SubSeqProperties
  <2> HIDE DEF b
  <2> QED BY <1>1, <2>2
<1> DEFINE t == RemoveAt(e, k + 1)
<1>5. t = a \o b
  <2>1. (k + 1) - 1 = k /\ (k + 1) + 1 = k + 2
    BY <1>1
  <2> QED BY <1>2, <2>1 DEF RemoveAt
<1> HIDE DEF a, b, t
<1>6. t \in Seq(D) /\ Len(t) = n - 1 /\ \A j \in 1..n-1 : t[j] = IF j <= k THEN a[j] ELSE b[j - k]
  <2>1. /\ a \o b \in Seq(D) /\ Len(a \o b) = Len(a) + Len(b)
        /\ \A j \in 1..Len(a)+Len(b) : (a \o b)[j] = IF j <= Len(a) THEN a[j] ELSE b[j - Len(a)]
    BY <1>3, <1>4, ConcatProperties
  <2>2. Len(a) + Len(b) = n - 1
    BY <1>1, <1>3, <1>4
  <2> QED BY <1>3, <1>5, <2>1, <2>2
<1>7. t[k] = r /\ \A j \in 1..k-1 : t[j] = s[j]
  <2>1. \A j \in 1..k : j \in 1..n-1 /\ j \in 1..n /\ j <= k
    BY <1>1
  <2>2. k \in 1..k /\ \A j \in 1..k-1 : j \in 1..k /\ j # k
    BY <1>1
  <2> QED BY <1>2, <1>3, <1>6, <2>1, <2>2
<1>8. \A j \in k+1..n-1 : t[j] = s[j+1]
  <2> TAKE j \in k+1..n-1
  <2>1. j \in 1..n-1 /\ ~(j <= k) /\ j - k \in 1..n-k-1 /\ k + 1 + (j - k) = j + 1 /\ j + 1 \in 1..n /\ j + 1 # k
    BY <1>1
  <2>2. t[j] = b[j - k] /\ b[j - k] = e[k + 1 + (j - k)] /\ e[j+1] = s[j+1]
    BY <1>2, <1>4, <1>6, <2>1
  <2> QED BY <2>1, <2>2
<1> QED BY <1>6, <1>7, <1>8 DEF Merged, IsMerged, t, e, n

\* A merge of the leftmost pair it fits does no harm to what the merge makes of the whole.
LEMMA ApplyMerged ==
  ASSUME NEW D, NEW m \in D \X D \X D, NEW s \in Seq(D), NEW k \in 1..Len(s)-1,
         Fits(s, m, k), \A j \in 1..k-1 : ~Fits(s, m, j), m[3] # m[2]
  PROVE  Apply(Merged(s, k, m[3]), m) = Apply(s, m)
<1> DEFINE n == Len(s)
           r == m[3]
           p == SubSeq(s, 1, k - 1)
<1>1. r \in D /\ n \in Nat /\ k \in 1..n /\ k + 1 \in 1..n /\ k \in 0..n /\ k - 1 \in 0..n
  BY LenProperties
<1> HIDE DEF r
<1> DEFINE t == Merged(s, k, r)
<1>2. /\ t \in Seq(D) /\ Len(t) = n - 1 /\ t[k] = r
      /\ \A j \in 1..k-1 : t[j] = s[j]
      /\ \A j \in k+1..n-1 : t[j] = s[j+1]
  <2>1. r \in D
    BY <1>1
  <2>2. t \in Seq(D) /\ IsMerged(t, s, k, r)
    <3> HIDE DEF p, n
    <3> QED BY <2>1, MergedIs
  <2> HIDE DEF t
  <2> QED BY <2>2 DEF IsMerged
<1> HIDE DEF t, n
<1>3. PICK f \in [0..Len(s) -> Seq(D)] : Merges(f, s, m)
  BY ApplyIs
<1>4. PICK g \in [0..Len(t) -> Seq(D)] : Merges(g, t, m)
  BY <1>2, ApplyIs
<1>5. p \in Seq(D)
  BY <1>1, PrefixOfIds DEF n
<1>6. f[k+1] = Append(p, r)
  <2>1. f[k] = SubSeq(s, 1, k)
    <3>1. NoneBefore(s, m, k)
      BY DEF NoneBefore
    <3> QED BY <1>1, <1>3, <3>1, MergesNothing DEF n, AsBefore
  <2>2. SubSeq(s, 1, k) = Append(p, s[k])
    BY <1>1, PrefixMore DEF n
  <2>3. f[k+1] = Joined(f[k], s[k+1], m)
    <3>1. (k + 1) - 1 = k
      BY <1>1
    <3>2. f[k+1] = Joined(f[(k+1)-1], s[k+1], m)
      BY <1>1, <1>3 DEF Merges, n
    <3> QED BY <3>1, <3>2
  <2>4. s[k] \in D /\ s[k] = m[1] /\ s[k+1] = m[2]
    BY <1>1, ElementOfSeq DEF Fits, n
  <2> DEFINE x == s[k]
  <2> HIDE DEF p, x
  <2>5. Append(p, x) # <<>> /\ Last(Append(p, x)) = x /\ Front(Append(p, x)) = p
    <3>1. x \in D
      BY <2>4 DEF x
    <3>2. /\ Append(p, x) \in Seq(D) /\ Append(p, x) # <<>> /\ Len(Append(p, x)) = Len(p) + 1
          /\ Append(p, x)[Len(p)+1] = x /\ Len(p) \in Nat /\ (Len(p) + 1) - 1 = Len(p)
          /\ \A j \in 1..Len(p) : Append(p, x)[j] = p[j]
      BY <1>5, <3>1, AppendProperties, LenProperties
    <3>3. SubSeq(Append(p, x), 1, Len(p)) = SubSeq(p, 1, Len(p))
      BY <3>2, SubSeqAgree
    <3> QED BY <1>5, <3>2, <3>3, SubSeqFull DEF Last, Front
  <2> QED BY <2>1, <2>2, <2>3, <2>4, <2>5 DEF Joined, x, r
<1>7. g[k] = Append(p, r)
  <2>1. g[k-1] = SubSeq(t, 1, k - 1)
    <3>1. PICK l : l = k - 1
      OBVIOUS
    <3>2. l \in 0..Len(t) /\ \A j \in 1..l-1 : j \in 1..k-1 /\ j + 1 \in 1..k-1
      <4>1. n \in Nat /\ k \in 1..n /\ k + 1 \in 1..n /\ Len(t) = n - 1
        BY <1>1, <1>2
      <4> QED BY <3>1, <4>1
    <3>3. NoneBefore(t, m, l)
      BY <1>2, <3>2 DEF Fits, NoneBefore
    <3>4. AsBefore(g, l, t)
      BY <1>2, <1>4, <3>2, <3>3, MergesNothing
    <3> QED BY <3>1, <3>4 DEF AsBefore
  <2>2. SubSeq(t, 1, k - 1) = p
    <3>1. 1 \in Int /\ k - 1 \in Int
      BY <1>1
    <3> QED BY <1>2, <3>1, SubSeqAgree
  <2>3. g[k] = Joined(g[k-1], t[k], m)
    <3>1. k \in 1..Len(t)
      BY <1>1, <1>2
    <3> QED BY <1>4, <3>1 DEF Merges
  <2> QED BY <1>2, <2>1, <2>2, <2>3 DEF Joined, r
<1> DEFINE P == {i \in 0..n-1-k : f[k+i+1] = g[k+i]}
<1>8. 0 \in P
  <2>1. 0 \in 0..n-1-k /\ k + 0 + 1 = k + 1 /\ k + 0 = k
    BY <1>1
  <2> QED BY <1>6, <1>7, <2>1
<1>9. ASSUME NEW i \in 1..n-1-k, i - 1 \in P PROVE i \in P
  <2>1. /\ i \in 0..n-1-k /\ k + i + 1 \in 1..n /\ (k + i + 1) - 1 = k + i /\ k + i \in 1..Len(t)
        /\ (k + i) - 1 = k + (i - 1) /\ k + (i - 1) + 1 = k + i /\ k + i \in k+1..n-1 /\ (k + i) + 1 = k + i + 1
    <3>1. n \in Nat /\ k \in 1..n /\ i \in 1..n-1-k /\ Len(t) = n - 1
      BY <1>1, <1>2
    <3> HIDE DEF P
    <3> QED BY <3>1
  <2>2. f[k+i+1] = Joined(f[k+i], s[k+i+1], m)
    <3>1. f[k+i+1] = Joined(f[(k+i+1)-1], s[k+i+1], m)
      BY <1>3, <2>1 DEF Merges, n
    <3> QED BY <2>1, <3>1
  <2>3. g[k+i] = Joined(g[k+(i-1)], t[k+i], m)
    <3>1. g[k+i] = Joined(g[(k+i)-1], t[k+i], m)
      BY <1>4, <2>1 DEF Merges
    <3> QED BY <2>1, <3>1
  <2>4. t[k+i] = s[k+i+1]
    <3>1. t[k+i] = s[(k+i)+1]
      BY <1>2, <2>1
    <3> QED BY <2>1, <3>1
  <2>5. f[k+i] = g[k+(i-1)]
    <3>1. f[k+(i-1)+1] = g[k+(i-1)]
      BY <1>9
    <3> QED BY <2>1, <3>1
  <2> QED BY <2>1, <2>2, <2>3, <2>4, <2>5
<1>10. n - 1 - k \in P
  <2>1. n - 1 - k \in Nat
    BY <1>1
  <2> HIDE DEF P
  <2>2. \A i \in 0..n-1-k : i \in P
    BY <1>8, <1>9, <2>1, UpTo
  <2> QED BY <2>1, <2>2
<1>11. f[n] = g[Len(t)]
  <2>1. k + (n - 1 - k) + 1 = n /\ k + (n - 1 - k) = Len(t)
    BY <1>1, <1>2
  <2> QED BY <1>10, <2>1
<1> QED BY <1>3, <1>4, <1>11 DEF Merges, n, t, r

\* A merge fits nowhere; and none of the first j does.
NoneFits(s, m) == \A k \in 1..Len(s)-1 : ~Fits(s, m, k)
NoneOf(ms, j, s) == \A l \in 1..j : NoneFits(s, ms[l])

\* A merge that fits nowhere fits nowhere still when another pair becomes a token it is not of.
LEMMA NoneFitsMerged ==
  ASSUME NEW s, NEW t, NEW m, NEW k \in 1..Len(s)-1, NEW r, Len(s) \in Nat,
         NoneFits(s, m), IsMerged(t, s, k, r), r \notin {m[1], m[2]}
  PROVE  NoneFits(t, m)
<1> DEFINE n == Len(s)
<1>1. /\ n \in Nat /\ k \in 1..n-1 /\ Len(t) = n - 1 /\ t[k] = r
      /\ \A j \in 1..k-1 : t[j] = s[j]
      /\ \A j \in k+1..n-1 : t[j] = s[j+1]
  BY DEF IsMerged
<1>2. \A j \in 1..n-1 : ~Fits(s, m, j)
  BY DEF NoneFits
<1> HIDE DEF n
<1> SUFFICES ASSUME NEW j \in 1..n-2, Fits(t, m, j) PROVE FALSE
  <2>1. (n - 1) - 1 = n - 2
    BY <1>1
  <2> QED BY <1>1, <2>1 DEF NoneFits
<1>3. t[j] = m[1] /\ t[j+1] = m[2]
  BY DEF Fits
<1>4. CASE j < k - 1
  <2>1. j \in 1..k-1 /\ j + 1 \in 1..k-1 /\ j \in 1..n-1
    BY <1>1, <1>4
  <2> QED BY <1>1, <1>2, <1>3, <2>1 DEF Fits
<1>5. CASE j = k - 1
  <2>1. j + 1 = k
    BY <1>1, <1>5
  <2> QED BY <1>1, <1>3, <2>1
<1>6. CASE j = k
  BY <1>1, <1>3, <1>6
<1>7. CASE j > k
  <2>1. j \in k+1..n-1 /\ j + 1 \in k+1..n-1 /\ j + 1 \in 1..n-1
    BY <1>1, <1>7
  <2> QED BY <1>1, <1>2, <1>3, <2>1 DEF Fits
<1> QED BY <1>1, <1>4, <1>5, <1>6, <1>7

\* After j merges the tokens are what they were.
Unchanged(h, j, s) == h[j] = s

\* They are as long as no merge of the table fits.
LEMMA MergesAllNothing ==
  ASSUME NEW D, NEW ms \in Seq(D \X D \X D), NEW s \in Seq(D), NEW h, MergesAll(h, s, ms),
         NEW j \in 0..Len(ms), NoneOf(ms, j, s)
  PROVE  Unchanged(h, j, s)
<1> DEFINE P == {k \in 0..j : h[k] = s}
<1>1. Len(ms) \in Nat /\ j \in Nat
  BY LenProperties
<1>2. 0 \in P
  BY <1>1 DEF MergesAll
<1>3. ASSUME NEW k \in 1..j, k - 1 \in P PROVE k \in P
  <2>1. k \in 1..Len(ms) /\ k \in 0..j
    BY <1>1
  <2>2. h[k] = Apply(s, ms[k])
    BY <1>3, <2>1 DEF MergesAll
  <2>3. ms[k] \in D \X D \X D
    BY <2>1, ElementOfSeq
  <2>4. Apply(s, ms[k]) = s
    BY <2>3, ApplyNothing DEF NoneFits, NoneOf
  <2> QED BY <2>1, <2>2, <2>4
<1> HIDE DEF P
<1>4. \A k \in 0..j : k \in P
  BY <1>1, <1>2, <1>3, UpTo
<1>5. j \in P
  BY <1>1, <1>4
<1> QED BY <1>5 DEF P, Unchanged

\* So none does with the whole table.
LEMMA ApplyAllNothing ==
  ASSUME NEW D, NEW ms \in Seq(D \X D \X D), NEW s \in Seq(D), NoneOf(ms, Len(ms), s)
  PROVE  ApplyAll(s, ms) = s
<1>1. PICK h \in [0..Len(ms) -> Seq(D)] : MergesAll(h, s, ms)
  BY ApplyAllIs
<1>2. Len(ms) \in 0..Len(ms)
  BY LenProperties
<1>3. h[Len(ms)] = s
  BY <1>1, <1>2, MergesAllNothing DEF Unchanged
<1> QED BY <1>1, <1>3 DEF MergesAll

\* Merging the leftmost pair of the first merge that fits changes nothing of what all merges make of the whole,
\* when the new token is one that no merge up to there is of.
LEMMA ApplyAllMerged ==
  ASSUME NEW D, NEW ms \in Seq(D \X D \X D), NEW s \in Seq(D), NEW q \in 1..Len(ms), NEW k \in 1..Len(s)-1,
         Fits(s, ms[q], k), \A j \in 1..k-1 : ~Fits(s, ms[q], j), NoneOf(ms, q - 1, s),
         \A l \in 1..q : ms[q][3] \notin {ms[l][1], ms[l][2]}
  PROVE  ApplyAll(Merged(s, k, ms[q][3]), ms) = ApplyAll(s, ms)
<1> DEFINE n == Len(ms)
           r == ms[q][3]
<1>1. n \in Nat /\ q \in 1..n /\ q - 1 \in 0..n /\ \A l \in 1..n : ms[l] \in D \X D \X D
  BY LenProperties, ElementOfSeq
<1>2. r \in D /\ r # ms[q][2] /\ ms[q] \in D \X D \X D /\ \A l \in 1..q-1 : r \notin {ms[l][1], ms[l][2]}
  <2>1. ms[q] \in D \X D \X D
    BY <1>1
  <2>2. q \in 1..q /\ \A l \in 1..q-1 : l \in 1..q
    BY <1>1
  <2> QED BY <2>1, <2>2
<1> HIDE DEF r
<1> DEFINE t == Merged(s, k, r)
<1>3. t \in Seq(D) /\ IsMerged(t, s, k, r)
  <2> HIDE DEF n
  <2> QED BY <1>2, MergedIs
<1>4. Apply(t, ms[q]) = Apply(s, ms[q])
  <2> DEFINE m == ms[q]
  <2> HIDE DEF m
  <2>1. Fits(s, m, k) /\ (\A j \in 1..k-1 : ~Fits(s, m, j)) /\ m \in D \X D \X D /\ m[3] # m[2] /\ m[3] = r
    BY <1>2 DEF m, r
  <2> HIDE DEF n
  <2>2. Apply(Merged(s, k, m[3]), m) = Apply(s, m)
    BY <2>1, ApplyMerged
  <2> QED BY <2>1, <2>2 DEF m
<1> HIDE DEF t, n
<1>5. NoneOf(ms, q - 1, t)
  <2>1. Len(s) \in Nat
    BY LenProperties
  <2> QED BY <1>2, <1>3, <2>1, NoneFitsMerged DEF NoneOf
<1>6. PICK f \in [0..Len(ms) -> Seq(D)] : MergesAll(f, s, ms)
  BY ApplyAllIs
<1>7. PICK g \in [0..Len(ms) -> Seq(D)] : MergesAll(g, t, ms)
  BY <1>3, ApplyAllIs
<1>8. f[q-1] = s /\ g[q-1] = t
  <2>1. PICK p \in 0..Len(ms) : p = q - 1
    BY <1>1 DEF n
  <2>2. NoneOf(ms, p, s) /\ NoneOf(ms, p, t)
    BY <1>5, <2>1
  <2>3. f[p] = s
    BY <1>6, <2>2, MergesAllNothing DEF Unchanged
  <2>4. g[p] = t
    <3>1. PICK u \in Seq(D) : u = t
      BY <1>3
    <3>2. MergesAll(g, u, ms) /\ NoneOf(ms, p, u)
      BY <1>7, <2>2, <3>1
    <3>3. Unchanged(g, p, u)
      BY <3>2, MergesAllNothing
    <3> QED BY <3>1, <3>3 DEF Unchanged
  <2> QED BY <2>1, <2>3, <2>4
<1>9. \A j \in 1..n : f[j] = Apply(f[j-1], ms[j]) /\ g[j] = Apply(g[j-1], ms[j])
  BY <1>6, <1>7 DEF MergesAll, n
<1> DEFINE P == {i \in 0..n-q : f[q+i] = g[q+i]}
<1>10. 0 \in P
  <2>1. 0 \in 0..n-q /\ q + 0 = q
    BY <1>1
  <2>2. f[q] = Apply(s, ms[q]) /\ g[q] = Apply(t, ms[q])
    BY <1>1, <1>8, <1>9
  <2> QED BY <1>4, <2>1, <2>2
<1>11. ASSUME NEW i \in 1..n-q, i - 1 \in P PROVE i \in P
  <2>1. i \in 0..n-q /\ q + i \in 1..n /\ (q + i) - 1 = q + (i - 1)
    BY <1>1
  <2>2. f[q+i] = Apply(f[(q+i)-1], ms[q+i]) /\ g[q+i] = Apply(g[(q+i)-1], ms[q+i])
    BY <1>9, <2>1
  <2>3. f[q+(i-1)] = g[q+(i-1)]
    BY <1>11
  <2> QED BY <2>1, <2>2, <2>3
<1>12. n - q \in P
  <2>1. n - q \in Nat
    BY <1>1
  <2> HIDE DEF P
  <2>2. \A i \in 0..n-q : i \in P
    BY <1>10, <1>11, <2>1, UpTo
  <2> QED BY <2>1, <2>2
<1>13. f[n] = g[n]
  <2>1. q + (n - q) = n
    BY <1>1
  <2> QED BY <1>12, <2>1
<1> QED BY <1>6, <1>7, <1>13 DEF MergesAll, n, t, r

\* A merge of the table that fits the ids makes their pair one of Pairs, whose rank is no higher.
LEMMA FitsIsPair ==
  ASSUME Types, NEW k \in 1..Len(ids)-1, NEW l \in 1..Len(in.merges), Fits(ids, in.merges[l], k)
  PROVE  k \in Pairs /\ Rank(k) <= l
<1> DEFINE I == {j \in 1..Len(in.merges) : in.merges[j][1] = ids[k] /\ in.merges[j][2] = ids[k+1]}
           least == CHOOSE x \in I : \A y \in I : x <= y
<1>1. Rank(k) = IF I # {} THEN least ELSE 0
  BY DEF Rank, SelectInSeq, Min
<1>2. l \in I /\ I \in SUBSET Nat /\ \A j \in I : j > 0
  BY DEF Fits
<1> HIDE DEF I
<1>3. least \in I /\ \A y \in I : least <= y
  BY <1>2, LeastExists
<1> HIDE DEF least
<1>4. Rank(k) > 0 /\ Rank(k) <= l
  BY <1>1, <1>2, <1>3
<1> QED BY <1>4 DEF Pairs

\* The ids of a piece so far come to what its bytes come to, when every merge is applied in turn.
LearnInv ==
  phase = "merge" => ApplyAll(ids, in.merges) = ApplyAll(BytesAlone(Spell(ids)), in.merges)

\* A piece begins with the ids of its bytes.
LEMMA PieceLearns == ASSUME EncodeInv, Piece PROVE LearnInv'
<1> SUFFICES ASSUME phase' = "merge" PROVE (ids = BytesAlone(Spell(ids)))'
  BY DEF LearnInv
<1>1. Types /\ in' = in /\ rest \in Seq(Byte) /\ in.tokens \in Seq(Seq(Byte))
  BY TablesAre DEF EncodeInv, Types, Piece
<1>2. PICK n \in 1..Len(rest) :
        /\ \A k \in 1..n : ByteIds(SubSeq(rest, 1, n)[k]) # {}
        /\ ids' = [k \in 1..n |-> ByteId(SubSeq(rest, 1, n)[k])]
  BY DEF Piece
<1>3. PICK p : p = SubSeq(rest, 1, n)
  OBVIOUS
<1>4. p \in Seq(Byte) /\ Len(p) = n /\ n \in Nat
  <2>1. n \in 0..Len(rest) /\ n \in Nat
    BY <1>1, LenProperties
  <2> QED BY <1>1, <1>3, <2>1, PrefixOfIds
<1>5. ids' = [k \in 1..Len(p) |-> ByteId(p[k])]
  BY <1>2, <1>3, <1>4
<1>6. \A k \in 1..Len(p) : in.tokens[ids'[k]] = <<p[k]>>
  BY <1>1, <1>2, <1>3, <1>4, <1>5, ByteIdIs
<1>7. Spelling(in.tokens, ids') = p
  <2>1. ids' = [k \in 1..Len(p) |-> ids'[k]]
    BY <1>5
  <2> QED BY <1>1, <1>4, <1>6, <2>1, SpellingBytes
<1>8. Spell(ids)' = p
  BY <1>1, <1>7 DEF Spell, Spelling, Words
<1>9. DOMAIN p = 1..Len(p)
  BY <1>4, LenProperties
<1>10. BytesAlone(Spell(ids))' = [k \in DOMAIN p |-> ByteId(p[k])]
  BY <1>1, <1>8 DEF BytesAlone, ByteId, ByteIds, Ids
<1> QED BY <1>5, <1>9, <1>10

\* A table is in the order in which training made its merges.
InOrder == \A x \in Inputs : InLearningOrder(x)

\* Merging the best pair changes nothing of what the ids come to.
LEMMA MergeLearns == ASSUME InOrder, EncodeInv, LearnInv, Merge PROVE LearnInv'
<1>1. /\ Types /\ Pairs # {} /\ phase = "merge" /\ in' = in
      /\ ids' = Merged(ids, Best, in.merges[Rank(Best)][3])
      /\ ApplyAll(ids, in.merges) = ApplyAll(BytesAlone(Spell(ids)), in.merges)
  BY DEF EncodeInv, LearnInv, Merge, Merged
<1> DEFINE ms == in.merges
           tok == in.tokens
<1>2. PICK k : k = Best
  OBVIOUS
<1>3. PICK q : q = Rank(k)
  OBVIOUS
<1>4. /\ k \in Pairs /\ k \in 1..Len(ids)-1 /\ \A j \in Pairs : q < Rank(j) \/ (q = Rank(j) /\ k <= j)
  BY <1>1, <1>2, <1>3, BestIs DEF Pairs
<1>5. /\ ms \in Seq(Ids \X Ids \X Ids) /\ ids \in Seq(Ids) /\ DOMAIN ms = 1..Len(ms) /\ Len(ids) \in Nat
      /\ Ids = DOMAIN tok /\ tok \in Seq(Seq(Byte)) /\ Len(ms) \in Nat
  BY <1>1, TablesAre, LenProperties DEF Types, Ids
<1>6. q \in 1..Len(ms) /\ q \in Nat /\ Fits(ids, ms[q], k)
  BY <1>1, <1>3, <1>4, <1>5, RankIs DEF Fits
<1>7. \A j \in 1..k-1 : ~Fits(ids, ms[q], j)
  <2> SUFFICES ASSUME NEW j \in 1..k-1, Fits(ids, ms[q], j) PROVE FALSE
    OBVIOUS
  <2>1. j \in 1..Len(ids)-1 /\ j < k
    BY <1>4, <1>5
  <2>2. j \in Pairs /\ Rank(j) <= q
    BY <1>1, <1>6, <2>1, FitsIsPair
  <2>3. Rank(j) \in Nat /\ k \in Nat /\ j \in Nat
    BY <1>1, <1>4, <2>2, RankIs
  <2> QED BY <1>4, <1>6, <2>1, <2>2, <2>3
<1>8. NoneOf(ms, q - 1, ids)
  <2> SUFFICES ASSUME NEW l \in 1..q-1, NEW j \in 1..Len(ids)-1, Fits(ids, ms[l], j) PROVE FALSE
    BY DEF NoneFits, NoneOf
  <2>1. l \in 1..Len(ms) /\ l < q
    BY <1>5, <1>6
  <2>2. j \in Pairs /\ Rank(j) <= l
    BY <1>1, <2>1, FitsIsPair
  <2>3. Rank(j) \in Nat
    BY <1>1, <2>2, RankIs
  <2> QED BY <1>4, <1>6, <2>1, <2>2, <2>3
<1>9. \A l \in 1..q : ms[q][3] \notin {ms[l][1], ms[l][2]}
  <2>1. InLearningOrder(in)
    BY <1>1 DEF InOrder, Types
  <2> QED BY <1>5, <1>6, <2>1 DEF InLearningOrder
<1>10. ids' = Merged(ids, k, ms[q][3])
  BY <1>1, <1>2, <1>3
<1>11. ApplyAll(ids', ms) = ApplyAll(ids, ms)
  <2> HIDE DEF ms
  <2>1. ApplyAll(Merged(ids, k, ms[q][3]), ms) = ApplyAll(ids, ms)
    BY <1>4, <1>5, <1>6, <1>7, <1>8, <1>9, ApplyAllMerged
  <2> QED BY <1>10, <2>1
<1>12. Spelling(tok, ids') = Spelling(tok, ids)
  <2> DEFINE r == ms[q][3]
  <2>1. r \in Ids /\ tok[r] = tok[ids[k]] \o tok[ids[k+1]]
    <3>1. ms[q] \in Ids \X Ids \X Ids
      BY <1>5, <1>6, ElementOfSeq
    <3>2. tok[ms[q][3]] = tok[ms[q][1]] \o tok[ms[q][2]]
      BY <1>1, <1>5, <1>6, TablesAre DEF MergesSpell
    <3> QED BY <1>6, <3>1, <3>2 DEF Fits
  <2> HIDE DEF r, tok, ms
  <2>2. r \in DOMAIN tok /\ ids \in Seq(DOMAIN tok)
    BY <1>5, <2>1
  <2>3. Spelling(tok, RemoveAt([ids EXCEPT ![k] = r], k + 1)) = Spelling(tok, ids)
    BY <1>4, <1>5, <2>1, <2>2, SpellingMerged
  <2> QED BY <1>10, <2>3 DEF Merged, r
<1>13. BytesAlone(Spell(ids))' = BytesAlone(Spell(ids))
  <2>1. Spell(ids)' = Spell(ids)
    BY <1>1, <1>12 DEF Spell, Spelling, Words
  <2> QED BY <1>1, <2>1 DEF BytesAlone, ByteId, ByteIds, Ids
<1> QED BY <1>1, <1>11, <1>13 DEF LearnInv

\* So every step keeps the invariant,
LEMMA LearnNext == ASSUME InOrder, EncodeInv, LearnInv, [Next]_vars PROVE LearnInv'
<1>1. CASE Hit \/ Miss \/ End \/ Flushed \/ Emit
  <2>1. phase' # "merge"
    BY <1>1 DEF Hit, Miss, End, Flush, Scanning, Flushed, Emit
  <2> QED BY <2>1 DEF LearnInv
<1>2. CASE Done \/ UNCHANGED vars
  <2>1. in' = in /\ ids' = ids /\ phase' = phase
    BY <1>2 DEF Done, vars
  <2>2. Spell(ids)' = Spell(ids)
    BY <2>1 DEF Spell
  <2>3. BytesAlone(Spell(ids))' = BytesAlone(Spell(ids))
    BY <2>1, <2>2 DEF BytesAlone, ByteId, ByteIds, Ids
  <2> QED BY <2>1, <2>3 DEF LearnInv
<1> QED BY <1>1, <1>2, PieceLearns, MergeLearns DEF Next

\* and where no pair is left, every merge applied in turn changes nothing.
LEMMA LearnSafe == ASSUME EncodeInv, LearnInv PROVE MergesAsLearned
<1> SUFFICES ASSUME phase = "merge", Pairs = {} PROVE ids = ApplyAll(BytesAlone(Spell(ids)), in.merges)
  BY DEF MergesAsLearned
<1>1. Types /\ ids \in Seq(Ids) /\ in.merges \in Seq(Ids \X Ids \X Ids)
  BY TablesAre DEF EncodeInv, Types
<1>2. NoneOf(in.merges, Len(in.merges), ids)
  BY <1>1, FitsIsPair DEF NoneFits, NoneOf
<1>3. ApplyAll(ids, in.merges) = ids
  BY <1>1, <1>2, ApplyAllNothing
<1> QED BY <1>3 DEF LearnInv

-----------------------------------------------------------------------------
(* Theorems                                                                *)

\* Decoding what encode returns gives the text back, for every table whose merges spell their pairs,
\* every text and every way to cut it into pieces: special tokens, missing bytes and merges included.
THEOREM EncodingsDecode == Spec => []RoundTrip
<1>1. Spec => []EncodeInv
  BY EncodeInvInit, EncodeInvNext, PTL DEF Spec
<1>2. EncodeInv => RoundTrip
  BY DEF EncodeInv, Read, RoundTrip
<1> QED BY <1>1, <1>2, PTL

\* SpecialsWin for every table, text and cut into pieces: nothing that is encoded as ordinary text holds the start
\* of a special token, and of those that begin at one place the longest wins, one inside another included.
THEOREM SpecialsAlwaysWin == Spec => []SpecialsWin
<1>1. EncodeInv /\ WinInv /\ [Next]_vars => (EncodeInv /\ WinInv)'
  BY EncodeInvNext, WinNext
<1>2. Spec => [](EncodeInv /\ WinInv)
  BY <1>1, EncodeInvInit, WinInit, PTL DEF Spec
<1> QED BY <1>2, WinSafe, PTL

\* Merging the leftmost pair of lowest rank, one pair at a time, ends where training's merges end, each applied
\* everywhere in the order it was learned, for every text and every table in which that order shows: the result
\* of a merge is a new token, of which no earlier merge is.
THEOREM MergesAlwaysAsLearned == ASSUME InOrder PROVE Spec => []MergesAsLearned
<1>1. Init => LearnInv
  BY DEF Init, LearnInv
<1>2. EncodeInv /\ LearnInv /\ [Next]_vars => (EncodeInv /\ LearnInv)'
  BY EncodeInvNext, LearnNext
<1>3. Spec => [](EncodeInv /\ LearnInv)
  BY <1>1, <1>2, EncodeInvInit, PTL DEF Spec
<1> QED BY <1>3, LearnSafe, PTL
=============================================================================
