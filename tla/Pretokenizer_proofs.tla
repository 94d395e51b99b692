------------------------- MODULE Pretokenizer_proofs -------------------------
(***************************************************************************)
(* What is proved of the pre-tokenizer for every text, malformed UTF-8     *)
(* included: no byte is lost, and each cut of gpt2_split is the match of   *)
(* its regular expression.  decode_utf8 is followed by its least           *)
(* counterexample, the end of a stretch first.                             *)
(***************************************************************************)
EXTENDS Pretokenizer, SequenceTheorems, WellFoundedInduction, TLAPS

\* A set of natural numbers has a least one.
LEMMA LeastExists ==
  ASSUME NEW S \in SUBSET Nat, S # {}
  PROVE  \E m \in S : \A n \in S : m <= n
<1> DEFINE R == OpToRel(<, Nat)
<1>1. \A m, n \in Nat : m < n => <<m, n>> \in R
  BY DEF OpToRel
<1>2. IsWellFoundedOn(R, Nat)
  BY NatLessThanWellFounded
<1> HIDE DEF R
<1>3. PICK m \in S : \A n \in S : <<n, m>> \notin R
  BY <1>2, WFMin
<1>4. \A n \in S : ~(n < m)
  BY <1>1, <1>3
<1> QED BY <1>4

-----------------------------------------------------------------------------
(* Concatenation                                                           *)

\* f[k] is the concatenation of the first k sequences of s.
Concatenates(f, s) == f = [k \in 1..Len(s) |-> IF k = 1 THEN s[k] ELSE f[k-1] \o s[k]]

\* The recursive function that FlattenSeq is defined by exists: a shortest prefix without one cannot be.
LEMMA ConcatenationExists ==
  ASSUME NEW B, NEW s \in Seq(B)
  PROVE  \E f : Concatenates(f, s)
<1> DEFINE Upto(n, f) == f = [k \in 1..n |-> IF k = 1 THEN s[k] ELSE f[k-1] \o s[k]]
           Bad == {n \in 0..Len(s) : ~\E f : Upto(n, f)}
<1>1. SUFFICES Bad = {}
  <2>1. Len(s) \in 0..Len(s)
    OBVIOUS
  <2>2. \E f : Upto(Len(s), f)
    BY <1>1, <2>1
  <2> QED BY <2>2 DEF Concatenates
<1>2. SUFFICES ASSUME Bad # {} PROVE FALSE
  OBVIOUS
<1>3. PICK n \in Bad : \A m \in Bad : n <= m
  <2>1. Bad \in SUBSET Nat
    <3> HIDE DEF Upto
    <3> QED OBVIOUS
  <2> HIDE DEF Bad
  <2> QED BY <1>2, <2>1, LeastExists
<1>4. n # 0
  <2>1. Upto(0, [k \in 1..0 |-> k])
    OBVIOUS
  <2> QED BY <2>1
<1>5. n \in 0..Len(s)
  OBVIOUS
<1>6. PICK f : Upto(n - 1, f)
  <2>1. n - 1 \in 0..Len(s) /\ ~(n <= n - 1)
    BY <1>4, <1>5
  <2>2. n - 1 \notin Bad
    <3> HIDE DEF Bad
    <3> QED BY <1>3, <2>1
  <2> HIDE DEF Upto
  <2> QED BY <2>1, <2>2
<1> DEFINE g == [k \in 1..n |-> IF k = n THEN (IF n = 1 THEN s[n] ELSE f[n-1] \o s[n]) ELSE f[k]]
<1>7. Upto(n, g)
  <2>1. ASSUME NEW k \in 1..n
        PROVE  g[k] = IF k = 1 THEN s[k] ELSE g[k-1] \o s[k]
    <3>1. CASE k = n
      BY <3>1
    <3>2. CASE k < n
      <4>1. k \in 1..n-1 /\ (k # 1 => k - 1 \in 1..n-1)
        BY <3>2
      <4>2. f[k] = IF k = 1 THEN s[k] ELSE f[k-1] \o s[k]
        BY <1>6, <4>1
      <4>3. g[k] = f[k] /\ (k # 1 => g[k-1] = f[k-1])
        BY <3>2
      <4> QED BY <4>2, <4>3
    <3> QED BY <3>1, <3>2
  <2> HIDE DEF g
  <2>2. g = [k \in 1..n |-> g[k]]
    BY DEF g
  <2> QED BY <2>1, <2>2
<1> QED BY <1>3, <1>7

\* Hence FlattenSeq is the last of it.
LEMMA FlattenIsLast ==
  ASSUME NEW B, NEW s \in Seq(B), s # <<>>
  PROVE  \E f : Concatenates(f, s) /\ FlattenSeq(s) = f[Len(s)]
<1> DEFINE F == CHOOSE f : f = [k \in 1..Len(s) |-> IF k = 1 THEN s[k] ELSE f[k-1] \o s[k]]
<1>1. Concatenates(F, s)
  BY ConcatenationExists DEF Concatenates
<1>2. FlattenSeq(s) = F[Len(s)]
  BY DEF FlattenSeq
<1> QED BY <1>1, <1>2

\* The concatenation of no sequences.
LEMMA FlattenNone == FlattenSeq(<<>>) = <<>>
  BY DEF FlattenSeq

\* One function of the kind agrees with another as far as the sequences do.
LEMMA ConcatenationsAgree ==
  ASSUME NEW B, NEW s \in Seq(B), NEW x \in B,
         NEW f, Concatenates(f, s), NEW g, Concatenates(g, Append(s, x))
  PROVE  \A k \in 1..Len(s) : f[k] = g[k]
<1> DEFINE t == Append(s, x)
           Bad == {k \in 1..Len(s) : f[k] # g[k]}
<1>1. SUFFICES ASSUME Bad # {} PROVE FALSE
  OBVIOUS
<1>2. PICK k \in Bad : \A m \in Bad : k <= m
  <2>1. Bad \in SUBSET Nat
    OBVIOUS
  <2> HIDE DEF Bad
  <2> QED BY <1>1, <2>1, LeastExists
<1>3. k \in 1..Len(s) /\ f[k] # g[k]
  OBVIOUS
<1>4. k \in 1..Len(t) /\ t[k] = s[k] /\ Len(t) \in Nat
  BY <1>3
<1>5. f[k] = (IF k = 1 THEN s[k] ELSE f[k-1] \o s[k])
  BY <1>3 DEF Concatenates
<1> HIDE DEF t
<1>6. g[k] = (IF k = 1 THEN t[k] ELSE g[k-1] \o t[k])
  BY <1>4 DEF Concatenates, t
<1>7. k # 1
  BY <1>3, <1>4, <1>5, <1>6
<1>8. k - 1 \in 1..Len(s) /\ ~(k <= k - 1)
  BY <1>3, <1>7
<1>9. k - 1 \notin Bad
  <2> HIDE DEF Bad
  <2> QED BY <1>2, <1>8
<1>10. f[k-1] = g[k-1]
  BY <1>8, <1>9
<1> QED BY <1>3, <1>4, <1>5, <1>6, <1>7, <1>10

\* A sequence more is its elements more at the end.
LEMMA FlattenAppend ==
  ASSUME NEW C, NEW s \in Seq(Seq(C)), NEW x \in Seq(C)
  PROVE  FlattenSeq(Append(s, x)) = FlattenSeq(s) \o x
<1> DEFINE t == Append(s, x)
           B == Seq(C)
<1>1. t \in Seq(B) /\ t # <<>> /\ Len(t) = Len(s) + 1 /\ Len(t) \in 1..Len(t) /\ t[Len(t)] = x
  <2> HIDE DEF B
  <2>1. s \in Seq(B) /\ x \in B
    BY DEF B
  <2>2. t \in Seq(B) /\ Len(t) = Len(s) + 1 /\ t[Len(t)] = x /\ Len(s) \in Nat
    BY <2>1
  <2> HIDE DEF t
  <2>3. Len(t) # 0
    BY <2>2
  <2> QED BY <2>2, <2>3
<1>2. PICK g : Concatenates(g, t) /\ FlattenSeq(t) = g[Len(t)]
  <2> HIDE DEF t
  <2> QED BY <1>1, FlattenIsLast
<1> HIDE DEF t
<1>3. g[Len(t)] = (IF Len(t) = 1 THEN t[Len(t)] ELSE g[Len(t) - 1] \o t[Len(t)])
  BY <1>1, <1>2 DEF Concatenates
<1>4. CASE s = <<>>
  <2>0. <<>> \o x = x
    OBVIOUS
  <2>1. FlattenSeq(s) = <<>>
    BY <1>4, FlattenNone
  <2> QED BY <2>0, <1>1, <1>2, <1>3, <1>4, <2>1 DEF t
<1>5. CASE s # <<>>
  <2>1. PICK f : Concatenates(f, s) /\ FlattenSeq(s) = f[Len(s)]
    BY <1>5, FlattenIsLast
  <2>2. Len(s) \in 1..Len(s)
    BY <1>5
  <2>3. f[Len(s)] = g[Len(s)]
    <3>1. Concatenates(f, s) /\ Concatenates(g, Append(s, x))
      BY <1>2, <2>1 DEF t
    <3>2. \A k \in 1..Len(s) : f[k] = g[k]
      BY <3>1, ConcatenationsAgree
    <3> QED BY <2>2, <3>2
  <2> QED BY <1>1, <1>2, <1>3, <2>1, <2>2, <2>3 DEF t
<1> QED BY <1>4, <1>5

-----------------------------------------------------------------------------
(* Decoding                                                                *)

\* The code points that a stretch can have, and the one at offset k.
Points(s) == {[cp |-> CodePoint(s, k, n), off |-> k, len |-> n] : k \in 1..Len(s), n \in 1..4}
Entry(s, k) == [cp |-> CodePoint(s, k, Length(s, k)), off |-> k, len |-> Length(s, k)]
\* from[k] decodes s from offset k on, for the offsets from m on.
DecodesFrom(from, s, m) ==
  from = [k \in m..Len(s)+1 |-> IF k > Len(s) THEN <<>> ELSE <<Entry(s, k)>> \o from[k + Length(s, k)]]

\* The offset and the length of a decoded character.
LEMMA PointsAreNumbers ==
  ASSUME NEW s \in Seq(Byte), NEW p \in Points(s)
  PROVE  p.off \in Nat /\ p.len \in Nat
<1>1. PICK k \in 1..Len(s) : \E n \in 1..4 : p = [cp |-> CodePoint(s, k, n), off |-> k, len |-> n]
  BY DEF Points
<1>2. PICK n \in 1..4 : p = [cp |-> CodePoint(s, k, n), off |-> k, len |-> n]
  BY <1>1
<1>3. p.off = k /\ p.len = n
  BY <1>2
<1>4. k \in Nat /\ n \in Nat
  OBVIOUS
<1> QED BY <1>3, <1>4

\* A code point has at least one byte and does not reach beyond the stretch.
LEMMA LengthFits ==
  ASSUME NEW s \in Seq(Byte), NEW k \in 1..Len(s)
  PROVE  Length(s, k) \in 1..4 /\ k + Length(s, k) \in k+1..Len(s)+1
<1> DEFINE b == s[k]
<1>1. b \in Byte
  OBVIOUS
<1> HIDE DEF b
<1>2. Announced(b) \in 1..4
  <2>1. CASE b \div 32 = 6
    <3>1. b \div 16 # 14 /\ b \div 8 # 30
      BY <1>1, <2>1 DEF Byte
    <3> QED BY <2>1, <3>1 DEF Announced
  <2>2. CASE b \div 16 = 14
    <3>1. b \div 32 # 6 /\ b \div 8 # 30
      BY <1>1, <2>2 DEF Byte
    <3> QED BY <2>2, <3>1 DEF Announced
  <2>3. CASE b \div 8 = 30
    <3>1. b \div 32 # 6 /\ b \div 16 # 14
      BY <1>1, <2>3 DEF Byte
    <3> QED BY <2>3, <3>1 DEF Announced
  <2>4. CASE b \div 32 # 6 /\ b \div 16 # 14 /\ b \div 8 # 30
    BY <2>4 DEF Announced
  <2> QED BY <2>1, <2>2, <2>3, <2>4
<1>3. Length(s, k) = IF k + Announced(b) - 1 <= Len(s) THEN Announced(b) ELSE 1
  BY DEF Length, b
<1>4. k \in Nat /\ Len(s) \in Nat /\ k <= Len(s)
  OBVIOUS
<1> QED BY <1>2, <1>3, <1>4

\* The recursive function that Decode is defined by exists, by induction from the end of the stretch.
LEMMA DecodeExists ==
  ASSUME NEW s \in Seq(Byte)
  PROVE  \E from : DecodesFrom(from, s, 1)
<1> DEFINE Bad == {d \in 0..Len(s) : ~\E from : DecodesFrom(from, s, Len(s) + 1 - d)}
<1>0. Len(s) \in Nat
  OBVIOUS
<1>1. SUFFICES Bad = {}
  <2>1. Len(s) \in 0..Len(s) /\ Len(s) + 1 - Len(s) = 1
    BY <1>0
  <2>2. \E from : DecodesFrom(from, s, Len(s) + 1 - Len(s))
    BY <1>1, <2>1
  <2> QED BY <2>1, <2>2
<1>2. SUFFICES ASSUME Bad # {} PROVE FALSE
  OBVIOUS
<1>3. PICK d \in Bad : \A e \in Bad : d <= e
  <2>1. Bad \in SUBSET Nat
    BY <1>0
  <2> HIDE DEF Bad
  <2> QED BY <1>2, <2>1, LeastExists
<1> DEFINE m == Len(s) + 1 - d
<1>4. d \in 0..Len(s) /\ ~\E from : DecodesFrom(from, s, m)
  OBVIOUS
<1>5. m \in 1..Len(s)+1
  BY <1>0, <1>4
<1>6. d # 0
  <2>1. SUFFICES ASSUME d = 0 PROVE DecodesFrom([k \in {Len(s) + 1} |-> <<>>], s, m)
    BY <1>4
  <2>2. m..Len(s)+1 = {Len(s) + 1}
    BY <1>0, <2>1
  <2>3. Len(s) + 1 > Len(s)
    BY <1>0
  <2> HIDE DEF m
  <2> QED BY <2>2, <2>3 DEF DecodesFrom
<1>7. PICK f : DecodesFrom(f, s, m + 1)
  <2>1. d - 1 \in 0..Len(s) /\ ~(d <= d - 1) /\ Len(s) + 1 - (d - 1) = m + 1
    BY <1>0, <1>4, <1>6
  <2>2. d - 1 \notin Bad
    <3> HIDE DEF Bad
    <3> QED BY <1>3, <2>1
  <2> QED BY <2>1, <2>2
<1>8. m \in 1..Len(s)
  BY <1>0, <1>4, <1>6
<1> DEFINE g == [k \in m..Len(s)+1 |-> IF k = m THEN <<Entry(s, m)>> \o f[m + Length(s, m)] ELSE f[k]]
<1> HIDE DEF m
<1>9. DecodesFrom(g, s, m)
  <2>1. ASSUME NEW k \in m..Len(s)+1
        PROVE  g[k] = IF k > Len(s) THEN <<>> ELSE <<Entry(s, k)>> \o g[k + Length(s, k)]
    <3>1. CASE k = m
      <4>1. m + Length(s, m) \in m+1..Len(s)+1
        BY <1>8, LengthFits
      <4>2. m + Length(s, m) # m /\ m + Length(s, m) \in m..Len(s)+1
        BY <1>0, <1>8, <4>1
      <4>3. g[m + Length(s, m)] = f[m + Length(s, m)] /\ g[k] = <<Entry(s, m)>> \o f[m + Length(s, m)]
        BY <3>1, <4>2
      <4>4. ~(m > Len(s))
        BY <1>0, <1>8
      <4> QED BY <3>1, <4>3, <4>4
    <3>2. CASE k # m
      <4>1. k \in m+1..Len(s)+1
        BY <1>0, <1>8, <3>2
      <4>2. g[k] = f[k]
        BY <3>2
      <4>3. f[k] = IF k > Len(s) THEN <<>> ELSE <<Entry(s, k)>> \o f[k + Length(s, k)]
        BY <1>7, <4>1 DEF DecodesFrom
      <4>4. CASE k > Len(s)
        BY <4>2, <4>3, <4>4
      <4>5. CASE ~(k > Len(s))
        <5>1. k \in 1..Len(s)
          BY <1>0, <1>8, <4>1, <4>5
        <5>2. k + Length(s, k) \in k+1..Len(s)+1
          BY <5>1, LengthFits
        <5>3. k + Length(s, k) # m /\ k + Length(s, k) \in m..Len(s)+1
          BY <1>0, <1>8, <4>1, <5>1, <5>2
        <5>4. g[k + Length(s, k)] = f[k + Length(s, k)]
          BY <5>3
        <5> QED BY <4>2, <4>3, <4>5, <5>4
      <4> QED BY <4>4, <4>5
    <3> QED BY <3>1, <3>2
  <2>2. g = [k \in m..Len(s)+1 |-> g[k]]
    OBVIOUS
  <2> HIDE DEF g
  <2> QED BY <2>1, <2>2 DEF DecodesFrom
<1> QED BY <1>4, <1>9 DEF m

\* Where the j-th code point of c begins, the end of the stretch after the last.
Begins(c, j, s) == IF j <= Len(c) THEN c[j].off ELSE Len(s) + 1
\* The code points of c follow one another from offset k to the end of the stretch.
Covers(c, k, s) ==
  /\ c \in Seq(Points(s))
  /\ Begins(c, 1, s) = k
  /\ \A j \in 1..Len(c) : c[j].off + c[j].len = Begins(c, j + 1, s)
  /\ \A j \in 1..Len(c)+1 : Begins(c, j, s) \in k..Len(s)+1
  /\ \A j, l \in 1..Len(c)+1 : j < l => Begins(c, j, s) < Begins(c, l, s)

\* At the end of a stretch nothing is left to decode.
LEMMA CoversNone ==
  ASSUME NEW s \in Seq(Byte)
  PROVE  Covers(<<>>, Len(s) + 1, s)
<1>1. Len(s) \in Nat /\ Len(<<>>) = 0 /\ <<>> \in Seq(Points(s))
  OBVIOUS
<1>2. \A j \in 1..1 : Begins(<<>>, j, s) = Len(s) + 1
  BY <1>1 DEF Begins
<1> QED BY <1>1, <1>2 DEF Covers

\* The step of DecodeCovers: the character at k, before those after it.
LEMMA CoversMore ==
  ASSUME NEW s \in Seq(Byte), NEW k \in 1..Len(s), NEW c, Covers(c, k + Length(s, k), s)
  PROVE  Covers(<<Entry(s, k)>> \o c, k, s)
<1> DEFINE e == Entry(s, k)
           n == Length(s, k)
           d == <<e>> \o c
           P == Points(s)
<1>1. n \in 1..4 /\ k + n \in k+1..Len(s)+1
  BY LengthFits
<1>2. e \in P /\ e.off = k /\ e.len = n
  BY <1>1 DEF Entry, Points
<1>3. c \in Seq(P)
  BY DEF Covers
<1>4. Len(s) \in Nat
  OBVIOUS
<1> HIDE DEF n, e, P
<1>5. /\ d \in Seq(P) /\ Len(d) = Len(c) + 1 /\ d[1] = e /\ Len(c) \in Nat
      /\ \A j \in 1..Len(c) : d[j + 1] = c[j]
  BY <1>2, <1>3
<1> HIDE DEF d
<1>6. Begins(d, 1, s) = k
  BY <1>2, <1>5 DEF Begins
<1>7. \A j \in 1..Len(c)+1 : Begins(d, j + 1, s) = Begins(c, j, s)
  <2> SUFFICES ASSUME NEW j \in 1..Len(c)+1 PROVE Begins(d, j + 1, s) = Begins(c, j, s)
    OBVIOUS
  <2>1. j <= Len(c) <=> j + 1 <= Len(d)
    BY <1>5
  <2>2. j <= Len(c) => j \in 1..Len(c)
    BY <1>5
  <2> QED BY <1>5, <2>1, <2>2 DEF Begins
<1>8. /\ Begins(c, 1, s) = k + n
      /\ \A j \in 1..Len(c) : c[j].off + c[j].len = Begins(c, j + 1, s)
      /\ \A j \in 1..Len(c)+1 : Begins(c, j, s) \in k+n..Len(s)+1
      /\ \A j, l \in 1..Len(c)+1 : j < l => Begins(c, j, s) < Begins(c, l, s)
  BY DEF Covers, n
<1>9. ASSUME NEW j \in 1..Len(d) PROVE d[j].off + d[j].len = Begins(d, j + 1, s)
  <2>1. CASE j = 1
    <3>1. 1 \in 1..Len(c)+1
      BY <1>5
    <3>2. Begins(d, 1 + 1, s) = k + n
      BY <1>7, <1>8, <3>1
    <3> QED BY <1>2, <1>5, <2>1, <3>2
  <2>2. CASE j # 1
    <3>1. j - 1 \in 1..Len(c) /\ (j - 1) + 1 = j /\ j \in 1..Len(c)+1
      BY <1>5, <2>2
    <3>2. d[j] = c[j-1]
      BY <1>5, <3>1
    <3>3. Begins(d, j + 1, s) = Begins(c, j, s)
      BY <1>7, <3>1
    <3>4. c[j-1].off + c[j-1].len = Begins(c, j, s)
      BY <1>8, <3>1
    <3> QED BY <3>2, <3>3, <3>4
  <2> QED BY <2>1, <2>2
<1>10. ASSUME NEW j \in 1..Len(d)+1, j # 1
       PROVE  j - 1 \in 1..Len(c)+1 /\ Begins(d, j, s) = Begins(c, j - 1, s)
  <2>1. j - 1 \in 1..Len(c)+1 /\ (j - 1) + 1 = j
    BY <1>5, <1>10
  <2>2. Begins(d, (j - 1) + 1, s) = Begins(c, j - 1, s)
    BY <1>7, <2>1
  <2> QED BY <2>1, <2>2
<1>11. ASSUME NEW j \in 1..Len(d)+1 PROVE Begins(d, j, s) \in k..Len(s)+1 /\ (j # 1 => Begins(d, j, s) > k)
  <2>1. CASE j = 1
    BY <1>4, <1>6, <2>1
  <2>2. CASE j # 1
    <3>1. Begins(d, j, s) \in k+n..Len(s)+1
      BY <1>8, <1>10, <2>2
    <3> QED BY <1>1, <1>4, <3>1
  <2> QED BY <2>1, <2>2
<1>12. ASSUME NEW j \in 1..Len(d)+1, NEW l \in 1..Len(d)+1, j < l PROVE Begins(d, j, s) < Begins(d, l, s)
  <2>1. l # 1
    BY <1>12
  <2>2. CASE j = 1
    BY <1>4, <1>6, <1>11, <2>1, <2>2
  <2>3. CASE j # 1
    <3>1. j - 1 < l - 1
      BY <1>12
    <3> QED BY <1>8, <1>10, <2>1, <2>3, <3>1
  <2> QED BY <2>2, <2>3
<1> QED BY <1>5, <1>6, <1>9, <1>11, <1>12 DEF Covers, d, e, P

\* What Decode gives covers the whole stretch.
LEMMA DecodeCovers ==
  ASSUME NEW s \in Seq(Byte)
  PROVE  Covers(Decode(s), 1, s)
<1> DEFINE from == CHOOSE f : f = [k \in 1..Len(s)+1 |->
                     IF k > Len(s) THEN <<>>
                     ELSE LET n == Length(s, k)
                          IN  <<[cp |-> CodePoint(s, k, n), off |-> k, len |-> n]>> \o f[k + n]]
<1>0. Len(s) \in Nat
  OBVIOUS
<1>1. Decode(s) = from[1]
  BY DEF Decode
<1>2. DecodesFrom(from, s, 1)
  BY DecodeExists DEF DecodesFrom, Entry
<1> HIDE DEF from
<1> DEFINE Bad == {d \in 0..Len(s) : ~Covers(from[Len(s) + 1 - d], Len(s) + 1 - d, s)}
<1>3. SUFFICES Bad = {}
  <2>1. Len(s) \in 0..Len(s) /\ Len(s) + 1 - Len(s) = 1
    BY <1>0
  <2>2. Covers(from[Len(s) + 1 - Len(s)], Len(s) + 1 - Len(s), s)
    BY <1>3, <2>1
  <2> QED BY <1>1, <2>1, <2>2
<1>4. SUFFICES ASSUME Bad # {} PROVE FALSE
  OBVIOUS
<1>5. PICK d \in Bad : \A e \in Bad : d <= e
  <2>1. Bad \in SUBSET Nat
    BY <1>0
  <2> HIDE DEF Bad
  <2> QED BY <1>4, <2>1, LeastExists
<1> DEFINE k == Len(s) + 1 - d
<1>6. d \in 0..Len(s) /\ ~Covers(from[k], k, s)
  OBVIOUS
<1>7. k \in 1..Len(s)+1
  BY <1>0, <1>6
<1> HIDE DEF k
<1>8. from[k] = IF k > Len(s) THEN <<>> ELSE <<Entry(s, k)>> \o from[k + Length(s, k)]
  BY <1>2, <1>7 DEF DecodesFrom
<1>9. CASE k > Len(s)
  <2>1. k = Len(s) + 1
    BY <1>0, <1>7, <1>9
  <2> QED BY <1>6, <1>8, <1>9, <2>1, CoversNone
<1>10. CASE ~(k > Len(s))
  <2>1. k \in 1..Len(s)
    BY <1>0, <1>7, <1>10
  <2> DEFINE r == k + Length(s, k)
             e == Len(s) + 1 - r
  <2>2. r \in k+1..Len(s)+1
    BY <2>1, LengthFits
  <2>3. e \in 0..Len(s) /\ ~(d <= e) /\ Len(s) + 1 - e = r
    <3> HIDE DEF r
    <3> QED BY <1>0, <1>6, <2>1, <2>2 DEF k
  <2>4. e \notin Bad
    <3> HIDE DEF Bad, e
    <3> QED BY <1>5, <2>3
  <2>5. Covers(from[r], r, s)
    <3> HIDE DEF r
    <3> QED BY <2>3, <2>4
  <2>6. Covers(<<Entry(s, k)>> \o from[r], k, s)
    BY <2>1, <2>5, CoversMore
  <2> QED BY <1>6, <1>8, <1>10, <2>6
<1> QED BY <1>9, <1>10

-----------------------------------------------------------------------------
(* The invariant                                                           *)

Types ==
  /\ text \in Seq(Byte) /\ at \in 0..Len(text) /\ cur \in Seq(Byte)
  /\ out \in Seq(Seq(Byte)) /\ FlattenSeq(out) \in Seq(Byte)
  /\ phase \in {"gather", "split", "done"}
\* The code points being split follow one another through the whole stretch.
Decoded == phase = "split" => Covers(cps, 1, cur) /\ i \in 1..Len(cps)+1
\* What is not in a piece yet of the text that has been read.
Held == IF phase = "split" THEN SubSeq(cur, Begins(cps, i, cur), Len(cur)) ELSE cur
SplitInv == Types /\ Decoded /\ FlattenSeq(out) \o Held = SubSeq(text, 1, at)

\* Before the first step the whole text is still to be cut.
LEMMA SplitInvInit == Init => SplitInv
<1> SUFFICES ASSUME Init PROVE SplitInv
  OBVIOUS
<1> USE DEF Init
<1>1. text \in Seq(Byte) /\ Len(text) \in Nat
  BY TextsAreBytes
<1>2. FlattenSeq(out) = <<>>
  BY FlattenNone
<1>3. out \in Seq(Seq(Byte)) /\ <<>> \in Seq(Byte)
  OBVIOUS
<1>4. SubSeq(text, 1, 0) = <<>>
  BY SubSeqEmpty
<1>5. <<>> \o <<>> = <<>>
  BY ConcatEmptySeq
<1>6. Types
  <2>1. FlattenSeq(out) \in Seq(Byte)
    BY <1>2, <1>3
  <2>2. cur \in Seq(Byte)
    BY <1>3
  <2>3. at \in 0..Len(text) /\ phase \in {"gather", "split", "done"}
    BY <1>1
  <2> QED BY <1>1, <1>3, <2>1, <2>2, <2>3 DEF Types
<1>7. FlattenSeq(out) \o Held = SubSeq(text, 1, at)
  BY <1>2, <1>4, <1>5 DEF Held
<1> QED BY <1>6, <1>7 DEF SplitInv, Decoded

\* The outer loop reads one byte more.
LEMMA ReadMore ==
  ASSUME Types, at < Len(text)
  PROVE  /\ text[at+1] \in Byte /\ at + 1 \in 0..Len(text)
         /\ SubSeq(text, 1, at + 1) = SubSeq(text, 1, at) \o <<text[at+1]>>
<1>1. at + 1 \in 1..Len(text) /\ (at + 1) - 1 = at
  BY DEF Types
<1>2. SubSeq(text, 1, at + 1) = SubSeq(text, 1, (at + 1) - 1) \o <<text[at+1]>>
  <2>1. at + 1 \in 1..Len(text) /\ 1 \in 1..Len(text)
    BY <1>1 DEF Types
  <2> QED BY <2>1, SubSeqRecursiveSecond DEF Types
<1> QED BY <1>1, <1>2 DEF Types

\* A byte that goes to the stretch in cur is taken from the text.
LEMMA GatherKeeps == SplitInv /\ Gather => SplitInv'
<1> SUFFICES ASSUME SplitInv, Gather PROVE SplitInv'
  OBVIOUS
<1> USE DEF Gather
<1> DEFINE b == text[at+1]
<1>1. Types
  BY DEF SplitInv
<1>2. b \in Byte /\ at' \in 0..Len(text) /\ SubSeq(text, 1, at') = SubSeq(text, 1, at) \o <<b>>
  BY <1>1, ReadMore
<1>3. cur' \in Seq(Byte) /\ cur' = cur \o <<b>>
  BY <1>1, <1>2, AppendProperties, AppendIsConcat DEF Types
<1>4. FlattenSeq(out) \o cur = SubSeq(text, 1, at)
  BY DEF SplitInv, Held
<1>5. (FlattenSeq(out) \o cur) \o <<b>> = FlattenSeq(out) \o (cur \o <<b>>)
  <2>1. <<b>> \in Seq(Byte)
    BY <1>2
  <2> QED BY <1>1, <2>1, ConcatAssociative, SMTT(40) DEF Types
<1>6. (FlattenSeq(out) \o Held)' = SubSeq(text, 1, at)'
  <2>1. FlattenSeq(out)' = FlattenSeq(out) /\ Held' = cur'
    BY DEF Held
  <2> QED BY <1>2, <1>3, <1>4, <1>5, <2>1
<1>7. Types' /\ Decoded'
  BY <1>1, <1>2, <1>3 DEF Types, Decoded
<1> QED BY <1>6, <1>7 DEF SplitInv

\* gpt2_split begins with the characters of the stretch, which cover its bytes.
LEMMA StartSplitKeeps == SplitInv /\ StartSplit => SplitInv'
<1> SUFFICES ASSUME SplitInv, StartSplit PROVE SplitInv'
  OBVIOUS
<1> USE DEF StartSplit
<1>1. Types
  BY DEF SplitInv
<1>2. PICK s \in Seq(Byte) : s = cur
  BY <1>1 DEF Types
<1>3. PICK c : c = Decode(s)
  OBVIOUS
<1>4. Covers(c, 1, s)
  BY <1>3, DecodeCovers
<1>5. Covers(cps, 1, cur)' /\ (i \in 1..Len(cps)+1)'
  <2>1. cps' = c /\ cur' = s /\ i' = 1
    BY <1>2, <1>3
  <2>2. Len(c) \in Nat
    BY <1>4, LenProperties DEF Covers
  <2> QED BY <1>4, <2>1, <2>2
<1>6. Held' = cur
  <2>1. Held' = SubSeq(s, Begins(c, 1, s), Len(s))
    BY <1>2, <1>3 DEF Held
  <2>2. Begins(c, 1, s) = 1
    BY <1>4 DEF Covers
  <2> QED BY <1>2, <2>1, <2>2, SubSeqFull
<1>7. FlattenSeq(out) \o cur = SubSeq(text, 1, at)
  BY DEF SplitInv, Held
<1>8. Types' /\ Decoded'
  BY <1>1, <1>5 DEF Types, Decoded
<1> QED BY <1>6, <1>7, <1>8 DEF SplitInv

\* A digit is a piece of its own.
LEMMA DigitKeeps == SplitInv /\ Digit => SplitInv'
<1> SUFFICES ASSUME SplitInv, Digit PROVE SplitInv'
  OBVIOUS
<1> USE DEF Digit, NextIsDigit
<1> DEFINE b == text[at+1]
           x == <<b>>
<1>1. Types
  BY DEF SplitInv
<1>2. b \in Byte /\ at' \in 0..Len(text) /\ SubSeq(text, 1, at') = SubSeq(text, 1, at) \o x
  BY <1>1, ReadMore
<1>3. x \in Seq(Byte)
  BY <1>2
<1> HIDE DEF x
<1>4. out' \in Seq(Seq(Byte)) /\ FlattenSeq(out') = FlattenSeq(out) \o x
  <2>1. out' = Append(out, x)
    BY DEF x
  <2>2. Append(out, x) \in Seq(Seq(Byte))
    BY <1>1, <1>3, AppendProperties DEF Types
  <2>3. FlattenSeq(Append(out, x)) = FlattenSeq(out) \o x
    BY <1>1, <1>3, FlattenAppend DEF Types
  <2> QED BY <2>1, <2>2, <2>3
<1>5. FlattenSeq(out) \o <<>> = SubSeq(text, 1, at) /\ FlattenSeq(out) \o <<>> = FlattenSeq(out)
  BY <1>1, ConcatEmptySeq DEF SplitInv, Held, Types
<1>6. FlattenSeq(out) \o x \in Seq(Byte) /\ (FlattenSeq(out) \o x) \o <<>> = FlattenSeq(out) \o x
  BY <1>1, <1>3, ConcatProperties, ConcatEmptySeq DEF Types
<1>7. (FlattenSeq(out) \o Held)' = SubSeq(text, 1, at)'
  <2>1. Held' = <<>>
    BY DEF Held
  <2> QED BY <1>2, <1>4, <1>5, <1>6, <2>1
<1>8. Types' /\ Decoded'
  BY <1>1, <1>2, <1>4, <1>6 DEF Types, Decoded
<1> QED BY <1>7, <1>8 DEF SplitInv

\* gpt2_split cuts where its loops over a class stop.
LEMMA RunEnds ==
  ASSUME Len(cps) \in Nat, NEW k \in 1..Len(cps)
  PROVE  /\ RunEnd(k) \in k+1..Len(cps)+1
         /\ \A x \in k..RunEnd(k)-1 : Cls(cps, x) = Cls(cps, k)
         /\ RunEnd(k) <= Len(cps) => Cls(cps, RunEnd(k)) # Cls(cps, k)
<1> DEFINE Stops == {e \in k..Len(cps)+1 : e <= Len(cps) => Cls(cps, e) # Cls(cps, k)}
<1>1. Stops # {} /\ Stops \in SUBSET Nat
  <2>1. Len(cps) + 1 \in k..Len(cps)+1 /\ ~(Len(cps) + 1 <= Len(cps))
    OBVIOUS
  <2> QED BY <2>1
<1>2. PICK m \in Stops : \A n \in Stops : m <= n
  <2> HIDE DEF Stops
  <2> QED BY <1>1, LeastExists
<1>3. m \in k..Len(cps)+1 /\ (m <= Len(cps) => Cls(cps, m) # Cls(cps, k))
  OBVIOUS
<1>4. \A x \in k..m-1 : Cls(cps, x) = Cls(cps, k)
  <2> SUFFICES ASSUME NEW x \in k..m-1 PROVE Cls(cps, x) = Cls(cps, k)
    OBVIOUS
  <2>1. x \in k..Len(cps)+1 /\ ~(m <= x)
    BY <1>3
  <2>2. x \notin Stops
    <3> HIDE DEF Stops
    <3> QED BY <1>2, <2>1
  <2> QED BY <2>1, <2>2
<1> DEFINE Ends(e) == /\ \A x \in k..e-1 : Cls(cps, x) = Cls(cps, k)
                      /\ e <= Len(cps) => Cls(cps, e) # Cls(cps, k)
<1>5. RunEnd(k) \in k..Len(cps)+1 /\ Ends(RunEnd(k))
  <2>1. \E e \in k..Len(cps)+1 : Ends(e)
    BY <1>3, <1>4
  <2>2. RunEnd(k) = CHOOSE e \in k..Len(cps)+1 : Ends(e)
    BY DEF RunEnd
  <2> HIDE DEF Ends
  <2> QED BY <2>1, <2>2
<1>6. RunEnd(k) # k
  BY <1>5
<1> HIDE DEF Stops
<1> QED BY <1>5, <1>6

\* A piece that gpt2_split emits is the bytes of its characters, taken from the front of the stretch.
LEMMA EmitKeeps ==
  ASSUME SplitInv, Splitting, NEW e \in i+1..Len(cps)+1, EmitUpTo(e)
  PROVE  SplitInv' /\ Emitted(cps, i, e) = SubSeq(cur, cps[i].off, Begins(cps, e, cur) - 1)
<1>0. /\ out' = Append(out, Emitted(cps, i, e)) /\ i' = e /\ phase = "split" /\ i <= Len(cps)
      /\ UNCHANGED <<text, at, cur, phase, cps>>
  BY DEF EmitUpTo, Splitting
<1>1. Types /\ Covers(cps, 1, cur) /\ i \in 1..Len(cps)+1 /\ Len(cps) \in Nat
  BY <1>0, LenProperties DEF SplitInv, Decoded, Covers
<1> DEFINE a == Begins(cps, i, cur)
           b == Begins(cps, e, cur)
           x == Emitted(cps, i, e)
<1>2. i \in 1..Len(cps) /\ e \in 1..Len(cps)+1 /\ i < e /\ e - 1 \in 1..Len(cps)
  BY <1>0, <1>1
<1>3. a = cps[i].off /\ b = cps[e-1].off + cps[e-1].len
  <2>1. (e - 1) + 1 = e
    BY <1>2
  <2> QED BY <1>1, <1>2, <2>1 DEF Covers, Begins
<1>4. a \in 1..Len(cur)+1 /\ b \in 1..Len(cur)+1 /\ a < b
  BY <1>1, <1>2 DEF Covers
<1> HIDE DEF a, b
<1>5. x = SubSeq(cur, a, b - 1)
  <2>1. x = SubSeq(cur, cps[i].off, cps[e-1].off + cps[e-1].len - 1)
    BY DEF Emitted
  <2> DEFINE f == cps[e-1].off
             n == cps[e-1].len
  <2>2. f \in Nat /\ n \in Nat
    <3>1. cps[e-1] \in Points(cur)
      BY <1>1, <1>2, ElementOfSeq DEF Covers
    <3>2. cur \in Seq(Byte)
      BY <1>1 DEF Types
    <3> HIDE DEF x
    <3>3. cps[e-1].off \in Nat /\ cps[e-1].len \in Nat
      BY <3>1, <3>2, PointsAreNumbers
    <3> QED BY <3>3
  <2>3. b = f + n
    BY <1>3
  <2> HIDE DEF x, f, n
  <2>4. f + (n - 1) = b - 1
    BY <2>2, <2>3
  <2> QED BY <1>3, <2>1, <2>4 DEF f, n
<1> HIDE DEF x
<1>6. x \in Seq(Byte) /\ SubSeq(cur, b, Len(cur)) \in Seq(Byte)
  <2>1. Len(cur) \in Nat /\ \A y \in 1..Len(cur) : cur[y] \in Byte
    BY <1>1, LenProperties, ElementOfSeq DEF Types
  <2>2. a \in Int /\ b \in Int /\ b - 1 \in Int /\ Len(cur) \in Int
    BY <1>4, <2>1
  <2>3. (\A y \in a..b-1 : cur[y] \in Byte) /\ (\A y \in b..Len(cur) : cur[y] \in Byte)
    BY <1>4, <2>1
  <2> QED BY <1>5, <2>2, <2>3, SubSeqProperties
<1>7. SubSeq(cur, a, Len(cur)) = x \o SubSeq(cur, b, Len(cur))
  <2> DEFINE k == b - 1
  <2>1. Len(cur) \in Nat /\ cur \in Seq(Byte)
    BY <1>1, LenProperties DEF Types
  <2>2. k \in a-1..Len(cur) /\ Len(cur) \in k..Len(cur) /\ k + 1 = b
    BY <1>4, <2>1
  <2> HIDE DEF k
  <2>3. SubSeq(cur, a, k) \o SubSeq(cur, k + 1, Len(cur)) = SubSeq(cur, a, Len(cur))
    BY <1>4, <2>1, <2>2, ConcatAdjacentSubSeq
  <2> QED BY <1>5, <2>2, <2>3 DEF k
<1>8. out' \in Seq(Seq(Byte)) /\ FlattenSeq(out') = FlattenSeq(out) \o x
  <2>1. out' = Append(out, x)
    BY <1>0 DEF x
  <2>2. Append(out, x) \in Seq(Seq(Byte))
    BY <1>1, <1>6, AppendProperties DEF Types
  <2>3. FlattenSeq(Append(out, x)) = FlattenSeq(out) \o x
    BY <1>1, <1>6, FlattenAppend DEF Types
  <2> QED BY <2>1, <2>2, <2>3
<1>9. FlattenSeq(out) \o SubSeq(cur, a, Len(cur)) = SubSeq(text, 1, at)
  BY <1>0 DEF SplitInv, Held, a
<1>10. (FlattenSeq(out) \o x) \o SubSeq(cur, b, Len(cur)) = FlattenSeq(out) \o (x \o SubSeq(cur, b, Len(cur)))
  <2> DEFINE F == FlattenSeq(out)
             R == SubSeq(cur, b, Len(cur))
  <2>1. F \in Seq(Byte) /\ R \in Seq(Byte)
    BY <1>1, <1>6 DEF Types
  <2> HIDE DEF F, R
  <2>2. (F \o x) \o R = F \o (x \o R)
    BY <1>6, <2>1, ConcatAssociative, SMTT(40)
  <2> QED BY <2>2 DEF F, R
<1>11. FlattenSeq(out) \o x \in Seq(Byte)
  BY <1>1, <1>6, ConcatProperties DEF Types
<1>12. Held' = SubSeq(cur, b, Len(cur))
  BY <1>0 DEF Held, b, Begins
<1>13. Decoded'
  BY <1>0, <1>1, <1>2 DEF Decoded, Covers, Begins, Points
<1>14. Types'
  BY <1>0, <1>1, <1>8, <1>11 DEF Types
<1> QED BY <1>0, <1>3, <1>5, <1>7, <1>8, <1>9, <1>10, <1>12, <1>13, <1>14 DEF SplitInv, a, b, x

\* Each of the three makes progress within the stretch.
LEMMA SplitsForward ==
  ASSUME SplitInv, Splitting
  PROVE  /\ Contracted(cps, i) > 0 => i + Contracted(cps, i) \in i+1..Len(cps)+1
         /\ RunEnd(WordStart) \in i+1..Len(cps)+1
         /\ SpaceEnd \in i+1..Len(cps)+1
<1>1. i \in 1..Len(cps) /\ Len(cps) \in Nat
  BY LenProperties DEF SplitInv, Decoded, Covers, Splitting
<1>2. Contracted(cps, i) > 0 => i + Contracted(cps, i) \in i+1..Len(cps)+1
  BY <1>1 DEF Contracted, IsCh
<1>3. WordStart \in i..Len(cps)
  <2>1. WordStart = i \/ (WordStart = i + 1 /\ i + 1 <= Len(cps))
    BY DEF WordStart
  <2> QED BY <1>1, <2>1
<1>4. RunEnd(WordStart) \in WordStart+1..Len(cps)+1 /\ RunEnd(i) \in i+1..Len(cps)+1
  <2>1. WordStart \in 1..Len(cps)
    BY <1>1, <1>3
  <2> QED BY <1>1, <2>1, RunEnds
<1>5. SpaceEnd \in i+1..Len(cps)+1
  BY <1>1, <1>4 DEF SpaceEnd
<1> QED BY <1>1, <1>2, <1>3, <1>4, <1>5

\* Every step keeps the invariant.
LEMMA SplitInvNext == SplitInv /\ [Next]_vars => SplitInv'
<1> SUFFICES ASSUME SplitInv, [Next]_vars PROVE SplitInv'
  OBVIOUS
<1>1. CASE Gather
  BY <1>1, GatherKeeps
<1>2. CASE StartSplit
  BY <1>2, StartSplitKeeps
<1>3. CASE Digit
  BY <1>3, DigitKeeps
<1>4. CASE Finish
  BY <1>4 DEF Finish, SplitInv, Types, Decoded, Held
<1>5. CASE Contraction
  BY <1>5, SplitsForward, EmitKeeps DEF Contraction
<1>6. CASE Word
  BY <1>6, SplitsForward, EmitKeeps DEF Word
<1>7. CASE Space
  BY <1>7, SplitsForward, EmitKeeps DEF Space
<1>8. CASE EndSplit
  <2> USE <1>8 DEF EndSplit
  <2>1. Types /\ Held = SubSeq(cur, Begins(cps, i, cur), Len(cur))
    BY DEF SplitInv, Held
  <2>2. Begins(cps, i, cur) = Len(cur) + 1
    <3>1. i \in 1..Len(cps)+1 /\ Len(cps) \in Nat
      BY LenProperties DEF SplitInv, Decoded, Covers
    <3> QED BY <3>1 DEF Begins
  <2>3. Held = <<>>
    <3>1. Len(cur) \in Nat
      BY <2>1, LenProperties DEF Types
    <3> QED BY <2>1, <2>2, <3>1, SubSeqEmpty
  <2>4. Held' = <<>>
    BY DEF Held
  <2>5. Types' /\ Decoded'
    BY <2>1, EmptySeq DEF Types, Decoded
  <2> QED BY <2>3, <2>4, <2>5 DEF SplitInv
<1>9. CASE Done \/ UNCHANGED vars
  BY <1>9 DEF Done, vars, SplitInv, Types, Decoded, Held
<1> QED BY <1>1, <1>2, <1>3, <1>4, <1>5, <1>6, <1>7, <1>8, <1>9 DEF Next

\* No byte is lost, added or reordered.
LEMMA LosesNothingFollows == SplitInv => LosesNothing
<1> SUFFICES ASSUME SplitInv PROVE LosesNothing
  OBVIOUS
<1>1. Types
  BY DEF SplitInv
<1> DEFINE split == IF phase # "split" THEN 0 ELSE IF i <= Len(cps) THEN cps[i].off - 1 ELSE Len(cur)
<1>2. SubSeq(cur, split + 1, Len(cur)) = Held
  <2>1. CASE phase # "split"
    BY <1>1, <2>1, SubSeqFull DEF Types, Held
  <2>2. CASE phase = "split"
    <3>1. Begins(cps, i, cur) \in Nat /\ Len(cur) \in Nat
      BY <1>1, <2>2, LenProperties DEF SplitInv, Decoded, Covers, Types
    <3>2. split + 1 = Begins(cps, i, cur)
      BY <2>2, <3>1 DEF Begins
    <3> HIDE DEF split
    <3> QED BY <2>2, <3>2 DEF Held
  <2> QED BY <2>1, <2>2
<1>3. LosesNothing <=> FlattenSeq(out) \o SubSeq(cur, split + 1, Len(cur)) = SubSeq(text, 1, at)
  BY DEF LosesNothing
<1> HIDE DEF split
<1> QED BY <1>2, <1>3 DEF SplitInv

\* Whatever the bytes of a text are, the pieces that pretokenize cuts it into are the text again.
THEOREM PiecesAreTheText == Spec => []LosesNothing
<1>1. Spec => []SplitInv
  BY SplitInvInit, SplitInvNext, PTL DEF Spec
<1> QED BY <1>1, LosesNothingFollows, PTL

-----------------------------------------------------------------------------
(* The regular expression                                                  *)

\* The first alternative with a match decides, at its longest match.
LEMMA FirstAlternativeWins ==
  ASSUME NEW c, NEW k, NEW a \in DOMAIN Alternatives, NEW n \in Matches(c, k, Alternatives[a]),
         \A m \in Matches(c, k, Alternatives[a]) : m <= n,
         \A b \in 1..a-1 : Matches(c, k, Alternatives[b]) = {}
  PROVE  MatchLength(c, k) = n
<1> DEFINE M(b) == Matches(c, k, Alternatives[b])
           First(b) == M(b) # {} /\ \A d \in 1..b-1 : M(d) = {}
           f == CHOOSE b \in DOMAIN Alternatives : First(b)
           l == CHOOSE m \in M(f) : \A o \in M(f) : o <= m
<1>1. MatchLength(c, k) = l
  BY DEF MatchLength
<1>2. DOMAIN Alternatives = 1..6
  BY DEF Alternatives
<1>3. n \in M(a) /\ (\A m \in M(a) : m <= n) /\ \A d \in 1..a-1 : M(d) = {}
  OBVIOUS
<1>4. ASSUME NEW b, NEW m \in M(b) PROVE m \in Int
  <2>1. m \in 1..Len(c)-k+1
    BY Zenon DEF Matches
  <2> HIDE DEF M
  <2> QED BY <2>1
<1> HIDE DEF M
<1>5. f \in DOMAIN Alternatives /\ First(f)
  <2>1. First(a)
    BY <1>3
  <2> HIDE DEF First
  <2> QED BY <2>1
<1>6. f = a
  <2> HIDE DEF f
  <2>1. f \in 1..6 /\ a \in 1..6
    BY <1>2, <1>5
  <2>2. f < a => f \in 1..a-1
    BY <2>1
  <2>3. a < f => a \in 1..f-1
    BY <2>1
  <2>4. ~(f < a) /\ ~(a < f)
    BY <1>3, <1>5, <2>2, <2>3
  <2> QED BY <2>1, <2>4
<1>7. l = n
  <2> HIDE DEF f
  <2>1. l \in M(f) /\ \A o \in M(f) : o <= l
    BY <1>3, <1>6
  <2> HIDE DEF l
  <2>2. l <= n /\ n <= l /\ l \in Int /\ n \in Int
    BY <1>3, <1>4, <1>6, <2>1
  <2> QED BY <2>2
<1> QED BY <1>1, <1>7

\* A character has one of four classes.
LEMMA ClassesAre == \A cp : Classify(cp) \in {"space", "number", "letter", "other"}
<1> SUFFICES ASSUME NEW cp PROVE Classify(cp) \in {"space", "number", "letter", "other"}
  OBVIOUS
<1>1. Spaces \cap Numbers = {} /\ Spaces \cap Letters = {} /\ Numbers \cap Letters = {}
  BY DEF Spaces, Numbers, Digits, Letters
<1>2. CASE cp \in Spaces
  <2>1. cp \notin Numbers /\ cp \notin Letters
    BY <1>1, <1>2
  <2> QED BY <1>2, <2>1 DEF Classify
<1>3. CASE cp \in Numbers
  <2>1. cp \notin Spaces /\ cp \notin Letters
    BY <1>1, <1>3
  <2> QED BY <1>3, <2>1 DEF Classify
<1>4. CASE cp \in Letters
  <2>1. cp \notin Numbers /\ cp \notin Spaces
    BY <1>1, <1>4
  <2> QED BY <1>4, <2>1 DEF Classify
<1>5. CASE cp \notin Spaces \cup Numbers \cup Letters
  BY <1>5 DEF Classify
<1> QED BY <1>2, <1>3, <1>4, <1>5

\* What each alternative matches.
LEMMA ContractionIs ==
  ASSUME NEW c, Len(c) \in Nat, NEW k \in 1..Len(c), NEW n
  PROVE  n \in Matches(c, k, "contraction") <=> n \in 1..Len(c)-k+1 /\ n = Contracted(c, k)
<1> DEFINE one == \E ch \in {"s", "t", "m", "d"} : IsCh(c, k + 1, ch)
           two == \E p \in {<<"r", "e">>, <<"v", "e">>, <<"l", "l">>} : IsCh(c, k + 1, p[1]) /\ IsCh(c, k + 2, p[2])
           Ends(w) == n = Len(w) + 1 /\ \A x \in 1..Len(w) : IsCh(c, k + x, w[x])
<1>1. \A ch : Ends(<<ch>>) <=> n = 2 /\ IsCh(c, k + 1, ch)
  <2> TAKE ch
  <2> DEFINE w == <<ch>>
  <2>1. Len(w) = 1 /\ w[1] = ch
    OBVIOUS
  <2> HIDE DEF w
  <2>2. Ends(w) <=> n = 2 /\ IsCh(c, k + 1, ch)
    BY <2>1
  <2> QED BY <2>2 DEF w
<1>2. \A ch, dh : Ends(<<ch, dh>>) <=> n = 3 /\ IsCh(c, k + 1, ch) /\ IsCh(c, k + 2, dh)
  <2> TAKE ch, dh
  <2> DEFINE w == <<ch, dh>>
  <2>1. Len(w) = 2 /\ w[1] = ch /\ w[2] = dh
    OBVIOUS
  <2> HIDE DEF w
  <2>2. (\A x \in 1..2 : IsCh(c, k + x, w[x])) <=> IsCh(c, k + 1, w[1]) /\ IsCh(c, k + 2, w[2])
    <3>1. \A x \in 1..2 : x = 1 \/ x = 2
      OBVIOUS
    <3> QED BY <3>1
  <2>3. Ends(w) <=> n = 3 /\ IsCh(c, k + 1, ch) /\ IsCh(c, k + 2, dh)
    BY <2>1, <2>2
  <2> QED BY <2>3 DEF w
<1>3. (\E w \in Endings : Ends(w)) <=> (n = 2 /\ one) \/ (n = 3 /\ two)
  <2> HIDE DEF Ends
  <2>1. (\E w \in Endings : Ends(w)) <=>
          \/ Ends(<<"s">>) \/ Ends(<<"t">>) \/ Ends(<<"m">>) \/ Ends(<<"d">>)
          \/ Ends(<<"r", "e">>) \/ Ends(<<"v", "e">>) \/ Ends(<<"l", "l">>)
    BY DEF Endings
  <2>2. two <=> \/ IsCh(c, k + 1, "r") /\ IsCh(c, k + 2, "e")
                \/ IsCh(c, k + 1, "v") /\ IsCh(c, k + 2, "e")
                \/ IsCh(c, k + 1, "l") /\ IsCh(c, k + 2, "l")
    OBVIOUS
  <2> HIDE DEF two
  <2> QED BY <1>1, <1>2, <2>1, <2>2
<1>4. one => ~two
  <2>1. \A ch \in {"s", "t", "m", "d"}, dh \in {"r", "v", "l"} : Ch(ch) # Ch(dh)
    <3>1. Ch("s") = 115 /\ Ch("t") = 116 /\ Ch("m") = 109 /\ Ch("d") = 100
      BY DEF Ch
    <3>2. Ch("r") = 114 /\ Ch("v") = 118 /\ Ch("l") = 108
      BY DEF Ch
    <3> QED BY <3>1, <3>2
  <2>2. \A ch \in {"s", "t", "m", "d"}, dh \in {"r", "v", "l"} : ~(IsCh(c, k + 1, ch) /\ IsCh(c, k + 1, dh))
    BY <2>1 DEF IsCh
  <2>3. two => \E dh \in {"r", "v", "l"} : IsCh(c, k + 1, dh)
    OBVIOUS
  <2> QED BY <2>2, <2>3
<1>5. one \/ two => k + 1 <= Len(c)
  BY DEF IsCh
<1>6. Contracted(c, k) = IF ~(IsCh(c, k, "'") /\ k + 1 <= Len(c)) THEN 0
                         ELSE IF one THEN 2 ELSE IF two THEN 3 ELSE 0
  BY DEF Contracted
<1>7. n \in Matches(c, k, "contraction") <=>
        n \in 1..Len(c)-k+1 /\ IsCh(c, k, "'") /\ \E w \in Endings : Ends(w)
  BY DEF Matches
<1> HIDE DEF one, two, Ends
<1> QED BY <1>3, <1>4, <1>5, <1>6, <1>7

\* When n characters match one of the three run alternatives of the regular expression.
LEMMA WordIs ==
  ASSUME NEW c, NEW k, NEW n, NEW alt \in {"letter", "number", "other"}
  PROVE  n \in Matches(c, k, alt) <=>
           n \in 1..Len(c)-k+1 /\ (All(c, k, n, alt) \/ (IsCh(c, k, " ") /\ All(c, k + 1, n - 1, alt)))
  BY DEF Matches

\* When n characters match \s+(?!\S).
LEMMA TrailingIs ==
  ASSUME NEW c, NEW k, NEW n
  PROVE  n \in Matches(c, k, "trailing") <=>
           n \in 1..Len(c)-k+1 /\ All(c, k, n, "space") /\ (k + n > Len(c) \/ Cls(c, k + n) = "space")
  BY DEF Matches

\* When n characters match \s+.
LEMMA SpaceIs ==
  ASSUME NEW c, NEW k, NEW n
  PROVE  n \in Matches(c, k, "space") <=> n \in 1..Len(c)-k+1 /\ All(c, k, n, "space")
  BY DEF Matches

\* Three ways to match that gpt2_split takes apart.
LEMMA ContractionMatches ==
  ASSUME SplitInv, Splitting, Contracted(cps, i) > 0
  PROVE  MatchLength(cps, i) = Contracted(cps, i)
<1> DEFINE n == Contracted(cps, i)
<1>1. i \in 1..Len(cps) /\ Len(cps) \in Nat
  BY LenProperties DEF SplitInv, Decoded, Covers, Splitting
<1>2. n \in 1..Len(cps)-i+1
  <2>1. i + n \in i+1..Len(cps)+1
    BY SplitsForward
  <2>2. n \in {0, 2, 3}
    BY DEF Contracted
  <2> HIDE DEF n
  <2> QED BY <1>1, <2>1, <2>2
<1> HIDE DEF n
<1>3. \A m : m \in Matches(cps, i, Alternatives[1]) <=> m \in 1..Len(cps)-i+1 /\ m = n
  <2>1. Alternatives[1] = "contraction"
    BY DEF Alternatives
  <2> QED BY <1>1, <2>1, ContractionIs DEF n
<1>4. 1 \in DOMAIN Alternatives
  BY DEF Alternatives
<1>5. n \in Matches(cps, i, Alternatives[1]) /\ \A m \in Matches(cps, i, Alternatives[1]) : m <= n
  BY <1>2, <1>3
<1>6. \A b \in 1..1-1 : Matches(cps, i, Alternatives[b]) = {}
  OBVIOUS
<1> QED BY <1>4, <1>5, <1>6, FirstAlternativeWins DEF n

\* A run of one class from b on is what an alternative for the class matches.
LEMMA RunMatches ==
  ASSUME Len(cps) \in Nat, NEW b \in 1..Len(cps), NEW class, Cls(cps, b) = class, NEW n \in Int
  PROVE  All(cps, b, n, class) <=> n \in 1..RunEnd(b)-b
<1> DEFINE r == RunEnd(b)
<1>1. /\ r \in b+1..Len(cps)+1
      /\ \A x \in b..r-1 : Cls(cps, x) = class
      /\ r <= Len(cps) => Cls(cps, r) # class
  BY RunEnds
<1> HIDE DEF r
<1>2. ASSUME n \in 1..r-b PROVE All(cps, b, n, class)
  <2>1. n > 0 /\ b + n - 1 <= Len(cps)
    BY <1>1, <1>2
  <2>2. \A x \in b..b+n-1 : x \in b..r-1
    BY <1>1, <1>2
  <2> QED BY <1>1, <2>1, <2>2 DEF All
<1>3. ASSUME All(cps, b, n, class) PROVE n \in 1..r-b
  <2>1. n > 0 /\ b + n - 1 <= Len(cps) /\ \A x \in b..b+n-1 : Cls(cps, x) = class
    BY <1>3 DEF All
  <2>2. ~(r \in b..b+n-1 /\ r <= Len(cps))
    BY <1>1, <2>1
  <2> QED BY <1>1, <2>1, <2>2
<1> QED BY <1>2, <1>3 DEF r

\* Where the code sees no contraction the alternative has no match.
LEMMA NoContraction ==
  ASSUME SplitInv, Splitting, Contracted(cps, i) = 0 PROVE Matches(cps, i, "contraction") = {}
<1> i \in 1..Len(cps) /\ Len(cps) \in Nat
  BY LenProperties DEF SplitInv, Decoded, Covers, Splitting
<1> QED BY ContractionIs

\* Where there is no contraction, the alternative of another class than the word's has no match.
LEMMA NoOtherClass ==
  ASSUME Len(cps) \in Nat, i \in 1..Len(cps), NEW alt \in {"letter", "number", "other"},
         alt # Cls(cps, WordStart)
  PROVE  Matches(cps, i, alt) = {}
<1> DEFINE Sp == IsCh(cps, i, " ")
<1>1. Sp => Cls(cps, i) = "space"
  BY DEF IsCh, Ch, Cls, Classify, Spaces, Numbers, Letters, Digits
<1>2. SUFFICES ASSUME NEW n \in 1..Len(cps)-i+1,
                      All(cps, i, n, alt) \/ (Sp /\ All(cps, i + 1, n - 1, alt))
               PROVE  FALSE
  <2>1. \A n : n \in Matches(cps, i, alt) <=>
                 n \in 1..Len(cps)-i+1 /\ (All(cps, i, n, alt) \/ (Sp /\ All(cps, i + 1, n - 1, alt)))
    BY WordIs
  <2> HIDE DEF Sp
  <2> QED BY <1>2, <2>1, Zenon
<1>3. WordStart = IF Sp /\ i + 1 <= Len(cps) /\ Cls(cps, i + 1) # "space" THEN i + 1 ELSE i
  BY DEF WordStart
<1> HIDE DEF Sp
<1>4. CASE All(cps, i, n, alt)
  <2>1. i \in i..i+n-1
    BY <1>2
  <2>2. Cls(cps, i) = alt
    BY <1>4, <2>1 DEF All
  <2>3. ~Sp
    BY <1>1, <2>2
  <2> QED BY <1>3, <2>2, <2>3
<1>5. CASE Sp /\ All(cps, i + 1, n - 1, alt)
  <2>1. i + 1 \in i+1..(i+1)+(n-1)-1 /\ i + 1 <= Len(cps)
    BY <1>5 DEF All
  <2>2. Cls(cps, i + 1) = alt
    BY <1>5, <2>1 DEF All
  <2> QED BY <1>3, <1>5, <2>1, <2>2
<1> QED BY <1>2, <1>4, <1>5

\* What Word takes is what the regular expression matches.
LEMMA WordMatches ==
  ASSUME SplitInv, Splitting, Contracted(cps, i) = 0, Cls(cps, WordStart) # "space"
  PROVE  MatchLength(cps, i) = RunEnd(WordStart) - i
<1> DEFINE w == WordStart
           class == Cls(cps, w)
           r == RunEnd(w)
           Sp == IsCh(cps, i, " ")
<1>1. i \in 1..Len(cps) /\ Len(cps) \in Nat
  BY LenProperties DEF SplitInv, Decoded, Covers, Splitting
<1>2. Sp => Cls(cps, i) = "space"
  BY DEF IsCh, Ch, Cls, Classify, Spaces, Numbers, Letters, Digits
<1>3. class \in {"letter", "number", "other"}
  BY ClassesAre DEF Cls
<1>4. (w = i + 1 /\ Sp /\ i + 1 <= Len(cps)) \/ (w = i /\ (Sp /\ i + 1 <= Len(cps) => Cls(cps, i + 1) = "space"))
  BY DEF WordStart
<1>5. w \in 1..Len(cps)
  <2> HIDE DEF w, Sp
  <2> QED BY <1>1, <1>4
<1>6. r \in i+1..Len(cps)+1 /\ r \in w+1..Len(cps)+1
  BY <1>1, <1>5, SplitsForward, RunEnds
<1>7. \A n \in Int : All(cps, w, n, class) <=> n \in 1..r-w
  BY <1>1, <1>5, RunMatches
<1>8. \A n : n \in Matches(cps, i, class) <=>
             n \in 1..Len(cps)-i+1 /\ (All(cps, i, n, class) \/ (Sp /\ All(cps, i + 1, n - 1, class)))
  BY <1>3, WordIs
<1>9. r - i \in Matches(cps, i, class) /\ \A n \in Matches(cps, i, class) : n <= r - i
  <2> HIDE DEF w, class, r, Sp
  <2>1. r - i \in 1..Len(cps)-i+1
    BY <1>1, <1>6
  <2>2. CASE w = i
    <3>1. ASSUME NEW n \in 1..Len(cps)-i+1, Sp, All(cps, i + 1, n - 1, class) PROVE FALSE
      <4>1. class = Cls(cps, i)
        BY <2>2 DEF class
      <4> QED BY <1>2, <1>3, <3>1, <4>1
    <3>2. All(cps, i, r - i, class)
      BY <1>7, <2>1, <2>2
    <3>3. \A n \in 1..Len(cps)-i+1 : All(cps, i, n, class) => n <= r - i
      BY <1>1, <1>6, <1>7, <2>2
    <3> QED BY <1>8, <2>1, <3>1, <3>2, <3>3
  <2>3. CASE w = i + 1 /\ Sp
    <3>1. ASSUME NEW n \in 1..Len(cps)-i+1, All(cps, i, n, class) PROVE FALSE
      <4>1. i \in i..i+n-1
        BY <1>1
      <4>2. Cls(cps, i) = class
        BY <3>1, <4>1 DEF All
      <4> QED BY <1>2, <1>3, <2>3, <4>2
    <3>2. All(cps, i + 1, (r - i) - 1, class)
      <4>1. (r - i) - 1 \in 1..r-w /\ (r - i) - 1 \in Int
        BY <1>1, <1>6, <2>3
      <4> QED BY <1>7, <2>3, <4>1
    <3>3. ASSUME NEW n \in 1..Len(cps)-i+1, All(cps, i + 1, n - 1, class) PROVE n <= r - i
      <4>1. n - 1 \in 1..r-w
        BY <1>7, <2>3, <3>3
      <4> QED BY <1>1, <1>6, <2>3, <4>1
    <3> QED BY <1>8, <2>1, <2>3, <3>1, <3>2, <3>3
  <2> QED BY <1>4, <2>2, <2>3
<1>10. PICK a \in 2..4 : Alternatives[a] = class /\ \A b \in 2..a-1 : Alternatives[b] # class
  <2>1. Alternatives[2] = "letter" /\ Alternatives[3] = "number" /\ Alternatives[4] = "other"
    BY DEF Alternatives
  <2> HIDE DEF class
  <2>2. CASE class = "letter"
    BY <2>1, <2>2
  <2>3. CASE class = "number"
    BY <2>1, <2>3
  <2>4. CASE class = "other"
    BY <2>1, <2>4
  <2> QED BY <1>3, <2>2, <2>3, <2>4
<1>11. ASSUME NEW b \in 1..a-1 PROVE Matches(cps, i, Alternatives[b]) = {}
  <2>1. CASE b = 1
    <3>1. Alternatives[1] = "contraction"
      BY DEF Alternatives
    <3> QED BY <2>1, <3>1, NoContraction
  <2>2. CASE b # 1
    <3>1. b \in 2..a-1 /\ b \in 2..3
      BY <2>2
    <3>2. Alternatives[b] \in {"letter", "number", "other"}
      BY <3>1 DEF Alternatives
    <3> QED BY <1>1, <1>10, <3>1, <3>2, NoOtherClass
  <2> QED BY <2>1, <2>2
<1>12. a \in DOMAIN Alternatives
  BY DEF Alternatives
<1>13. MatchLength(cps, i) = r - i
  <2> DEFINE n == r - i
  <2>1. n \in Matches(cps, i, Alternatives[a]) /\ \A m \in Matches(cps, i, Alternatives[a]) : m <= n
    BY <1>9, <1>10
  <2> HIDE DEF n
  <2> QED BY <1>11, <1>12, <2>1, FirstAlternativeWins DEF n
<1> QED BY <1>13

\* What Space takes is what the regular expression matches.
LEMMA SpaceMatches ==
  ASSUME SplitInv, Splitting, Contracted(cps, i) = 0, Cls(cps, WordStart) = "space"
  PROVE  MatchLength(cps, i) = SpaceEnd - i
<1> DEFINE r == RunEnd(i)
<1>1. i \in 1..Len(cps) /\ Len(cps) \in Nat
  BY LenProperties DEF SplitInv, Decoded, Covers, Splitting
<1>2. Cls(cps, i) = "space"
  <2>1. WordStart = i \/ (WordStart = i + 1 /\ Cls(cps, i + 1) # "space")
    BY DEF WordStart
  <2> QED BY <2>1
<1>3. /\ r \in i+1..Len(cps)+1
      /\ \A x \in i..r-1 : Cls(cps, x) = "space"
      /\ r <= Len(cps) => Cls(cps, r) # "space"
  BY <1>1, <1>2, RunEnds
<1>4. \A n \in Int : All(cps, i, n, "space") <=> n \in 1..r-i
  BY <1>1, <1>2, RunMatches
<1>5. SpaceEnd = IF r <= Len(cps) /\ r - i >= 2 THEN r - 1 ELSE r
  BY DEF SpaceEnd
<1> HIDE DEF r
<1>6. \A n : n \in Matches(cps, i, Alternatives[5]) <=>
             n \in 1..r-i /\ (i + n > Len(cps) \/ Cls(cps, i + n) = "space")
  <2>1. Alternatives[5] = "trailing"
    BY DEF Alternatives
  <2>2. 1..r-i \subseteq 1..Len(cps)-i+1
    BY <1>1, <1>3
  <2> QED BY <1>4, <2>1, <2>2, TrailingIs
<1>7. \A n : n \in Matches(cps, i, Alternatives[6]) <=> n \in 1..r-i
  <2>1. Alternatives[6] = "space"
    BY DEF Alternatives
  <2>2. 1..r-i \subseteq 1..Len(cps)-i+1
    BY <1>1, <1>3
  <2> QED BY <1>4, <2>1, <2>2, SpaceIs
<1>8. ASSUME NEW b \in 1..4 PROVE Matches(cps, i, Alternatives[b]) = {}
  <2>1. CASE b = 1
    <3>1. Alternatives[1] = "contraction"
      BY DEF Alternatives
    <3> QED BY <2>1, <3>1, NoContraction
  <2>2. CASE b # 1
    <3>1. Alternatives[b] \in {"letter", "number", "other"}
      BY <2>2 DEF Alternatives
    <3> QED BY <1>1, <3>1, NoOtherClass
  <2> QED BY <2>1, <2>2
<1>9. 5 \in DOMAIN Alternatives /\ 6 \in DOMAIN Alternatives
  BY DEF Alternatives
<1>10. CASE r > Len(cps) \/ r - i >= 2
  <2> DEFINE n == SpaceEnd - i
  <2>1. n \in Matches(cps, i, Alternatives[5])
    <3>1. CASE r > Len(cps)
      <4>1. n = r - i /\ i + n = r /\ n \in 1..r-i
        BY <1>1, <1>3, <1>5, <3>1
      <4> QED BY <1>6, <3>1, <4>1
    <3>2. CASE ~(r > Len(cps)) /\ r - i >= 2
      <4>1. n = r - 1 - i /\ i + n = r - 1 /\ n \in 1..r-i /\ r - 1 \in i..r-1
        BY <1>1, <1>3, <1>5, <3>2
      <4>2. Cls(cps, r - 1) = "space"
        BY <1>3, <4>1
      <4> HIDE DEF n
      <4> QED BY <1>6, <4>1, <4>2
    <3> QED BY <1>10, <3>1, <3>2
  <2>2. ASSUME NEW m \in Matches(cps, i, Alternatives[5]) PROVE m <= n
    <3>1. m \in 1..r-i /\ (i + m > Len(cps) \/ Cls(cps, i + m) = "space")
      BY <1>6
    <3>2. m = r - i => i + m = r
      BY <1>1, <1>3
    <3>3. r <= Len(cps) => m # r - i
      BY <1>1, <1>3, <3>1, <3>2
    <3> QED BY <1>1, <1>3, <1>5, <3>1, <3>3
  <2>3. \A b \in 1..5-1 : Matches(cps, i, Alternatives[b]) = {}
    BY <1>8
  <2> HIDE DEF n
  <2> QED BY <1>9, <2>1, <2>2, <2>3, FirstAlternativeWins DEF n
<1>11. CASE ~(r > Len(cps) \/ r - i >= 2)
  <2>1. r = i + 1 /\ r <= Len(cps) /\ SpaceEnd - i = 1
    BY <1>1, <1>3, <1>5, <1>11
  <2>2. 1..r-i = {1}
    BY <1>1, <2>1
  <2>3. Matches(cps, i, Alternatives[5]) = {}
    BY <1>1, <1>3, <1>6, <2>1, <2>2
  <2>4. 1 \in Matches(cps, i, Alternatives[6]) /\ \A m \in Matches(cps, i, Alternatives[6]) : m <= 1
    BY <1>7, <2>2
  <2>5. \A b \in 1..6-1 : Matches(cps, i, Alternatives[b]) = {}
    BY <1>8, <2>3
  <2> QED BY <1>9, <2>1, <2>4, <2>5, FirstAlternativeWins
<1> QED BY <1>10, <1>11

\* A piece that ends where the expression's match does is that match.
LEMMA PieceIsMatch ==
  ASSUME SplitInv, Splitting, NEW e \in i+1..Len(cps)+1, EmitUpTo(e), MatchLength(cps, i) = e - i
  PROVE  LET m == i + MatchLength(cps, i)
         IN  out' = Append(out, SubSeq(cur, cps[i].off, IF m <= Len(cps) THEN cps[m].off - 1 ELSE Len(cur)))
<1>1. i \in 1..Len(cps) /\ Len(cps) \in Nat /\ Len(cur) \in Nat
  BY LenProperties DEF SplitInv, Types, Decoded, Covers, Splitting
<1>2. i + MatchLength(cps, i) = e
  BY <1>1
<1>3. Emitted(cps, i, e) = SubSeq(cur, cps[i].off, Begins(cps, e, cur) - 1)
  BY EmitKeeps
<1>4. Begins(cps, e, cur) - 1 = IF e <= Len(cps) THEN cps[e].off - 1 ELSE Len(cur)
  BY <1>1 DEF Begins
<1>5. out' = Append(out, Emitted(cps, i, e))
  BY DEF EmitUpTo
<1> QED BY <1>2, <1>3, <1>4, <1>5

\* Whatever the text, each piece of the split is the regular expression's next match.
THEOREM SplitsAsTheRegexSays == Spec => SplitsByTheRegex
<1>1. SplitInv /\ [Next]_vars =>
        (phase = "split" /\ i' > i =>
          LET e == i + MatchLength(cps, i)
          IN  out' = Append(out, SubSeq(cur, cps[i].off, IF e <= Len(cps) THEN cps[e].off - 1 ELSE Len(cur))))
  <2> SUFFICES ASSUME SplitInv, [Next]_vars, phase = "split", i' > i
               PROVE  LET e == i + MatchLength(cps, i)
                      IN  out' = Append(out, SubSeq(cur, cps[i].off,
                                                    IF e <= Len(cps) THEN cps[e].off - 1 ELSE Len(cur)))
    OBVIOUS
  <2>1. CASE Contraction
    <3> DEFINE n == Contracted(cps, i)
               e == i + n
    <3>1. Splitting /\ n > 0 /\ EmitUpTo(e)
      BY <2>1 DEF Contraction
    <3>2. e \in i+1..Len(cps)+1
      BY <3>1, SplitsForward
    <3>3. MatchLength(cps, i) = n
      BY <3>1, ContractionMatches
    <3>4. i \in Int /\ n \in Int
      BY <3>1 DEF Contracted, SplitInv, Decoded, Splitting
    <3>5. n = e - i
      BY <3>4
    <3> HIDE DEF e, n
    <3> QED BY <3>1, <3>2, <3>3, <3>5, PieceIsMatch
  <2>2. CASE Word
    BY <2>2, SplitsForward, WordMatches, PieceIsMatch DEF Word
  <2>3. CASE Space
    BY <2>3, SplitsForward, SpaceMatches, PieceIsMatch DEF Space
  <2>4. CASE EndSplit
    <3>1. i \in Nat /\ Len(cps) \in Nat
      BY LenProperties DEF SplitInv, Decoded, Covers
    <3> QED BY <2>4, <3>1 DEF EndSplit
  <2>5. CASE Gather \/ StartSplit \/ Digit \/ Finish
    BY <2>5 DEF Gather, StartSplit, Digit, Finish
  <2>6. i' # i
    <3>1. i \in Nat
      BY LenProperties DEF SplitInv, Decoded, Covers
    <3> QED BY <3>1
  <2>7. CASE Done \/ UNCHANGED vars
    BY <2>6, <2>7 DEF Done, vars
  <2> QED BY <2>1, <2>2, <2>3, <2>4, <2>5, <2>7 DEF Next
<1>2. Spec => []SplitInv
  BY SplitInvInit, SplitInvNext, PTL DEF Spec
<1> QED BY <1>1, <1>2, PTL DEF Spec, SplitsByTheRegex
=============================================================================
