---------------------------- MODULE Fusion_proofs ---------------------------
(***************************************************************************)
(* The passes keep a list in order and keep what it computes, and a second *)
(* round of them finds nothing, for any graph: any op list that can run.   *)
(***************************************************************************)
EXTENDS Fusion, FiniteSetTheorems, SequenceTheorems, WellFoundedInduction, TLAPS

-----------------------------------------------------------------------------
(* The invariant                                                           *)

\* The ops that the pass has not absorbed.
Left == DOMAIN ops \ dead
Reads(o) == Range(o.in)
Writes(o) == Range(o.out)
Fused(o) == o.type \in {"MATMUL_N", "FFN_SWIGLU", "MATMUL_ADD"} \/ (o.type = "ATTENTION" /\ o.rope)

\* u gives the tensors that o writes what o computes from those that it reads.
Solves(u, o) == \A p \in DOMAIN o.out : u[o.out[p]] = Values(o, [n \in DOMAIN o.in |-> u[o.in[n]]])[p]
Sound(o) == Fits(o) /\ Reads(o) \cup Writes(o) \subseteq Tensors /\ Solves(Meaning(model), o)

Types ==
  /\ model \in Models /\ ops \in Seq(OpRecord) /\ start \in Seq(OpRecord)
  /\ Len(start) = Len(ops) /\ dead \subseteq DOMAIN ops
  /\ i \in 1..Len(ops)+1 /\ pass \in 1..Rounds*Len(Passes)+1

\* The pass began with a list that can run, and nobody reads the graph's output.
Started ==
  /\ WrittenOnce(start) /\ \A k \in DOMAIN start : Output \notin Reads(start[k])
\* What has been rewritten stands before i and is of a kind that this pass does not look for.
Walked ==
  /\ \A k \in DOMAIN ops : Sound(ops[k])
  /\ \A k \in DOMAIN ops : ops[k] = start[k] \/ (k < i /\ Fused(ops[k]))
  /\ \A k \in dead : ops[k].type \in {"SILU", "MATMUL", "ROPE"}
  /\ PassName # "shared" => \A k \in DOMAIN ops : ops[k].out = start[k].out
\* Without the ops absorbed the list can still run, and what an op reads it has read at the pass's start,
\* or it has been read by an op that is absorbed since.
LeftOnce ==
  \A k, l \in Left : \A p \in DOMAIN ops[k].out, q \in DOMAIN ops[l].out :
    ops[k].out[p] = ops[l].out[q] => k = l /\ p = q
LeftInOrder ==
  \A k \in Left : \A t \in Reads(ops[k]) : t > 0 => \E l \in Left : l < k /\ t \in Writes(ops[l])
ReadBefore == \A k \in Left : \A t \in Reads(ops[k]) : \E l \in dead \cup {k} : t \in Reads(start[l])
OutputLeft == \E k \in Left : Output \in Writes(ops[k])

\* No op that is left computes what nobody uses.
Used == \A k \in Left : \A t \in Writes(ops[k]) : t = Output \/ \E l \in Left : t \in Reads(ops[l])

FusInv == Types /\ Started /\ Walked /\ LeftOnce /\ LeftInOrder /\ ReadBefore /\ OutputLeft

-----------------------------------------------------------------------------
(* Sequences that a loop pushes back                                       *)

\* A set of natural numbers has a least one.
LEMMA LeastExists ==
  ASSUME NEW S \in SUBSET Nat, S # {}
  PROVE  \E m \in S : \A n \in S : m <= n
<1> DEFINE R == OpToRel(<, Nat)
<1>1. \A m, n \in Nat : m < n => <<m, n>> \in R
  BY DEF OpToRel
<1>2. IsWellFoundedOn(R, Nat)
  BY NatLessThanWellFounded
<1> HIDE DEF R
<1>3. PICK m \in S : \A n \in S : <<n, m>> \notin R
  BY <1>2, WFMin
<1>4. \A n \in S : ~(n < m)
  BY <1>1, <1>3
<1> QED BY <1>4

\* f is the loop's list after each of its turns.
Turns(f, S, n) ==
  f = [k \in 0..n |-> IF k = 0 THEN <<>> ELSE IF k \in S THEN Append(f[k - 1], k) ELSE f[k - 1]]

\* The recursive function of Ascending exists.
LEMMA TurnsExist ==
  ASSUME NEW S
  PROVE  \A n \in Nat : \E f : Turns(f, S, n)
<1> DEFINE Bad == {n \in Nat : ~\E f : Turns(f, S, n)}
<1>1. SUFFICES ASSUME Bad # {} PROVE FALSE
  OBVIOUS
<1>2. PICK n \in Bad : \A m \in Bad : n <= m
  <2>1. Bad \in SUBSET Nat
    OBVIOUS
  <2> HIDE DEF Bad
  <2> QED BY <1>1, <2>1, LeastExists
<1>3. n \in Nat /\ ~\E f : Turns(f, S, n)
  OBVIOUS
<1>4. n # 0
  <2>1. SUFFICES ASSUME n = 0 PROVE Turns([k \in {0} |-> <<>>], S, n)
    BY <1>3
  <2>2. 0..n = {0}
    BY <2>1
  <2> QED BY <2>1, <2>2 DEF Turns
<1>5. PICK f : Turns(f, S, n - 1)
  <2>1. n - 1 \in Nat /\ ~(n <= n - 1)
    BY <1>3, <1>4
  <2>2. n - 1 \notin Bad
    <3> HIDE DEF Bad
    <3> QED BY <1>2, <2>1
  <2> QED BY <2>1, <2>2
<1> DEFINE g == [k \in 0..n |-> IF k = n THEN (IF n \in S THEN Append(f[n - 1], n) ELSE f[n - 1]) ELSE f[k]]
<1>6. ASSUME NEW k \in 0..n
      PROVE  g[k] = IF k = 0 THEN <<>> ELSE IF k \in S THEN Append(g[k - 1], k) ELSE g[k - 1]
  <2>1. CASE k = n
    <3>1. n - 1 \in 0..n /\ n - 1 # n /\ g[n - 1] = f[n - 1]
      BY <1>3, <1>4
    <3> QED BY <1>3, <1>4, <2>1, <3>1
  <2>2. CASE k # n
    <3>1. k \in 0..n-1 /\ g[k] = f[k]
      BY <1>3, <2>2
    <3>2. f[k] = IF k = 0 THEN <<>> ELSE IF k \in S THEN Append(f[k - 1], k) ELSE f[k - 1]
      BY <1>5, <3>1 DEF Turns
    <3>3. k # 0 => k - 1 \in 0..n /\ k - 1 # n /\ g[k - 1] = f[k - 1]
      BY <1>3, <3>1
    <3> HIDE DEF g
    <3> QED BY <3>1, <3>2, <3>3
  <2> QED BY <2>1, <2>2
<1>7. g = [k \in 0..n |-> g[k]]
  OBVIOUS
<1> HIDE DEF g
<1>8. Turns(g, S, n)
  BY <1>6, <1>7 DEF Turns
<1> QED BY <1>3, <1>8

\* s has the numbers of S in order, each once.
Lists(s, S) ==
  /\ s \in Seq(S)
  /\ \A a, b \in 1..Len(s) : a < b => s[a] < s[b]
  /\ \A k \in S : \E a \in 1..Len(s) : s[a] = k

\* A turn that pushes a number back which is greater than all before.
LEMMA ListsMore ==
  ASSUME NEW S \in SUBSET Nat, NEW s, Lists(s, S), NEW k \in Nat, \A l \in S : l < k
  PROVE  Lists(Append(s, k), S \cup {k})
<1> DEFINE T == S \cup {k}
           u == Append(s, k)
<1>1. s \in Seq(S) /\ Len(s) \in Nat /\ s \in Seq(T) /\ k \in T
  BY DEF Lists
<1>2. /\ u \in Seq(T) /\ Len(u) = Len(s) + 1 /\ u[Len(s) + 1] = k
      /\ \A a \in 1..Len(s) : u[a] = s[a]
  <2> HIDE DEF T
  <2> QED BY <1>1
<1>3. \A a \in 1..Len(s) : s[a] \in S
  BY <1>1
<1> HIDE DEF u
<1>4. ASSUME NEW a \in 1..Len(u), NEW b \in 1..Len(u), a < b PROVE u[a] < u[b]
  <2>1. a \in 1..Len(s)
    BY <1>1, <1>2, <1>4
  <2>2. CASE b = Len(s) + 1
    BY <1>2, <1>3, <2>1, <2>2
  <2>3. CASE b # Len(s) + 1
    <3>1. b \in 1..Len(s)
      BY <1>1, <1>2, <2>3
    <3> QED BY <1>2, <1>4, <2>1, <3>1 DEF Lists
  <2> QED BY <2>2, <2>3
<1>5. ASSUME NEW l \in T PROVE \E a \in 1..Len(u) : u[a] = l
  <2>1. CASE l = k
    BY <1>1, <1>2, <2>1
  <2>2. CASE l \in S
    <3>1. PICK a \in 1..Len(s) : s[a] = l
      BY <2>2 DEF Lists
    <3> QED BY <1>1, <1>2, <3>1
  <2> QED BY <2>1, <2>2
<1> QED BY <1>2, <1>4, <1>5 DEF Lists, u

\* The loop lists the numbers.
LEMMA AscendingLists ==
  ASSUME NEW n \in Nat, NEW S \in SUBSET (1..n)
  PROVE  Lists(Ascending(S, n), S)
<1> DEFINE f == CHOOSE f : Turns(f, S, n)
           Upto(k) == S \cap (1..k)
           Bad == {k \in 0..n : ~Lists(f[k], Upto(k))}
<1>1. Turns(f, S, n)
  BY TurnsExist
<1>2. Ascending(S, n) = f[n]
  BY DEF Ascending, Turns
<1> HIDE DEF f
<1>3. Bad = {}
  <2> SUFFICES ASSUME Bad # {} PROVE FALSE
    OBVIOUS
  <2>1. PICK k \in Bad : \A m \in Bad : k <= m
    <3>1. Bad \in SUBSET Nat
      OBVIOUS
    <3> HIDE DEF Bad
    <3> QED BY <3>1, LeastExists
  <2>2. k \in 0..n /\ ~Lists(f[k], Upto(k))
    OBVIOUS
  <2>3. f[k] = IF k = 0 THEN <<>> ELSE IF k \in S THEN Append(f[k - 1], k) ELSE f[k - 1]
    BY <1>1, <2>2 DEF Turns
  <2>4. k # 0
    <3>1. SUFFICES ASSUME k = 0 PROVE Lists(<<>>, {})
      <4>1. Upto(0) = {}
        OBVIOUS
      <4> HIDE DEF Upto
      <4> QED BY <2>2, <2>3, <3>1, <4>1
    <3> QED BY DEF Lists
  <2>5. k - 1 \in 0..n /\ k - 1 \notin Bad
    <3>1. k - 1 \in 0..n /\ ~(k <= k - 1)
      BY <2>2, <2>4
    <3> HIDE DEF Bad
    <3> QED BY <2>1, <3>1
  <2>6. Lists(f[k - 1], Upto(k - 1))
    BY <2>5
  <2>7. CASE k \in S
    <3>1. Upto(k - 1) \cup {k} = Upto(k) /\ Upto(k - 1) \in SUBSET Nat /\ \A l \in Upto(k - 1) : l < k
      BY <2>2, <2>7
    <3> HIDE DEF Upto
    <3>2. Lists(Append(f[k - 1], k), Upto(k - 1) \cup {k})
      BY <2>2, <2>6, <3>1, ListsMore
    <3> QED BY <2>2, <2>3, <2>4, <2>7, <3>1, <3>2
  <2>8. CASE k \notin S
    <3>1. Upto(k - 1) = Upto(k)
      BY <2>2, <2>4, <2>8
    <3> HIDE DEF Upto
    <3> QED BY <2>2, <2>3, <2>4, <2>6, <2>8, <3>1
  <2> QED BY <2>7, <2>8
<1>4. Upto(n) = S /\ n \in 0..n
  <2>1. S \cap (1..n) = S
    OBVIOUS
  <2>2. n \in 0..n
    OBVIOUS
  <2> QED BY <2>1, <2>2
<1> HIDE DEF Upto
<1>5. Lists(f[n], Upto(n))
  BY <1>3, <1>4
<1> QED BY <1>2, <1>4, <1>5

\* compact's list: the ops that are left, in order.
LEMMA LiveLists ==
  ASSUME Types
  PROVE  \E s : /\ Lists(s, Left) /\ Len(Live) = Len(s) /\ Live \in Seq(OpRecord)
                /\ \A n \in 1..Len(s) : Live[n] = ops[s[n]]
<1> DEFINE s == Pick(DOMAIN ops \ dead)
<1>1. DOMAIN ops = 1..Len(ops) /\ Len(ops) \in Nat /\ ops \in Seq(OpRecord)
  BY DEF Types
<1>2. Lists(s, Left)
  <2>1. Left \in SUBSET (1..Len(ops))
    BY <1>1 DEF Left
  <2> QED BY <1>1, <2>1, AscendingLists DEF Pick, Left
<1>3. Live = [n \in DOMAIN s |-> ops[s[n]]]
  BY DEF Live
<1> HIDE DEF s
<1>4. s \in Seq(Left) /\ Len(s) \in Nat /\ DOMAIN s = 1..Len(s)
  BY <1>2 DEF Lists
<1>5. \A n \in 1..Len(s) : s[n] \in DOMAIN ops
  BY <1>4 DEF Left
<1>6. \A n \in 1..Len(s) : ops[s[n]] \in OpRecord
  BY <1>1, <1>5
<1> HIDE DEF OpRecord
<1>7. Live \in Seq(OpRecord) /\ Len(Live) = Len(s)
  BY <1>3, <1>4, <1>6
<1> QED BY <1>2, <1>3, <1>4, <1>7

\* The list that compact leaves can run, and computes the graph's output for nobody to read.
LEMMA LiveRuns ==
  ASSUME FusInv
  PROVE  /\ Live \in Seq(OpRecord) /\ WrittenOnce(Live) /\ InOrder(Live)
         /\ \A n \in DOMAIN Live : Sound(Live[n]) /\ Output \notin Reads(Live[n])
         /\ \E n \in DOMAIN Live : Output \in Writes(Live[n])
<1>1. PICK s : /\ Lists(s, Left) /\ Len(Live) = Len(s) /\ Live \in Seq(OpRecord)
               /\ \A n \in 1..Len(s) : Live[n] = ops[s[n]]
  BY LiveLists DEF FusInv
<1>2. DOMAIN Live = 1..Len(s) /\ Len(s) \in Nat /\ s \in Seq(Left) /\ \A n \in 1..Len(s) : s[n] \in Left
  BY <1>1 DEF Lists
<1>3. Left \subseteq DOMAIN ops /\ Left \subseteq Nat
  BY DEF FusInv, Types, Left
<1>4. WrittenOnce(Live)
  <2> SUFFICES ASSUME NEW k \in 1..Len(s), NEW l \in 1..Len(s), NEW p \in DOMAIN Live[k].out,
                      NEW q \in DOMAIN Live[l].out, Live[k].out[p] = Live[l].out[q]
               PROVE  k = l /\ p = q
    BY <1>2 DEF WrittenOnce
  <2>1. s[k] = s[l] /\ p = q
    BY <1>1, <1>2 DEF FusInv, LeftOnce
  <2>2. ~(k < l) /\ ~(l < k)
    BY <1>1, <1>2, <1>3, <2>1 DEF Lists
  <2> QED BY <2>1, <2>2
<1>5. InOrder(Live)
  <2> SUFFICES ASSUME NEW k \in 1..Len(s), NEW t \in Range(Live[k].in), t > 0
               PROVE  \E l \in 1..k-1 : t \in Range(Live[l].out)
    BY <1>2 DEF InOrder
  <2>1. PICK m \in Left : m < s[k] /\ t \in Writes(ops[m])
    BY <1>1, <1>2 DEF FusInv, LeftInOrder, Reads
  <2>2. PICK l \in 1..Len(s) : s[l] = m
    BY <1>1 DEF Lists
  <2>3. l # k /\ ~(k < l)
    BY <1>1, <1>2, <1>3, <2>1, <2>2 DEF Lists
  <2>4. l \in 1..k-1
    BY <1>2, <2>3
  <2> QED BY <1>1, <2>1, <2>2, <2>4 DEF Writes
<1>6. \A n \in DOMAIN Live : Sound(Live[n]) /\ Output \notin Reads(Live[n])
  <2> SUFFICES ASSUME NEW n \in 1..Len(s) PROVE Sound(ops[s[n]]) /\ Output \notin Reads(ops[s[n]])
    BY <1>1, <1>2
  <2>1. s[n] \in Left /\ s[n] \in DOMAIN ops
    BY <1>2, <1>3
  <2>2. ASSUME Output \in Reads(ops[s[n]]) PROVE FALSE
    <3>1. PICK l \in dead \cup {s[n]} : Output \in Reads(start[l])
      BY <2>1, <2>2 DEF FusInv, ReadBefore
    <3>2. l \in DOMAIN start
      BY <2>1 DEF FusInv, Types
    <3> QED BY <3>1, <3>2 DEF FusInv, Started
  <2> QED BY <2>1, <2>2 DEF FusInv, Walked
<1>7. \E n \in DOMAIN Live : Output \in Writes(Live[n])
  <2>1. PICK k \in Left : Output \in Writes(ops[k])
    BY DEF FusInv, OutputLeft
  <2>2. PICK n \in 1..Len(s) : s[n] = k
    BY <1>1 DEF Lists
  <2> QED BY <1>1, <1>2, <2>1, <2>2
<1> QED BY <1>1, <1>4, <1>5, <1>6, <1>7

\* compact leaves every op that uses what another computes.
LEMMA LiveUsed ==
  ASSUME FusInv, Used
  PROVE  \A k \in DOMAIN Live : \A t \in Writes(Live[k]) : t = Output \/ \E l \in DOMAIN Live : t \in Reads(Live[l])
<1>1. PICK s : /\ Lists(s, Left) /\ Len(Live) = Len(s) /\ Live \in Seq(OpRecord)
               /\ \A n \in 1..Len(s) : Live[n] = ops[s[n]]
  BY LiveLists DEF FusInv
<1>2. DOMAIN Live = 1..Len(s) /\ \A n \in 1..Len(s) : s[n] \in Left
  BY <1>1 DEF Lists
<1> SUFFICES ASSUME NEW k \in 1..Len(s), NEW t \in Writes(ops[s[k]]), t # Output
             PROVE  \E l \in 1..Len(s) : t \in Reads(ops[s[l]])
  BY <1>1, <1>2, SMTT(40)
<1>3. PICK m \in Left : t \in Reads(ops[m])
  BY <1>2 DEF Used
<1>4. PICK l \in 1..Len(s) : s[l] = m
  BY <1>1 DEF Lists
<1> QED BY <1>3, <1>4

-----------------------------------------------------------------------------
(* What a list computes                                                    *)

\* f is the value of every tensor after each of the first n ops of list.
RunsTo(f, list, n) ==
  f = [k \in 0..n |-> IF k = 0 THEN Leaves ELSE RunOp(f[k - 1], list[k])]

\* The recursive function of Meaning exists.
LEMMA RunsExist ==
  ASSUME NEW list
  PROVE  \A n \in Nat : \E f : RunsTo(f, list, n)
<1> DEFINE Bad == {n \in Nat : ~\E f : RunsTo(f, list, n)}
<1>1. SUFFICES ASSUME Bad # {} PROVE FALSE
  OBVIOUS
<1>2. PICK n \in Bad : \A m \in Bad : n <= m
  <2>1. Bad \in SUBSET Nat
    OBVIOUS
  <2> HIDE DEF Bad
  <2> QED BY <1>1, <2>1, LeastExists
<1>3. n \in Nat /\ ~\E f : RunsTo(f, list, n)
  OBVIOUS
<1>4. n # 0
  <2>1. SUFFICES ASSUME n = 0 PROVE RunsTo([k \in {0} |-> Leaves], list, n)
    BY <1>3
  <2>2. 0..n = {0}
    BY <2>1
  <2> QED BY <2>1, <2>2 DEF RunsTo
<1>5. PICK f : RunsTo(f, list, n - 1)
  <2>1. n - 1 \in Nat /\ ~(n <= n - 1)
    BY <1>3, <1>4
  <2>2. n - 1 \notin Bad
    <3> HIDE DEF Bad
    <3> QED BY <1>2, <2>1
  <2> QED BY <2>1, <2>2
<1> DEFINE g == [k \in 0..n |-> IF k = n THEN RunOp(f[n - 1], list[n]) ELSE f[k]]
<1>6. ASSUME NEW k \in 0..n
      PROVE  g[k] = IF k = 0 THEN Leaves ELSE RunOp(g[k - 1], list[k])
  <2>1. CASE k = n
    <3>1. n - 1 \in 0..n /\ n - 1 # n /\ g[n - 1] = f[n - 1] /\ g[n] = RunOp(f[n - 1], list[n])
      BY <1>3, <1>4
    <3> HIDE DEF g
    <3> QED BY <1>3, <1>4, <2>1, <3>1
  <2>2. CASE k # n
    <3>1. k \in 0..n-1 /\ g[k] = f[k]
      BY <1>3, <2>2
    <3>2. f[k] = IF k = 0 THEN Leaves ELSE RunOp(f[k - 1], list[k])
      BY <1>5, <3>1 DEF RunsTo
    <3>3. k # 0 => k - 1 \in 0..n /\ k - 1 # n /\ g[k - 1] = f[k - 1]
      BY <1>3, <3>1
    <3> HIDE DEF g
    <3> QED BY <3>1, <3>2, <3>3
  <2> QED BY <2>1, <2>2
<1>7. g = [k \in 0..n |-> g[k]]
  OBVIOUS
<1> HIDE DEF g
<1>8. RunsTo(g, list, n)
  BY <1>6, <1>7 DEF RunsTo
<1> QED BY <1>3, <1>8

\* A list that can run on the model's tensors.
Runnable(list) ==
  /\ list \in Seq(OpRecord) /\ WrittenOnce(list) /\ InOrder(list)
  /\ \A k \in DOMAIN list : Fits(list[k]) /\ Reads(list[k]) \cup Writes(list[k]) \subseteq Tensors

\* e is what a run knows after k ops.
Knows(e, list, k) ==
  /\ DOMAIN e = Tensors
  /\ \A t \in Tensors : (\A l \in 1..k : t \notin Writes(list[l])) => e[t] = Leaves[t]
  /\ \A l \in 1..k : Solves(e, list[l])

\* What an op's outputs are after it has run.
LEMMA RunOpWrites ==
  ASSUME NEW e, NEW o, NEW p \in DOMAIN o.out, o.out[p] \in DOMAIN e,
         \A q \in DOMAIN o.out : o.out[p] = o.out[q] => p = q
  PROVE  RunOp(e, o)[o.out[p]] = Values(o, [n \in DOMAIN o.in |-> e[o.in[n]]])[p]
<1> DEFINE new == Values(o, [n \in DOMAIN o.in |-> e[o.in[n]]])
<1>1. RunOp(e, o)[o.out[p]] = new[CHOOSE n \in DOMAIN o.out : o.out[n] = o.out[p]]
  <2> HIDE DEF new
  <2>1. RunOp(e, o) = [t \in DOMAIN e |-> IF \E n \in DOMAIN o.out : o.out[n] = t
                            THEN new[CHOOSE n \in DOMAIN o.out : o.out[n] = t] ELSE e[t]]
    BY DEF RunOp, new
  <2> QED BY <2>1
<1>2. (CHOOSE n \in DOMAIN o.out : o.out[n] = o.out[p]) = p
  OBVIOUS
<1> HIDE DEF new
<1>3. RunOp(e, o)[o.out[p]] = new[p]
  BY <1>1, <1>2
<1> QED BY <1>3 DEF new

\* The other tensors keep what they have.
LEMMA RunOpKeeps ==
  ASSUME NEW e, NEW o, NEW t \in DOMAIN e, t \notin Writes(o)
  PROVE  RunOp(e, o)[t] = e[t]
<1> DEFINE new == Values(o, [n \in DOMAIN o.in |-> e[o.in[n]]])
<1> HIDE DEF new
<1>1. RunOp(e, o) = [s \in DOMAIN e |-> IF \E n \in DOMAIN o.out : o.out[n] = s
                          THEN new[CHOOSE n \in DOMAIN o.out : o.out[n] = s] ELSE e[s]]
  BY DEF RunOp, new
<1>2. ~\E n \in DOMAIN o.out : o.out[n] = t
  BY DEF Writes, Range
<1> QED BY <1>1, <1>2

\* Two assignments that agree on what an op touches solve it alike.
LEMMA SolvesAlike ==
  ASSUME NEW u, NEW w, NEW o, \A t \in Reads(o) \cup Writes(o) : u[t] = w[t], Solves(u, o)
  PROVE  Solves(w, o)
<1>1. \A n \in DOMAIN o.in : u[o.in[n]] = w[o.in[n]]
  BY DEF Reads, Range
<1>2. [n \in DOMAIN o.in |-> u[o.in[n]]] = [n \in DOMAIN o.in |-> w[o.in[n]]]
  BY <1>1
<1>3. \A p \in DOMAIN o.out : u[o.out[p]] = w[o.out[p]]
  BY DEF Writes, Range
<1> QED BY <1>2, <1>3 DEF Solves

\* One more op of the run.
LEMMA RunKnowsMore ==
  ASSUME NEW list, Runnable(list), NEW k \in DOMAIN list, NEW e, Knows(e, list, k - 1)
  PROVE  Knows(RunOp(e, list[k]), list, k)
<1> DEFINE o == list[k]
           d == RunOp(e, o)
<1>1. DOMAIN list = 1..Len(list) /\ Len(list) \in Nat /\ k \in 1..Len(list) /\ o \in OpRecord
  BY DEF Runnable
<1>2. \A l \in 1..Len(list) : list[l] \in OpRecord
  BY DEF Runnable
<1>3. \A l \in 1..Len(list) : \A t \in Writes(list[l]) : t \in Nat \ {0} /\ t \in Tensors
  <2> SUFFICES ASSUME NEW l \in 1..Len(list), NEW t \in Writes(list[l]) PROVE t \in Nat \ {0}
    BY <1>1 DEF Runnable
  <2>1. list[l].out \in Seq(Nat \ {0})
    BY <1>2 DEF OpRecord
  <2> QED BY <2>1 DEF Writes, Range
<1>4. DOMAIN e = Tensors /\ DOMAIN d = Tensors
  BY DEF Knows, RunOp
<1>5. \A l \in 1..k-1 : \A t \in Writes(list[l]) : t \notin Writes(o)
  BY <1>1 DEF Runnable, WrittenOnce, Writes, Range
<1>6. \A l \in 1..k : \A t \in Reads(list[l]) : t \notin Writes(o)
  <2> SUFFICES ASSUME NEW l \in 1..k, NEW t \in Reads(list[l]), t \in Writes(o) PROVE FALSE
    OBVIOUS
  <2>1. t > 0 /\ l \in DOMAIN list
    BY <1>1, <1>3
  <2>2. PICK m \in 1..l-1 : t \in Writes(list[m])
    BY <2>1 DEF Runnable, InOrder, Reads, Writes
  <2> QED BY <1>1, <1>5, <2>2
<1>7. \A t \in Tensors : t \notin Writes(o) => d[t] = e[t]
  BY <1>4, RunOpKeeps
<1>8. ASSUME NEW t \in Tensors, \A l \in 1..k : t \notin Writes(list[l]) PROVE d[t] = Leaves[t]
  BY <1>1, <1>7, <1>8 DEF Knows
<1>9. ASSUME NEW l \in 1..k-1 PROVE Solves(d, list[l])
  <2>1. \A t \in Reads(list[l]) \cup Writes(list[l]) : e[t] = d[t]
    <3>1. l \in 1..k /\ l \in DOMAIN list
      BY <1>1
    <3>2. Reads(list[l]) \cup Writes(list[l]) \subseteq Tensors
      BY <3>1 DEF Runnable
    <3> HIDE DEF d
    <3> QED BY <1>5, <1>6, <1>7, <3>1, <3>2
  <2>2. Solves(e, list[l])
    BY DEF Knows
  <2> HIDE DEF d
  <2> QED BY <2>1, <2>2, SolvesAlike
<1>10. Solves(d, o)
  <2>1. \A n \in DOMAIN o.in : d[o.in[n]] = e[o.in[n]]
    <3>1. \A n \in DOMAIN o.in : o.in[n] \in Reads(o)
      BY DEF Reads, Range
    <3>2. Reads(o) \subseteq Tensors
      BY DEF Runnable
    <3>3. k \in 1..k
      BY <1>1
    <3> HIDE DEF d
    <3> QED BY <1>6, <1>7, <3>1, <3>2, <3>3
  <2>2. [n \in DOMAIN o.in |-> d[o.in[n]]] = [n \in DOMAIN o.in |-> e[o.in[n]]]
    <3> HIDE DEF d
    <3> QED BY <2>1
  <2>3. ASSUME NEW p \in DOMAIN o.out
        PROVE  d[o.out[p]] = Values(o, [n \in DOMAIN o.in |-> e[o.in[n]]])[p]
    <3>1. \A q \in DOMAIN o.out : o.out[p] = o.out[q] => p = q
      BY DEF Runnable, WrittenOnce
    <3>2. o.out[p] \in Tensors
      BY DEF Runnable, Writes, Range
    <3> HIDE DEF o
    <3> QED BY <1>4, <3>1, <3>2, RunOpWrites DEF d
  <2> HIDE DEF d, o
  <2> QED BY <2>2, <2>3 DEF Solves
<1>11. \A l \in 1..k : l \in 1..k-1 \/ l = k
  BY <1>1
<1> HIDE DEF d
<1>12. \A l \in 1..k : Solves(d, list[l])
  BY <1>9, <1>10, <1>11
<1>13. Knows(d, list, k)
  BY <1>4, <1>8, <1>12 DEF Knows
<1> QED BY <1>13 DEF d

\* The values that a run leaves solve every op, and the leaves are as they were.
LEMMA MeaningSolves ==
  ASSUME NEW list, Runnable(list)
  PROVE  /\ \A t \in Tensors : t <= 0 => Meaning(list)[t] = Leaves[t]
         /\ \A k \in DOMAIN list : Solves(Meaning(list), list[k])
<1> DEFINE n == Len(list)
           f == CHOOSE f : RunsTo(f, list, n)
           Bad == {k \in 0..n : ~Knows(f[k], list, k)}
<1>1. n \in Nat /\ DOMAIN list = 1..n
  BY DEF Runnable
<1> HIDE DEF n
<1>2. RunsTo(f, list, n)
  BY <1>1, RunsExist
<1>3. Meaning(list) = f[n]
  BY DEF Meaning, RunsTo, n
<1> HIDE DEF f
<1>4. Bad = {}
  <2> SUFFICES ASSUME Bad # {} PROVE FALSE
    OBVIOUS
  <2>1. PICK k \in Bad : \A m \in Bad : k <= m
    <3>1. Bad \in SUBSET Nat
      OBVIOUS
    <3> HIDE DEF Bad
    <3> QED BY <3>1, LeastExists
  <2>2. k \in 0..n /\ ~Knows(f[k], list, k)
    OBVIOUS
  <2>3. f[k] = IF k = 0 THEN Leaves ELSE RunOp(f[k - 1], list[k])
    BY <1>2, <2>2 DEF RunsTo
  <2>4. k # 0
    <3>1. SUFFICES ASSUME k = 0 PROVE Knows(Leaves, list, 0)
      BY <2>2, <2>3
    <3> QED BY DEF Knows, Leaves
  <2>5. k - 1 \in 0..n /\ k - 1 \notin Bad
    <3>1. k - 1 \in 0..n /\ ~(k <= k - 1)
      BY <1>1, <2>2, <2>4
    <3> HIDE DEF Bad
    <3> QED BY <2>1, <3>1
  <2>6. Knows(f[k - 1], list, k - 1)
    BY <2>5
  <2>7. k \in DOMAIN list
    BY <1>1, <2>2, <2>4
  <2>8. Knows(RunOp(f[k - 1], list[k]), list, k)
    <3> HIDE DEF Bad
    <3> QED BY <2>6, <2>7, RunKnowsMore
  <2> QED BY <2>2, <2>3, <2>4, <2>8
<1>5. Knows(f[n], list, n)
  BY <1>1, <1>4
<1>6. ASSUME NEW t \in Tensors, t <= 0 PROVE f[n][t] = Leaves[t]
  <2>1. ASSUME NEW l \in 1..n PROVE t \notin Writes(list[l])
    <3>1. list[l] \in OpRecord
      BY <1>1 DEF Runnable
    <3>2. list[l].out \in Seq(Nat \ {0})
      BY <3>1 DEF OpRecord
    <3> QED BY <1>6, <3>2 DEF Writes, Range
  <2> QED BY <1>5, <2>1 DEF Knows
<1> QED BY <1>1, <1>3, <1>5, <1>6 DEF Knows

\* A list that can run has one solution for each value of its leaves.
LEMMA SolutionUnique ==
  ASSUME NEW list, Runnable(list), NEW u, NEW w,
         \A t \in Tensors : t <= 0 => u[t] = w[t],
         \A k \in DOMAIN list : Solves(u, list[k]) /\ Solves(w, list[k])
  PROVE  \A k \in DOMAIN list : \A t \in Writes(list[k]) : u[t] = w[t]
<1> DEFINE Bad == {k \in DOMAIN list : \E t \in Writes(list[k]) : u[t] # w[t]}
<1> SUFFICES ASSUME Bad # {} PROVE FALSE
  OBVIOUS
<1>1. DOMAIN list = 1..Len(list) /\ Len(list) \in Nat
  BY DEF Runnable
<1>2. PICK k \in Bad : \A m \in Bad : k <= m
  <2>1. Bad \in SUBSET Nat
    BY <1>1
  <2> HIDE DEF Bad
  <2> QED BY <2>1, LeastExists
<1>3. k \in DOMAIN list
  OBVIOUS
<1>4. PICK t \in Writes(list[k]) : u[t] # w[t]
  OBVIOUS
<1>5. ASSUME NEW n \in DOMAIN list[k].in PROVE u[list[k].in[n]] = w[list[k].in[n]]
  <2>1. list[k].in[n] \in Tensors /\ list[k].in[n] \in Reads(list[k])
    BY <1>3 DEF Runnable, Reads, Range
  <2>2. list[k].in[n] \in Int
    <3>1. list[k] \in OpRecord
      BY <1>3 DEF Runnable
    <3>2. list[k].in \in Seq(Int)
      BY <3>1 DEF OpRecord
    <3> QED BY <3>2
  <2>3. CASE list[k].in[n] <= 0
    BY <2>1, <2>3
  <2>4. CASE list[k].in[n] > 0
    <3>1. PICK l \in 1..k-1 : list[k].in[n] \in Writes(list[l])
      BY <1>3, <2>1, <2>4 DEF Runnable, InOrder, Reads, Writes
    <3>2. l \in DOMAIN list /\ ~(k <= l)
      BY <1>1, <1>3
    <3>3. l \notin Bad
      <4> HIDE DEF Bad
      <4> QED BY <1>2, <3>2
    <3> QED BY <3>1, <3>2, <3>3
  <2> QED BY <2>2, <2>3, <2>4
<1>6. [n \in DOMAIN list[k].in |-> u[list[k].in[n]]] = [n \in DOMAIN list[k].in |-> w[list[k].in[n]]]
  BY <1>5
<1>7. PICK p \in DOMAIN list[k].out : t = list[k].out[p]
  BY DEF Writes, Range
<1> DEFINE U == [n \in DOMAIN list[k].in |-> u[list[k].in[n]]]
           W == [n \in DOMAIN list[k].in |-> w[list[k].in[n]]]
<1>8. u[list[k].out[p]] = Values(list[k], U)[p] /\ w[list[k].out[p]] = Values(list[k], W)[p]
  BY <1>3 DEF Solves
<1>9. U = W
  BY <1>6
<1> HIDE DEF U, W, Bad
<1> QED BY <1>4, <1>7, <1>8, <1>9

\* The model can run.
LEMMA ModelRuns ==
  ASSUME model \in Models
  PROVE  Runnable(model)
<1>1. \A k \in DOMAIN model : Reads(model[k]) \cup Writes(model[k]) \subseteq Tensors
  BY DEF Tensors, Reads, Writes
<1> QED BY <1>1, ModelsAreGraphs DEF Runnable, IsGraph

\* What is left can run.
LEMMA LiveRunnable ==
  ASSUME FusInv
  PROVE  Runnable(Live)
<1> QED BY LiveRuns DEF Runnable, Sound

\* The invariant gives the value of the output.
LEMMA LiveComputes ==
  ASSUME FusInv
  PROVE  ComputesTheSame
<1>1. Runnable(model) /\ Runnable(Live)
  BY ModelRuns, LiveRunnable DEF FusInv, Types
<1>2. \A t \in Tensors : t <= 0 => Meaning(Live)[t] = Meaning(model)[t]
  BY <1>1, MeaningSolves
<1>3. \A k \in DOMAIN Live : Solves(Meaning(Live), Live[k]) /\ Solves(Meaning(model), Live[k])
  BY <1>1, MeaningSolves, LiveRuns DEF Sound
<1>4. \A k \in DOMAIN Live : \A t \in Writes(Live[k]) : Meaning(Live)[t] = Meaning(model)[t]
  BY <1>1, <1>2, <1>3, SolutionUnique
<1>5. PICK n \in DOMAIN Live : Output \in Writes(Live[n])
  BY LiveRuns
<1> QED BY <1>4, <1>5 DEF ComputesTheSame

-----------------------------------------------------------------------------
(* The start of a pass                                                     *)

Fresh ==
  /\ model \in Models /\ pass \in 1..Rounds*Len(Passes)+1 /\ i = 1 /\ dead = {} /\ start = ops
  /\ Runnable(ops) /\ \A k \in DOMAIN ops : Sound(ops[k]) /\ Output \notin Reads(ops[k])
  /\ \E k \in DOMAIN ops : Output \in Writes(ops[k])

\* A pass starts in the invariant.
LEMMA FreshInv ==
  Fresh => FusInv
<1> SUFFICES ASSUME Fresh PROVE FusInv
  OBVIOUS
<1>1. ops \in Seq(OpRecord) /\ Left = DOMAIN ops /\ DOMAIN ops = 1..Len(ops) /\ Len(ops) \in Nat
  BY DEF Fresh, Runnable, Left
<1>2. Types
  BY <1>1 DEF Fresh, Types
<1>3. Started
  BY DEF Fresh, Started, Runnable
<1>4. Walked
  BY DEF Fresh, Walked
<1>5. LeftOnce
  BY <1>1 DEF Fresh, LeftOnce, Runnable, WrittenOnce
<1>6. LeftInOrder
  <2> SUFFICES ASSUME NEW k \in DOMAIN ops, NEW t \in Reads(ops[k]), t > 0
               PROVE  \E l \in DOMAIN ops : l < k /\ t \in Writes(ops[l])
    BY <1>1 DEF LeftInOrder
  <2>1. PICK l \in 1..k-1 : t \in Writes(ops[l])
    BY DEF Fresh, Runnable, InOrder, Reads, Writes
  <2> QED BY <1>1, <2>1
<1>7. ReadBefore
  BY DEF Fresh, ReadBefore
<1>8. OutputLeft
  BY <1>1 DEF Fresh, OutputLeft
<1> QED BY <1>2, <1>3, <1>4, <1>5, <1>6, <1>7, <1>8 DEF FusInv

\* The model is where the first pass starts.
LEMMA InitInv ==
  Init => FusInv
<1> SUFFICES ASSUME Init PROVE Fresh
  BY FreshInv
<1>1. ops = model /\ start = model /\ model \in Models /\ Runnable(model)
  BY ModelRuns DEF Init
<1>2. \A k \in DOMAIN model : Sound(model[k])
  BY <1>1, MeaningSolves DEF Sound, Runnable
<1> DEFINE n == Len(model)
<1>3. n \in Nat /\ n # 0 /\ DOMAIN model = 1..n /\ n \in DOMAIN model /\ model[n] \in OpRecord
  BY <1>1, ModelsAreGraphs DEF Runnable, IsGraph
<1>4. 1 \in DOMAIN model[n].out /\ Output = model[n].out[1] /\ Output \in Nat \ {0}
  <2>1. model[n].out \in Seq(Nat \ {0})
    BY <1>3 DEF OpRecord
  <2>2. Len(model[n].out) = 1
    BY <1>1, <1>3, ModelsAreGraphs DEF Fits, IsGraph
  <2> QED BY <2>1, <2>2 DEF Output
<1>5. Output \in Writes(model[n])
  BY <1>4 DEF Writes, Range
<1>6. ASSUME NEW k \in DOMAIN model, Output \in Reads(model[k]) PROVE FALSE
  <2> HIDE DEF n
  <2>1. PICK l \in 1..k-1 : Output \in Range(model[l].out)
    <3>1. InOrder(model) /\ Output \in Range(model[k].in) /\ Output > 0
      BY <1>1, <1>4, <1>6 DEF Runnable, Reads
    <3> QED BY <3>1 DEF InOrder
  <2>2. l \in DOMAIN model /\ l # n
    <3>1. k \in 1..n
      BY <1>3
    <3> QED BY <1>3, <3>1
  <2>3. PICK p \in DOMAIN model[l].out : model[l].out[p] = model[n].out[1]
    BY <1>4, <2>1 DEF Range
  <2> QED BY <1>1, <1>3, <1>4, <2>2, <2>3 DEF Runnable, WrittenOnce
<1>7. pass = 1 /\ i = 1 /\ dead = {} /\ 1 \in 1..Rounds*Len(Passes)+1
  BY DEF Init, Rounds, Passes
<1> QED BY <1>1, <1>2, <1>3, <1>5, <1>6, <1>7 DEF Fresh

\* What depends on the model alone.
LEMMA SameModel ==
  ASSUME model' = model
  PROVE  /\ Tensors' = Tensors /\ Output' = Output /\ Meaning(model)' = Meaning(model)
<1>1. Tensors' = Tensors /\ Output' = Output
  BY DEF Tensors, Output
<1>2. Leaves' = Leaves
  BY <1>1 DEF Leaves
<1>3. Meaning(model)' = Meaning(model)
  BY <1>2 DEF Meaning
<1> QED BY <1>1, <1>3

\* compact leaves a list that the next pass can start with.
LEMMA EndPassKeeps ==
  ASSUME FusInv, EndPass
  PROVE  FusInv' /\ (Used => Used')
<1>1. /\ model' = model /\ Tensors' = Tensors /\ Output' = Output
      /\ Meaning(model)' = Meaning(model)
  BY SameModel DEF EndPass
<1>2. ops' = Live /\ start' = Live /\ dead' = {} /\ i' = 1 /\ pass' = pass + 1
  BY DEF EndPass
<1>3. pass' \in 1..Rounds*Len(Passes)+1 /\ model \in Models
  <2>1. pass \in 1..Rounds*Len(Passes)+1 /\ pass <= Rounds * Len(Passes) /\ Rounds * Len(Passes) = 8
    BY DEF FusInv, Types, EndPass, Rounds, Passes
  <2> QED BY <1>2, <2>1 DEF FusInv, Types, Rounds, Passes
<1>4. Runnable(ops)'
  <2>1. Runnable(Live)
    BY LiveRunnable
  <2>2. Runnable(ops)' <=> Runnable(Live)
    BY <1>1, <1>2 DEF Runnable
  <2> QED BY <2>1, <2>2
<1>5. \A k \in DOMAIN ops' : Sound(ops[k])' /\ Output' \notin Reads(ops'[k])
  BY <1>1, <1>2, LiveRuns DEF Sound
<1>6. \E k \in DOMAIN ops' : Output' \in Writes(ops'[k])
  BY <1>1, <1>2, LiveRuns
<1>7. Fresh'
  BY <1>1, <1>2, <1>3, <1>4, <1>5, <1>6 DEF Fresh
<1>8. FusInv'
  BY <1>7, FreshInv, PTL
<1>9. Used => Used'
  BY <1>1, <1>2, LiveUsed DEF Used, Left
<1> QED BY <1>8, <1>9

-----------------------------------------------------------------------------
(* A turn that rewrites op i and absorbs others                            *)

\* What the op that the pass puts at i may be when the ops of A are gone: it writes what they wrote, or
\* nobody else needs it; and it reads what they read, from ops that are left.
Absorbs(op, A) ==
  /\ A \subseteq Left \ {i} /\ i \in Left /\ \A k \in A : ops[k].type \in {"SILU", "MATMUL", "ROPE"}
  /\ op \in OpRecord /\ Sound(op) /\ Fused(op) /\ (PassName # "shared" => op.out = start[i].out)
  /\ \A p, q \in DOMAIN op.out : op.out[p] = op.out[q] => p = q
  /\ \A t \in Writes(op) : \E g \in A \cup {i} : t \in Writes(ops[g])
  /\ \A t \in Reads(op) : \E g \in A \cup {i} : t \in Reads(ops[g])
  /\ \A t \in Reads(op) : t > 0 => \E l \in Left \ A : l < i /\ t \in Writes(ops[l])
  /\ \A g \in A \cup {i} : \A t \in Writes(ops[g]) :
       \/ t \in Writes(op) /\ i <= g
       \/ t # Output /\ \A k \in Left \ (A \cup {i}) : t \notin Reads(ops[k])
  /\ \A g \in A \cup {i} : \A t \in Reads(ops[g]) :
       t \in Reads(op) \/ (t \notin Writes(op) /\ \E h \in A : t \in Writes(ops[h]))

\* Such a turn keeps the invariant.
LEMMA RewriteKeeps ==
  ASSUME FusInv, NEW op, NEW A, Absorbs(op, A), Rewrite(op, A)
  PROVE  FusInv' /\ (Used => Used')
<1>1. /\ ops' = [ops EXCEPT ![i] = op] /\ dead' = dead \cup A /\ i' = i + 1
      /\ model' = model /\ pass' = pass /\ start' = start
  BY DEF Rewrite
<1>2. /\ ops \in Seq(OpRecord) /\ op \in OpRecord /\ DOMAIN ops = 1..Len(ops) /\ Len(ops) \in Nat
      /\ i \in DOMAIN ops /\ A \subseteq DOMAIN ops \ {i} /\ A \subseteq Left \ {i} /\ i \in Left
  BY DEF FusInv, Types, Absorbs, Left
<1>3. /\ ops' \in Seq(OpRecord) /\ Len(ops') = Len(ops) /\ DOMAIN ops' = DOMAIN ops
      /\ ops'[i] = op /\ \A k \in DOMAIN ops : k # i => ops'[k] = ops[k]
  <2> HIDE DEF OpRecord
  <2> QED BY <1>1, <1>2
<1>4. Left' = Left \ A /\ Left \subseteq DOMAIN ops
  BY <1>1, <1>3 DEF Left
<1>5. Tensors' = Tensors /\ Output' = Output /\ Meaning(model)' = Meaning(model) /\ PassName' = PassName
  BY <1>1, SameModel DEF PassName
<1>6. Types'
  <2>1. dead' \subseteq DOMAIN ops'
    BY <1>1, <1>2, <1>3 DEF FusInv, Types
  <2>2. i' \in 1..Len(ops')+1
    BY <1>1, <1>2, <1>3
  <2> QED BY <1>1, <1>3, <2>1, <2>2 DEF FusInv, Types
<1>7. Started'
  BY <1>1, <1>5 DEF FusInv, Started
<1>8. Walked'
  <2>1. \A k \in DOMAIN ops' : Sound(ops[k])'
    <3>1. \A k \in DOMAIN ops : Sound(ops[k]) /\ Sound(op)
      BY DEF FusInv, Walked, Absorbs
    <3>2. \A k \in DOMAIN ops' : Sound(ops'[k])
      BY <1>3, <3>1
    <3> QED BY <1>5, <3>2 DEF Sound
  <2>2. \A k \in DOMAIN ops' : ops'[k] = start'[k] \/ (k < i' /\ Fused(ops'[k]))
    <3> SUFFICES ASSUME NEW k \in DOMAIN ops PROVE ops'[k] = start[k] \/ (k < i' /\ Fused(ops'[k]))
      BY <1>1, <1>3
    <3>1. CASE k = i
      BY <1>1, <1>2, <1>3, <3>1 DEF Absorbs
    <3>2. CASE k # i
      <4>1. ops[k] = start[k] \/ (k < i /\ Fused(ops[k]))
        BY DEF FusInv, Walked
      <4> QED BY <1>1, <1>2, <1>3, <3>2, <4>1
    <3> QED BY <3>1, <3>2
  <2>3. \A k \in dead' : ops'[k].type \in {"SILU", "MATMUL", "ROPE"}
    <3>1. \A k \in dead \cup A : k # i /\ k \in DOMAIN ops
      BY <1>2 DEF FusInv, Types, Left
    <3>2. \A k \in dead \cup A : ops[k].type \in {"SILU", "MATMUL", "ROPE"}
      BY DEF FusInv, Walked, Absorbs
    <3> QED BY <1>1, <1>3, <3>1, <3>2
  <2>4. PassName' # "shared" => \A k \in DOMAIN ops' : ops'[k].out = start'[k].out
    BY <1>1, <1>2, <1>3, <1>5 DEF FusInv, Walked, Absorbs
  <2> QED BY <2>1, <2>2, <2>3, <2>4 DEF Walked
<1>9. ASSUME NEW k \in Left \ A, NEW t \in Writes(ops'[k])
      PROVE  \E g \in IF k = i THEN A \cup {i} ELSE {k} : t \in Writes(ops[g])
  BY <1>3, <1>4 DEF Absorbs
<1>10. ASSUME NEW k \in Left, NEW l \in Left, NEW t \in Writes(ops[k]), t \in Writes(ops[l]) PROVE k = l
  BY <1>10 DEF FusInv, LeftOnce, Writes, Range
<1>11. LeftOnce'
  <2> SUFFICES ASSUME NEW k \in Left \ A, NEW l \in Left \ A,
                      NEW p \in DOMAIN ops'[k].out, NEW q \in DOMAIN ops'[l].out, ops'[k].out[p] = ops'[l].out[q]
               PROVE  k = l /\ p = q
    BY <1>4 DEF LeftOnce
  <2>1. ops'[k].out[p] \in Writes(ops'[k]) /\ ops'[k].out[p] \in Writes(ops'[l])
    BY DEF Writes, Range
  <2>2. PICK g \in IF k = i THEN A \cup {i} ELSE {k} : ops'[k].out[p] \in Writes(ops[g])
    BY <1>9, <2>1
  <2>3. PICK h \in IF l = i THEN A \cup {i} ELSE {l} : ops'[k].out[p] \in Writes(ops[h])
    BY <1>9, <2>1
  <2>4. g = h
    BY <1>2, <1>10, <2>2, <2>3
  <2>5. k = l
    BY <1>2, <2>4
  <2>6. CASE k = i
    BY <1>3, <2>5, <2>6 DEF Absorbs
  <2>7. CASE k # i
    BY <1>3, <1>4, <2>5, <2>7 DEF FusInv, LeftOnce
  <2> QED BY <2>5, <2>6, <2>7
<1>12. LeftInOrder'
  <2> SUFFICES ASSUME NEW k \in Left \ A, NEW t \in Reads(ops'[k]), t > 0
               PROVE  \E l \in Left \ A : l < k /\ t \in Writes(ops'[l])
    BY <1>4 DEF LeftInOrder
  <2>1. CASE k = i
    <3>1. PICK l \in Left \ A : l < i /\ t \in Writes(ops[l])
      BY <1>3, <2>1 DEF Absorbs
    <3> QED BY <1>2, <1>3, <1>4, <2>1, <3>1
  <2>2. CASE k # i
    <3>1. t \in Reads(ops[k])
      BY <1>3, <1>4, <2>2
    <3>2. PICK l \in Left : l < k /\ t \in Writes(ops[l])
      BY <3>1 DEF FusInv, LeftInOrder
    <3>3. CASE l \in A \cup {i}
      <4>1. t \in Writes(op) /\ i <= l
        BY <2>2, <3>1, <3>2, <3>3 DEF Absorbs
      <4>2. i < k /\ i \in Left \ A
        BY <1>2, <1>4, <3>2, <4>1
      <4> QED BY <1>3, <4>1, <4>2
    <3>4. CASE l \notin A \cup {i}
      BY <1>3, <1>4, <3>2, <3>4
    <3> QED BY <3>3, <3>4
  <2> QED BY <2>1, <2>2
<1>13. ReadBefore'
  <2> SUFFICES ASSUME NEW k \in Left \ A, NEW t \in Reads(ops'[k])
               PROVE  \E l \in dead \cup A \cup {k} : t \in Reads(start[l])
    BY <1>1, <1>4 DEF ReadBefore
  <2>1. PICK g \in IF k = i THEN A \cup {i} ELSE {k} : t \in Reads(ops[g])
    BY <1>3, <1>4 DEF Absorbs
  <2>2. PICK l \in dead \cup {g} : t \in Reads(start[l])
    BY <1>2, <2>1 DEF FusInv, ReadBefore
  <2> QED BY <2>2
<1>14. OutputLeft'
  <2> SUFFICES \E k \in Left \ A : Output \in Writes(ops'[k])
    BY <1>4, <1>5 DEF OutputLeft
  <2>1. PICK k \in Left : Output \in Writes(ops[k])
    BY DEF FusInv, OutputLeft
  <2>2. CASE k \in A \cup {i}
    <3>1. Output \in Writes(op)
      BY <2>1, <2>2 DEF Absorbs
    <3> QED BY <1>2, <1>3, <3>1
  <2>3. CASE k \notin A \cup {i}
    BY <1>3, <1>4, <2>1, <2>3
  <2> QED BY <2>2, <2>3
<1>15. ASSUME Used PROVE Used'
  <2> SUFFICES ASSUME NEW k \in Left \ A, NEW t \in Writes(ops'[k]), t # Output
               PROVE  \E l \in Left \ A : t \in Reads(ops'[l])
    BY <1>4, <1>5 DEF Used
  <2>1. PICK g \in IF k = i THEN A \cup {i} ELSE {k} : t \in Writes(ops[g])
    BY <1>9
  <2>2. g \in Left
    BY <1>2, <2>1
  <2>3. PICK l \in Left : t \in Reads(ops[l])
    BY <1>15, <2>1, <2>2 DEF Used
  <2>4. CASE l \notin A \cup {i}
    BY <1>3, <1>4, <2>3, <2>4
  <2>5. CASE l \in A \cup {i} /\ t \in Reads(op)
    BY <1>2, <1>3, <2>5
  <2>6. CASE l \in A \cup {i} /\ t \notin Reads(op)
    <3>1. PICK h \in A : t \in Writes(ops[h]) /\ t \notin Writes(op)
      BY <2>3, <2>6 DEF Absorbs
    <3>2. h = g
      BY <1>2, <1>10, <2>1, <2>2, <3>1
    <3>3. k = i
      BY <2>1, <3>1, <3>2
    <3> QED BY <1>3, <1>2, <3>1, <3>3
  <2> QED BY <2>4, <2>5, <2>6
<1> QED BY <1>6, <1>7, <1>8, <1>11, <1>12, <1>13, <1>14, <1>15 DEF FusInv

\* A turn that finds nothing.
LEMMA SkipKeeps ==
  ASSUME FusInv, Skip
  PROVE  FusInv' /\ (Used => Used')
<1>1. i' = i + 1 /\ UNCHANGED <<model, ops, pass, start, dead>>
  BY DEF Skip
<1>2. i <= Len(ops) /\ i \in 1..Len(ops)+1 /\ Len(ops) \in Nat /\ DOMAIN ops = 1..Len(ops)
  BY DEF Skip, Walking, FusInv, Types
<1>3. i' \in 1..Len(ops)+1
  BY <1>1, <1>2
<1>4. Types'
  BY <1>1, <1>3 DEF FusInv, Types
<1>5. Tensors' = Tensors /\ Output' = Output /\ Meaning(model)' = Meaning(model) /\ PassName' = PassName
  BY <1>1, SameModel DEF PassName
<1>6. Walked'
  <2>1. \A k \in DOMAIN ops : Sound(ops[k])'
    BY <1>1, <1>5 DEF FusInv, Walked, Sound
  <2>2. \A k \in DOMAIN ops : ops[k] = start[k] \/ (k < i' /\ Fused(ops[k]))
    BY <1>1, <1>2 DEF FusInv, Walked
  <2> QED BY <1>1, <1>5, <2>1, <2>2 DEF FusInv, Walked
<1>7. Started' /\ LeftOnce' /\ LeftInOrder' /\ ReadBefore' /\ OutputLeft'
  BY <1>1, <1>5 DEF FusInv, Started, LeftOnce, LeftInOrder, ReadBefore, OutputLeft, Left
<1>8. Used => Used'
  BY <1>1, <1>5 DEF Used, Left
<1> QED BY <1>4, <1>6, <1>7, <1>8 DEF FusInv

-----------------------------------------------------------------------------
(* Producers and consumers                                                 *)

\* The places where a tensor is read are finitely many.
LEMMA ReadersFinite ==
  ASSUME Types, NEW t
  PROVE  IsFiniteSet(Readers(t))
<1> DEFINE Places(k) == {k} \X {n \in DOMAIN start[k].in : start[k].in[n] = t}
<1>1. DOMAIN start = 1..Len(start) /\ Len(start) \in Nat
  BY DEF Types
<1>2. IsFiniteSet(DOMAIN start)
  BY <1>1, FS_Interval
<1>3. ASSUME NEW k \in DOMAIN start PROVE IsFiniteSet(Places(k))
  <2>1. start[k].in \in Seq(Int)
    <3>1. start[k] \in OpRecord
      BY DEF Types
    <3> QED BY <3>1 DEF OpRecord
  <2>2. IsFiniteSet(1..Len(start[k].in))
    BY <2>1, FS_Interval
  <2>3. {n \in DOMAIN start[k].in : start[k].in[n] = t} \subseteq 1..Len(start[k].in)
    BY <2>1
  <2>4. IsFiniteSet({n \in DOMAIN start[k].in : start[k].in[n] = t})
    BY <2>2, <2>3, FS_Subset
  <2>5. IsFiniteSet({k})
    BY FS_Singleton
  <2> QED BY <2>4, <2>5, FS_Product
<1> HIDE DEF Places
<1>4. IsFiniteSet({Places(k) : k \in DOMAIN start})
  <2> DEFINE T == {Places(k) : k \in DOMAIN start}
             f == [k \in DOMAIN start |-> Places(k)]
  <2>1. f \in [DOMAIN start -> T]
    OBVIOUS
  <2>2. \A y \in T : \E k \in DOMAIN start : f[k] = y
    OBVIOUS
  <2> HIDE DEF f, T
  <2>3. f \in Surjection(DOMAIN start, T)
    BY <2>1, <2>2 DEF Surjection
  <2>4. IsFiniteSet(T)
    BY <1>2, <2>3, FS_Surjection
  <2> QED BY <2>4 DEF T
<1>5. IsFiniteSet(UNION {Places(k) : k \in DOMAIN start})
  BY <1>3, <1>4, FS_UNION
<1> QED BY <1>5 DEF Readers, Places

\* When a tensor has one consumer, which is left, no other op that is left reads it.
LEMMA OnlyReader ==
  ASSUME FusInv, NEW t, NEW m \in Left, OnlyConsumer(t, m)
  PROVE  /\ t # Output
         /\ \A k \in Left : t \in Reads(ops[k]) => k = m
         /\ \A n, o \in DOMAIN start[m].in : start[m].in[n] = t /\ start[m].in[o] = t => n = o
<1>1. \E r : Readers(t) = {r}
  <2>1. IsFiniteSet(Readers(t)) /\ Cardinality(Readers(t)) = 1
    BY ReadersFinite DEF FusInv, OnlyConsumer
  <2> QED BY <2>1, FS_Singleton
<1>2. PICK n \in DOMAIN start[m].in : m \in DOMAIN start /\ start[m].in[n] = t
  BY DEF OnlyConsumer, Readers
<1>3. \A k \in DOMAIN start : \A o \in DOMAIN start[k].in : start[k].in[o] = t => <<k, o>> \in Readers(t)
  BY DEF Readers
<1>4. \A k \in DOMAIN start : \A o \in DOMAIN start[k].in : start[k].in[o] = t => k = m /\ o = n
  BY <1>1, <1>2, <1>3
<1>5. t \in Reads(start[m])
  BY <1>2 DEF Reads, Range
<1>6. t # Output
  BY <1>2, <1>5 DEF FusInv, Started
<1>7. ASSUME NEW k \in Left, t \in Reads(ops[k]) PROVE k = m
  <2>1. PICK l \in dead \cup {k} : t \in Reads(start[l])
    BY <1>7 DEF FusInv, ReadBefore
  <2>2. l \in DOMAIN start
    BY <2>1 DEF FusInv, Types, Left
  <2>3. l = m
    BY <1>4, <2>1, <2>2 DEF Reads, Range
  <2> QED BY <2>1, <2>3 DEF Left
<1> QED BY <1>2, <1>4, <1>6, <1>7

\* A producer writes the tensor.
LEMMA ProducerWrites ==
  ASSUME FusInv, NEW t, Producer(t) > 0
  PROVE  Producer(t) \in DOMAIN start /\ t \in Writes(start[Producer(t)]) /\ t \in Nat \ {0}
<1> DEFINE P == {k \in DOMAIN start : \E j \in DOMAIN start[k].out : start[k].out[j] = t}
<1>1. Producer(t) = IF P = {} THEN 0 ELSE CHOOSE k \in P : \A l \in P : l <= k
  BY DEF Producer
<1>2. PICK k \in P : TRUE
  BY <1>1
<1>3. \A l \in P : l = k
  BY DEF FusInv, Started, WrittenOnce
<1>4. k \in Nat
  BY DEF FusInv, Types
<1>5. Producer(t) \in P
  <2>1. \A l \in P : l <= k
    BY <1>3, <1>4
  <2> HIDE DEF P
  <2>2. P # {} /\ (CHOOSE m \in P : \A l \in P : l <= m) \in P
    BY <1>2, <2>1
  <2> QED BY <1>1, <2>2
<1>6. start[Producer(t)].out \in Seq(Nat \ {0})
  <2>1. start[Producer(t)] \in OpRecord
    BY <1>5 DEF FusInv, Types
  <2> QED BY <2>1 DEF OpRecord
<1> QED BY <1>5, <1>6 DEF Writes, Range

\* Except in the pass that moves outputs, the producer of what an op reads is left and stands before it.
LEMMA ProducerLeft ==
  ASSUME FusInv, PassName # "shared", NEW k \in Left, NEW t \in Reads(ops[k]), Producer(t) > 0
  PROVE  /\ Producer(t) \in Left /\ Producer(t) < k /\ t \in Writes(ops[Producer(t)])
         /\ Producer(t) \in DOMAIN ops
<1>1. Producer(t) \in DOMAIN start /\ t \in Writes(start[Producer(t)]) /\ t > 0
  BY ProducerWrites
<1>2. PICK l \in Left : l < k /\ t \in Writes(ops[l])
  BY <1>1 DEF FusInv, LeftInOrder
<1>3. l \in DOMAIN ops /\ t \in Writes(start[l]) /\ DOMAIN start = DOMAIN ops
  BY <1>2 DEF FusInv, Types, Walked, Left, Writes
<1>4. l = Producer(t)
  BY <1>1, <1>3 DEF FusInv, Started, WrittenOnce, Writes, Range
<1> QED BY <1>2, <1>3, <1>4

\* An op that no pass makes is as it was when the pass began.
LEMMA NotRewritten ==
  ASSUME FusInv, NEW k \in DOMAIN ops, ~Fused(ops[k]) \/ k = i
  PROVE  ops[k] = start[k]
<1>1. i \in Nat
  BY DEF FusInv, Types
<1> QED BY <1>1 DEF FusInv, Walked

\* The op that the loop is at is left when no pass absorbs ops of its kind.
LEMMA IsLeft ==
  ASSUME FusInv, i <= Len(ops), ops[i].type \notin {"SILU", "MATMUL", "ROPE"}
  PROVE  i \in DOMAIN ops /\ i \in Left /\ i \in Nat /\ Left \subseteq DOMAIN ops
<1>1. i \in DOMAIN ops /\ i \in Nat
  BY DEF FusInv, Types
<1>2. i \notin dead
  BY DEF FusInv, Walked
<1> QED BY <1>1, <1>2 DEF Left

\* What an op of the list is.
LEMMA Shape ==
  ASSUME FusInv, NEW k \in DOMAIN ops
  PROVE  /\ ops[k] \in OpRecord /\ Fits(ops[k]) /\ Solves(Meaning(model), ops[k])
         /\ ops[k].in \in Seq(Int) /\ ops[k].out \in Seq(Nat \ {0}) /\ k \in Nat
         /\ Reads(ops[k]) \cup Writes(ops[k]) \subseteq Tensors
         /\ DOMAIN ops[k].in = 1..Len(ops[k].in) /\ DOMAIN ops[k].out = 1..Len(ops[k].out)
         /\ \A n \in DOMAIN ops[k].in : ops[k].in[n] \in Int
<1>1. ops[k] \in OpRecord /\ k \in Nat
  BY DEF FusInv, Types
<1>2. ops[k].in \in Seq(Int) /\ ops[k].out \in Seq(Nat \ {0})
  BY <1>1 DEF OpRecord
<1>3. Sound(ops[k])
  BY DEF FusInv, Walked
<1> QED BY <1>1, <1>2, <1>3 DEF Sound

\* An op with one operand.
LEMMA OneOperand ==
  ASSUME FusInv, NEW k \in DOMAIN ops, ops[k].type \in {"SILU", "ROPE"}
  PROVE  /\ DOMAIN ops[k].in = {1} /\ DOMAIN ops[k].out = {1} /\ Len(ops[k].out) = 1
         /\ Reads(ops[k]) = {ops[k].in[1]} /\ Writes(ops[k]) = {ops[k].out[1]}
         /\ Meaning(model)[ops[k].out[1]] = <<ops[k].type, <<Meaning(model)[ops[k].in[1]]>>>>
<1> DEFINE o == ops[k]
           u == Meaning(model)
           v == [n \in DOMAIN o.in |-> u[o.in[n]]]
<1>1. /\ Fits(o) /\ Solves(u, o) /\ DOMAIN o.in = 1..Len(o.in) /\ DOMAIN o.out = 1..Len(o.out)
      /\ o.type \in {"SILU", "ROPE"}
  BY Shape
<1> HIDE DEF o, u
<1>2. Len(o.in) = 1 /\ Len(o.out) = 1
  BY <1>1 DEF Fits
<1>3. DOMAIN o.in = {1} /\ DOMAIN o.out = {1}
  BY <1>1, <1>2
<1>4. Reads(o) = {o.in[1]} /\ Writes(o) = {o.out[1]}
  BY <1>3 DEF Reads, Writes, Range
<1>5. v = <<u[o.in[1]]>>
  BY <1>3
<1>6. u[o.out[1]] = Values(o, v)[1]
  BY <1>1, <1>3 DEF Solves
<1>7. Values(o, v) = <<<<o.type, v>>>>
  BY <1>1 DEF Values
<1>8. u[o.out[1]] = <<o.type, v>>
  <2> HIDE DEF v
  <2> QED BY <1>6, <1>7
<1>9. u[o.out[1]] = <<o.type, <<u[o.in[1]]>>>>
  BY <1>5, <1>8
<1> QED BY <1>2, <1>3, <1>4, <1>9 DEF o, u

\* An op with two operands.
LEMMA TwoOperands ==
  ASSUME FusInv, NEW k \in DOMAIN ops, ops[k].type \in {"MUL", "ADD", "MATMUL"}
  PROVE  /\ DOMAIN ops[k].in = {1, 2} /\ DOMAIN ops[k].out = {1} /\ Len(ops[k].out) = 1
         /\ Reads(ops[k]) = {ops[k].in[1], ops[k].in[2]} /\ Writes(ops[k]) = {ops[k].out[1]}
         /\ ops[k].type = "MATMUL" =>
              /\ ops[k].in[2] < 0
              /\ Meaning(model)[ops[k].out[1]]
                   = Matmul(Meaning(model)[ops[k].in[1]], Meaning(model)[ops[k].in[2]])
         /\ ops[k].type \in {"MUL", "ADD"} =>
              Meaning(model)[ops[k].out[1]]
                = Both(ops[k].type, Meaning(model)[ops[k].in[1]], Meaning(model)[ops[k].in[2]])
<1> DEFINE o == ops[k]
           u == Meaning(model)
           v == [n \in DOMAIN o.in |-> u[o.in[n]]]
<1>1. /\ Fits(o) /\ Solves(u, o) /\ DOMAIN o.in = 1..Len(o.in) /\ DOMAIN o.out = 1..Len(o.out)
      /\ o.type \in {"MUL", "ADD", "MATMUL"}
  BY Shape
<1> HIDE DEF o, u
<1>2. Len(o.in) = 2 /\ Len(o.out) = 1 /\ (o.type = "MATMUL" => o.in[2] < 0)
  BY <1>1 DEF Fits
<1>3. DOMAIN o.in = {1, 2} /\ DOMAIN o.out = {1}
  BY <1>1, <1>2
<1>4. Reads(o) = {o.in[1], o.in[2]} /\ Writes(o) = {o.out[1]}
  BY <1>3 DEF Reads, Writes, Range
<1>5. v = <<u[o.in[1]], u[o.in[2]]>> /\ v[1] = u[o.in[1]] /\ v[2] = u[o.in[2]]
  BY <1>3
<1>6. u[o.out[1]] = Values(o, v)[1]
  BY <1>1, <1>3 DEF Solves
<1>7. o.type = "MATMUL" => u[o.out[1]] = Matmul(u[o.in[1]], u[o.in[2]])
  <2>1. o.type = "MATMUL" => Values(o, v) = <<<<"MATMUL", v>>>>
    BY DEF Values
  <2> HIDE DEF v
  <2>2. o.type = "MATMUL" => u[o.out[1]] = <<"MATMUL", v>>
    BY <1>6, <2>1
  <2> QED BY <1>5, <2>2 DEF Matmul
<1>8. o.type \in {"MUL", "ADD"} => u[o.out[1]] = Both(o.type, u[o.in[1]], u[o.in[2]])
  <2>1. o.type \in {"MUL", "ADD"} => Values(o, v) = <<Both(o.type, v[1], v[2])>>
    BY DEF Values
  <2> HIDE DEF v
  <2> QED BY <1>5, <1>6, <2>1
<1> QED BY <1>2, <1>3, <1>4, <1>7, <1>8 DEF o, u

\* The tensors that an op with three operands reads, and their values.
LEMMA ThreeOperands ==
  ASSUME NEW o, NEW a, NEW b, NEW c, o.in = <<a, b, c>>, NEW u
  PROVE  /\ Reads(o) = {a, b, c} /\ Len(o.in) = 3
         /\ [n \in DOMAIN o.in |-> u[o.in[n]]] = <<u[a], u[b], u[c]>>
<1>1. DOMAIN o.in = {1, 2, 3} /\ o.in[1] = a /\ o.in[2] = b /\ o.in[3] = c /\ Len(o.in) = 3
  OBVIOUS
<1>2. Reads(o) = {a, b, c}
  BY <1>1 DEF Reads, Range
<1>3. [n \in DOMAIN o.in |-> u[o.in[n]]] = <<u[a], u[b], u[c]>>
  BY <1>1
<1> QED BY <1>1, <1>2, <1>3

\* An op that is given another type and other operands.
NewOp(o, type, in) == [o EXCEPT !.type = type, !.in = in]

\* It has these, and the outputs it had.
LEMMA NewOperands ==
  ASSUME NEW o \in OpRecord, NEW type \in OpTypes, NEW in \in Seq(Int), NEW op, op = NewOp(o, type, in)
  PROVE  op \in OpRecord /\ op.type = type /\ op.in = in /\ op.out = o.out /\ op.rope = o.rope
<1> HIDE DEF OpTypes
<1>1. o = [type |-> o.type, in |-> o.in, out |-> o.out, rope |-> o.rope]
  BY DEF OpRecord
<1>2. o.out \in Seq(Nat \ {0}) /\ o.rope \in BOOLEAN
  BY DEF OpRecord
<1>3. op.type = type /\ op.in = in /\ op.out = o.out /\ op.rope = o.rope
  BY <1>1 DEF NewOp
<1>4. op = [type |-> type, in |-> in, out |-> o.out, rope |-> o.rope]
  BY <1>1 DEF NewOp
<1> QED BY <1>2, <1>3, <1>4 DEF OpRecord

\* fuse_residual.
LEMMA ResidualAbsorbs ==
  ASSUME FusInv, NEW s \in 1..2, FuseResidual(s)
  PROVE  \E o, D : Absorbs(o, D) /\ Rewrite(o, D)
<1> DEFINE y == ops[i].in[s]
           z == ops[i].in[3 - s]
           m == Producer(y)
           x == ops[m].in[1]
           w == ops[m].in[2]
           op == [ops[i] EXCEPT !.type = "MATMUL_ADD", !.in = <<x, w, z>>]
           u == Meaning(model)
<1>1. /\ PassName = "residual" /\ ops[i].type = "ADD" /\ m > 0 /\ ops[m].type = "MATMUL"
      /\ OnlyConsumer(y, i) /\ Rewrite(op, {m}) /\ i <= Len(ops)
  BY DEF FuseResidual, Residual, Is, Walking
<1>2. i \in DOMAIN ops /\ i \in Left /\ i \in Nat /\ Left \subseteq DOMAIN ops
  BY <1>1, IsLeft
<1>3. /\ DOMAIN ops[i].in = {1, 2} /\ DOMAIN ops[i].out = {1} /\ Reads(ops[i]) = {y, z}
      /\ Writes(ops[i]) = {ops[i].out[1]} /\ u[ops[i].out[1]] = Both("ADD", u[y], u[z])
  <2>1. (s = 1 /\ 3 - s = 2) \/ (s = 2 /\ 3 - s = 1)
    OBVIOUS
  <2>2. /\ DOMAIN ops[i].in = {1, 2} /\ DOMAIN ops[i].out = {1}
        /\ Reads(ops[i]) = {ops[i].in[1], ops[i].in[2]} /\ Writes(ops[i]) = {ops[i].out[1]}
        /\ u[ops[i].out[1]] = Both("ADD", u[ops[i].in[1]], u[ops[i].in[2]])
    BY <1>1, <1>2, TwoOperands
  <2> HIDE DEF u
  <2> QED BY <2>1, <2>2 DEF Both
<1>4. m \in Left /\ m < i /\ y \in Writes(ops[m]) /\ m \in DOMAIN ops /\ m \in Nat
  <2>1. m \in Left /\ m < i /\ y \in Writes(ops[m]) /\ m \in DOMAIN ops
    BY <1>1, <1>2, <1>3, ProducerLeft
  <2> QED BY <2>1, Shape
<1>5. /\ Reads(ops[m]) = {x, w} /\ Writes(ops[m]) = {ops[m].out[1]} /\ w < 0
      /\ u[ops[m].out[1]] = Matmul(u[x], u[w])
  BY <1>1, <1>4, TwoOperands
<1>6. y = ops[m].out[1]
  BY <1>4, <1>5
<1>7. ops[i] = start[i]
  BY <1>2, NotRewritten
<1>8. y # Output /\ (\A k \in Left : y \in Reads(ops[k]) => k = i) /\ y # z
  <2>1. /\ y # Output /\ (\A k \in Left : y \in Reads(ops[k]) => k = i)
        /\ \A n, o \in DOMAIN start[i].in : start[i].in[n] = y /\ start[i].in[o] = y => n = o
    BY <1>1, <1>2, OnlyReader
  <2>2. s \in {1, 2} /\ 3 - s \in {1, 2} /\ s # 3 - s
    OBVIOUS
  <2> QED BY <1>3, <1>7, <2>1, <2>2
<1>9. ops[i] \in OpRecord /\ x \in Int /\ w \in Int /\ z \in Int
  <2>1. ops[i] \in OpRecord /\ ops[i].in \in Seq(Int) /\ ops[m].in \in Seq(Int)
    BY <1>2, <1>4, Shape
  <2>2. DOMAIN ops[m].in = {1, 2} /\ 3 - s \in {1, 2}
    BY <1>1, <1>4, TwoOperands
  <2>3. (\A n \in DOMAIN ops[i].in : ops[i].in[n] \in Int) /\ \A n \in DOMAIN ops[m].in : ops[m].in[n] \in Int
    BY <1>2, <1>4, Shape
  <2> QED BY <1>3, <2>1, <2>2, <2>3
<1>10. op \in OpRecord /\ op.type = "MATMUL_ADD" /\ op.in = <<x, w, z>> /\ op.out = ops[i].out
  <2>1. PICK o, in : o = ops[i] /\ in = <<x, w, z>>
    OBVIOUS
  <2>2. op = NewOp(o, "MATMUL_ADD", in)
    BY <2>1 DEF NewOp
  <2> HIDE DEF op, x, w, z
  <2>3. o \in OpRecord /\ in \in Seq(Int)
    BY <1>9, <2>1
  <2>4. "MATMUL_ADD" \in OpTypes
    BY DEF OpTypes
  <2>5. op \in OpRecord /\ op.type = "MATMUL_ADD" /\ op.in = in /\ op.out = o.out /\ op.rope = o.rope
    BY <2>2, <2>3, <2>4, NewOperands
  <2> QED BY <2>1, <2>5
<1>11. Reads(ops[i]) \cup Reads(ops[m]) \cup Writes(ops[i]) \subseteq Tensors
  BY <1>2, <1>4, Shape
<1> HIDE DEF op, x, w, z, y, m, u
<1>12. /\ Reads(op) = {x, w, z} /\ Len(op.in) = 3
       /\ [n \in DOMAIN op.in |-> u[op.in[n]]] = <<u[x], u[w], u[z]>>
  BY <1>10, ThreeOperands
<1>13. Writes(op) = Writes(ops[i]) /\ Len(op.out) = 1 /\ DOMAIN op.out = {1}
  BY <1>1, <1>2, <1>3, <1>10, TwoOperands DEF Writes
<1>14. Sound(op)
  <2>1. Fits(op)
    BY <1>10, <1>12, <1>13 DEF Fits
  <2>2. Values(op, <<u[x], u[w], u[z]>>) = <<Both("ADD", u[z], Matmul(u[x], u[w]))>>
    BY <1>10 DEF Values
  <2>3. u[op.out[1]] = Both("ADD", u[z], Matmul(u[x], u[w]))
    BY <1>3, <1>5, <1>6, <1>10 DEF Both
  <2>4. Solves(u, op)
    BY <1>12, <1>13, <2>2, <2>3 DEF Solves
  <2>5. Reads(op) \cup Writes(op) \subseteq Tensors
    BY <1>3, <1>5, <1>11, <1>12, <1>13
  <2> QED BY <2>1, <2>4, <2>5 DEF Sound, u
<1>15. ASSUME NEW t \in Reads(op), t > 0 PROVE \E l \in Left \ {m} : l < i /\ t \in Writes(ops[l])
  <2>1. CASE t = x
    <3>1. PICK l \in Left : l < m /\ t \in Writes(ops[l])
      BY <1>4, <1>5, <1>15, <2>1 DEF FusInv, LeftInOrder
    <3>2. l \in Nat
      BY <1>2, Shape
    <3> QED BY <1>2, <1>4, <3>1, <3>2
  <2>2. CASE t = z
    <3>1. PICK l \in Left : l < i /\ t \in Writes(ops[l])
      BY <1>2, <1>3, <1>15, <2>2 DEF FusInv, LeftInOrder
    <3>2. l # m
      BY <1>5, <1>6, <1>8, <2>2, <3>1
    <3> QED BY <3>1, <3>2
  <2> QED BY <1>5, <1>9, <1>12, <1>15, <2>1, <2>2
<1>16. \A g, h \in Left : \A t \in Writes(ops[g]) : t \in Writes(ops[h]) => g = h
  BY DEF FusInv, LeftOnce, Writes, Range
<1>17. Absorbs(op, {m})
  <2>1. {m} \subseteq Left \ {i} /\ \A k \in {m} : ops[k].type \in {"SILU", "MATMUL", "ROPE"}
    BY <1>1, <1>2, <1>4
  <2>2. Fused(op) /\ op.out = start[i].out
    BY <1>7, <1>10 DEF Fused
  <2>3. \A t \in Reads(op) : \E g \in {m} \cup {i} : t \in Reads(ops[g])
    BY <1>3, <1>5, <1>12
  <2>4. \A g \in {m} \cup {i} : \A t \in Writes(ops[g]) :
          \/ t \in Writes(op) /\ i <= g
          \/ t # Output /\ \A k \in Left \ ({m} \cup {i}) : t \notin Reads(ops[k])
    BY <1>2, <1>5, <1>6, <1>8, <1>13
  <2>5. \A g \in {m} \cup {i} : \A t \in Reads(ops[g]) :
          t \in Reads(op) \/ (t \notin Writes(op) /\ \E h \in {m} : t \in Writes(ops[h]))
    BY <1>2, <1>3, <1>4, <1>5, <1>12, <1>13, <1>16
  <2> QED BY <1>2, <1>10, <1>13, <1>14, <1>15, <2>1, <2>2, <2>3, <2>4, <2>5 DEF Absorbs
<1> QED BY <1>1, <1>17

\* fuse_swiglu.
LEMMA SwigluAbsorbs ==
  ASSUME FusInv, NEW s \in 1..2, FuseSwiglu(s)
  PROVE  \E o, D : Absorbs(o, D) /\ Rewrite(o, D)
<1> DEFINE a == ops[i].in[s]
           b == ops[i].in[3 - s]
           si == Producer(a)
           ui == Producer(b)
           c == ops[si].in[1]
           gi == Producer(c)
           x == ops[gi].in[1]
           wg == ops[gi].in[2]
           wu == ops[ui].in[2]
           A == {si, ui, gi}
           op == [ops[i] EXCEPT !.type = "FFN_SWIGLU", !.in = <<x, wg, wu>>]
           u == Meaning(model)
<1>1. /\ PassName = "swiglu" /\ ops[i].type = "MUL" /\ si > 0 /\ ops[si].type = "SILU"
      /\ ui > 0 /\ ops[ui].type = "MATMUL" /\ gi > 0 /\ ops[gi].type = "MATMUL" /\ x = ops[ui].in[1]
      /\ OnlyConsumer(a, i) /\ OnlyConsumer(b, i) /\ OnlyConsumer(c, si) /\ Rewrite(op, A) /\ i <= Len(ops)
  BY DEF FuseSwiglu, Swiglu, Is, Walking
<1>2. i \in DOMAIN ops /\ i \in Left /\ i \in Nat /\ Left \subseteq DOMAIN ops
  BY <1>1, IsLeft
<1>3. /\ Reads(ops[i]) = {a, b} /\ DOMAIN ops[i].out = {1} /\ Len(ops[i].out) = 1
      /\ Writes(ops[i]) = {ops[i].out[1]} /\ u[ops[i].out[1]] = Both("MUL", u[a], u[b])
  <2>1. (s = 1 /\ 3 - s = 2) \/ (s = 2 /\ 3 - s = 1)
    OBVIOUS
  <2>2. /\ DOMAIN ops[i].in = {1, 2} /\ DOMAIN ops[i].out = {1} /\ Len(ops[i].out) = 1
        /\ Reads(ops[i]) = {ops[i].in[1], ops[i].in[2]} /\ Writes(ops[i]) = {ops[i].out[1]}
        /\ u[ops[i].out[1]] = Both("MUL", u[ops[i].in[1]], u[ops[i].in[2]])
    BY <1>1, <1>2, TwoOperands
  <2> HIDE DEF u
  <2> QED BY <2>1, <2>2 DEF Both
<1>4. si \in Left /\ si < i /\ a \in Writes(ops[si]) /\ si \in DOMAIN ops
  BY <1>1, <1>2, <1>3, ProducerLeft
<1>5. ui \in Left /\ ui < i /\ b \in Writes(ops[ui]) /\ ui \in DOMAIN ops
  BY <1>1, <1>2, <1>3, ProducerLeft
<1>6. /\ Reads(ops[si]) = {c} /\ Writes(ops[si]) = {ops[si].out[1]}
      /\ u[ops[si].out[1]] = <<"SILU", <<u[c]>>>>
  BY <1>1, <1>4, OneOperand
<1>7. gi \in Left /\ gi < si /\ c \in Writes(ops[gi]) /\ gi \in DOMAIN ops
  BY <1>1, <1>4, <1>6, ProducerLeft
<1>8. /\ Reads(ops[gi]) = {x, wg} /\ Writes(ops[gi]) = {ops[gi].out[1]} /\ wg < 0
      /\ u[ops[gi].out[1]] = Matmul(u[x], u[wg])
  BY <1>1, <1>7, TwoOperands
<1>9. /\ Reads(ops[ui]) = {x, wu} /\ Writes(ops[ui]) = {ops[ui].out[1]} /\ wu < 0
      /\ u[ops[ui].out[1]] = Matmul(u[x], u[wu])
  BY <1>1, <1>5, TwoOperands
<1>10. a = ops[si].out[1] /\ b = ops[ui].out[1] /\ c = ops[gi].out[1]
  BY <1>4, <1>5, <1>6, <1>7, <1>8, <1>9
<1>11. ops[i] = start[i]
  BY <1>2, NotRewritten
<1>12. a # Output /\ \A k \in Left : a \in Reads(ops[k]) => k = i
  BY <1>1, <1>2, OnlyReader
<1>13. b # Output /\ \A k \in Left : b \in Reads(ops[k]) => k = i
  BY <1>1, <1>2, OnlyReader
<1>14. c # Output /\ \A k \in Left : c \in Reads(ops[k]) => k = si
  BY <1>1, <1>4, OnlyReader
<1>15. ops[i] \in OpRecord /\ x \in Int /\ wg \in Int /\ wu \in Int
  <2>1. DOMAIN ops[gi].in = {1, 2} /\ DOMAIN ops[ui].in = {1, 2}
    BY <1>1, <1>5, <1>7, TwoOperands
  <2>2. (\A n \in DOMAIN ops[gi].in : ops[gi].in[n] \in Int) /\ \A n \in DOMAIN ops[ui].in : ops[ui].in[n] \in Int
    BY <1>5, <1>7, Shape
  <2>3. ops[i] \in OpRecord
    BY <1>2, Shape
  <2> QED BY <2>1, <2>2, <2>3
<1>16. op \in OpRecord /\ op.type = "FFN_SWIGLU" /\ op.in = <<x, wg, wu>> /\ op.out = ops[i].out
  <2>1. PICK o, in : o = ops[i] /\ in = <<x, wg, wu>>
    OBVIOUS
  <2>2. op = NewOp(o, "FFN_SWIGLU", in)
    BY <2>1 DEF NewOp
  <2> HIDE DEF op, x, wg, wu
  <2>3. o \in OpRecord /\ in \in Seq(Int)
    BY <1>15, <2>1
  <2>4. "FFN_SWIGLU" \in OpTypes
    BY DEF OpTypes
  <2>5. op \in OpRecord /\ op.type = "FFN_SWIGLU" /\ op.in = in /\ op.out = o.out /\ op.rope = o.rope
    BY <2>2, <2>3, <2>4, NewOperands
  <2> QED BY <2>1, <2>5
<1>17. Reads(ops[ui]) \cup Reads(ops[gi]) \cup Writes(ops[i]) \subseteq Tensors
  BY <1>2, <1>5, <1>7, Shape
<1>18. si \in Nat /\ ui \in Nat /\ gi \in Nat /\ \A l \in Left : l \in Nat
  BY <1>2, <1>4, <1>5, <1>7, Shape
<1> HIDE DEF op, x, wg, wu, a, b, c, si, ui, gi, u
<1>19. /\ Reads(op) = {x, wg, wu} /\ Len(op.in) = 3
       /\ [n \in DOMAIN op.in |-> u[op.in[n]]] = <<u[x], u[wg], u[wu]>>
  BY <1>16, ThreeOperands
<1>20. Writes(op) = Writes(ops[i]) /\ Len(op.out) = 1 /\ DOMAIN op.out = {1}
  BY <1>3, <1>16 DEF Writes
<1>21. Sound(op)
  <2>1. Fits(op)
    BY <1>16, <1>19, <1>20 DEF Fits
  <2>2. Values(op, <<u[x], u[wg], u[wu]>>)
          = <<Both("MUL", <<"SILU", <<Matmul(u[x], u[wg])>>>>, Matmul(u[x], u[wu]))>>
    BY <1>16 DEF Values
  <2>3. u[op.out[1]] = Both("MUL", <<"SILU", <<Matmul(u[x], u[wg])>>>>, Matmul(u[x], u[wu]))
    BY <1>3, <1>6, <1>8, <1>9, <1>10, <1>16
  <2>4. Solves(u, op)
    BY <1>19, <1>20, <2>2, <2>3 DEF Solves
  <2>5. Reads(op) \cup Writes(op) \subseteq Tensors
    BY <1>8, <1>9, <1>17, <1>19, <1>20
  <2> QED BY <2>1, <2>4, <2>5 DEF Sound, u
<1>22. ASSUME NEW t \in Reads(op), t > 0 PROVE \E l \in Left \ A : l < i /\ t \in Writes(ops[l])
  <2>1. t = x
    BY <1>8, <1>9, <1>15, <1>19, <1>22
  <2>2. PICK l \in Left : l < gi /\ t \in Writes(ops[l])
    BY <1>7, <1>8, <1>22, <2>1 DEF FusInv, LeftInOrder
  <2>3. l # si /\ l # gi /\ l < i /\ gi # i
    BY <1>2, <1>4, <1>7, <1>18, <2>2
  <2>4. l # ui
    BY <1>7, <1>8, <1>9, <1>10, <1>13, <2>1, <2>2, <2>3
  <2> QED BY <2>2, <2>3, <2>4
<1>23. Absorbs(op, A)
  <2>1. A \subseteq Left \ {i} /\ \A k \in A : ops[k].type \in {"SILU", "MATMUL", "ROPE"}
    BY <1>1, <1>2, <1>4, <1>5, <1>7, <1>18
  <2>2. Fused(op) /\ op.out = start[i].out
    BY <1>11, <1>16 DEF Fused
  <2>3. \A t \in Reads(op) : \E g \in A \cup {i} : t \in Reads(ops[g])
    BY <1>8, <1>9, <1>19
  <2>4. \A g \in A \cup {i} : \A t \in Writes(ops[g]) :
          \/ t \in Writes(op) /\ i <= g
          \/ t # Output /\ \A k \in Left \ (A \cup {i}) : t \notin Reads(ops[k])
    BY <1>2, <1>6, <1>8, <1>9, <1>10, <1>12, <1>13, <1>14, <1>20
  <2>5. \A p, q \in DOMAIN op.out : op.out[p] = op.out[q] => p = q
    BY <1>20
  <2>6. \A t \in Writes(op) : \E g \in A \cup {i} : t \in Writes(ops[g])
    BY <1>20
  <2>7. \A g, h \in Left : \A t \in Writes(ops[g]) : t \in Writes(ops[h]) => g = h
    BY DEF FusInv, LeftOnce, Writes, Range
  <2>8. a \notin Writes(op) /\ b \notin Writes(op) /\ c \notin Writes(op)
    BY <1>2, <1>4, <1>5, <1>7, <1>18, <1>20, <2>7
  <2>9. \A g \in A \cup {i} : \A t \in Reads(ops[g]) :
          t \in Reads(op) \/ (t \notin Writes(op) /\ \E h \in A : t \in Writes(ops[h]))
    BY <1>3, <1>4, <1>5, <1>6, <1>7, <1>8, <1>9, <1>19, <2>8
  <2> HIDE DEF A
  <2> QED BY <1>2, <1>16, <1>21, <1>22, <2>1, <2>2, <2>3, <2>4, <2>5, <2>6, <2>9 DEF Absorbs
<1> QED BY <1>1, <1>23

\* fuse_rope_attention.
LEMMA RopeAbsorbs ==
  ASSUME FusInv, FuseRope
  PROVE  \E o, D : Absorbs(o, D) /\ Rewrite(o, D)
<1> DEFINE a == ops[i].in[1]
           b == ops[i].in[2]
           c == ops[i].in[3]
           qi == Producer(a)
           ki == Producer(b)
           x == ops[qi].in[1]
           y == ops[ki].in[1]
           A == {qi, ki}
           op == [ops[i] EXCEPT !.in = <<x, y, @[3]>>, !.rope = TRUE]
           u == Meaning(model)
<1>1. /\ PassName = "rope" /\ ops[i].type = "ATTENTION" /\ ~ops[i].rope
      /\ qi > 0 /\ ops[qi].type = "ROPE" /\ ki > 0 /\ ops[ki].type = "ROPE"
      /\ OnlyConsumer(a, i) /\ OnlyConsumer(b, i) /\ Rewrite(op, A) /\ i <= Len(ops)
  <2>1. Walking("rope") /\ Rope
    BY DEF FuseRope
  <2>2. Rewrite(op, A)
    BY DEF FuseRope
  <2>3. ops[i].type = "ATTENTION" /\ ~ops[i].rope
    BY <2>1 DEF Rope, Is
  <2>4. Is(Producer(ops[i].in[1]), "ROPE") /\ OnlyConsumer(ops[i].in[1], i)
    BY <2>1 DEF Rope
  <2>5. Is(Producer(ops[i].in[2]), "ROPE") /\ OnlyConsumer(ops[i].in[2], i)
    BY <2>1 DEF Rope
  <2> QED BY <2>1, <2>2, <2>3, <2>4, <2>5 DEF Walking, Is
<1>2. i \in DOMAIN ops /\ i \in Left /\ i \in Nat /\ Left \subseteq DOMAIN ops
  BY <1>1, IsLeft
<1>3. /\ ops[i] \in OpRecord /\ DOMAIN ops[i].in = {1, 2, 3} /\ Reads(ops[i]) = {a, b, c}
      /\ DOMAIN ops[i].out = {1} /\ Len(ops[i].out) = 1 /\ Writes(ops[i]) = {ops[i].out[1]}
      /\ a \in Int /\ b \in Int /\ c \in Int /\ Reads(ops[i]) \cup Writes(ops[i]) \subseteq Tensors
      /\ Solves(u, ops[i])
  <2>1. /\ ops[i] \in OpRecord /\ Fits(ops[i]) /\ Solves(u, ops[i])
        /\ DOMAIN ops[i].in = 1..Len(ops[i].in) /\ DOMAIN ops[i].out = 1..Len(ops[i].out)
        /\ \A n \in DOMAIN ops[i].in : ops[i].in[n] \in Int
        /\ Reads(ops[i]) \cup Writes(ops[i]) \subseteq Tensors
    BY <1>2, Shape
  <2> HIDE DEF u
  <2>2. Len(ops[i].in) = 3 /\ Len(ops[i].out) = 1
    BY <1>1, <2>1 DEF Fits
  <2>3. DOMAIN ops[i].in = {1, 2, 3} /\ DOMAIN ops[i].out = {1}
    BY <2>1, <2>2
  <2>4. Reads(ops[i]) = {a, b, c} /\ Writes(ops[i]) = {ops[i].out[1]}
    BY <2>3 DEF Reads, Writes, Range
  <2> QED BY <2>1, <2>2, <2>3, <2>4
<1>4. u[ops[i].out[1]] = <<"ATTENTION", <<u[a], u[b], u[c]>>>>
  <2> DEFINE v == [n \in DOMAIN ops[i].in |-> u[ops[i].in[n]]]
  <2>1. Values(ops[i], v) = <<<<"ATTENTION", v>>>>
    BY <1>1 DEF Values
  <2>2. v = <<u[a], u[b], u[c]>>
    <3> HIDE DEF u
    <3> QED BY <1>3
  <2>3. u[ops[i].out[1]] = Values(ops[i], v)[1]
    BY <1>3 DEF Solves
  <2> HIDE DEF v, u
  <2>4. u[ops[i].out[1]] = <<"ATTENTION", v>>
    BY <2>1, <2>3
  <2> QED BY <2>2, <2>4
<1>5. qi \in Left /\ qi < i /\ a \in Writes(ops[qi]) /\ qi \in DOMAIN ops /\ PassName # "shared"
  BY <1>1, <1>2, <1>3, ProducerLeft
<1>6. ki \in Left /\ ki < i /\ b \in Writes(ops[ki]) /\ ki \in DOMAIN ops
  BY <1>1, <1>2, <1>3, ProducerLeft
<1>7. /\ Reads(ops[qi]) = {x} /\ Writes(ops[qi]) = {ops[qi].out[1]} /\ DOMAIN ops[qi].in = {1}
      /\ u[ops[qi].out[1]] = <<"ROPE", <<u[x]>>>>
  BY <1>1, <1>5, OneOperand
<1>8. /\ Reads(ops[ki]) = {y} /\ Writes(ops[ki]) = {ops[ki].out[1]} /\ DOMAIN ops[ki].in = {1}
      /\ u[ops[ki].out[1]] = <<"ROPE", <<u[y]>>>>
  BY <1>1, <1>6, OneOperand
<1>9. a = ops[qi].out[1] /\ b = ops[ki].out[1]
  BY <1>5, <1>6, <1>7, <1>8
<1>10. ops[i] = start[i]
  BY <1>2, NotRewritten
<1>11. /\ a # Output /\ (\A k \in Left : a \in Reads(ops[k]) => k = i)
       /\ \A n, o \in DOMAIN start[i].in : start[i].in[n] = a /\ start[i].in[o] = a => n = o
  BY <1>1, <1>2, OnlyReader
<1>12. /\ b # Output /\ (\A k \in Left : b \in Reads(ops[k]) => k = i)
       /\ \A n, o \in DOMAIN start[i].in : start[i].in[n] = b /\ start[i].in[o] = b => n = o
  BY <1>1, <1>2, OnlyReader
<1>13. c # a /\ c # b
  BY <1>3, <1>10, <1>11, <1>12
<1>14. x \in Int /\ y \in Int
  <2>1. (\A n \in DOMAIN ops[qi].in : ops[qi].in[n] \in Int) /\ \A n \in DOMAIN ops[ki].in : ops[ki].in[n] \in Int
    BY <1>5, <1>6, Shape
  <2> QED BY <1>7, <1>8, <2>1
<1>15. op \in OpRecord /\ op.type = "ATTENTION" /\ op.in = <<x, y, c>> /\ op.out = ops[i].out /\ op.rope
  <2>1. PICK o : o = ops[i]
    OBVIOUS
  <2>2. PICK p, q, r, l : o = [type |-> p, in |-> q, out |-> r, rope |-> l]
    BY <1>3, <2>1 DEF OpRecord
  <2>3. op = [type |-> p, in |-> <<x, y, c>>, out |-> r, rope |-> TRUE] /\ o.type = p /\ o.out = r
    <3>1. op = [o EXCEPT !.in = <<x, y, @[3]>>, !.rope = TRUE] /\ o.in[3] = c
      BY <2>1
    <3> HIDE DEF op, x, y, c
    <3> QED BY <2>2, <3>1
  <2> HIDE DEF op, x, y, c
  <2>4. p = "ATTENTION" /\ r = ops[i].out /\ p \in OpTypes /\ r \in Seq(Nat \ {0})
    BY <1>1, <1>3, <2>1, <2>3 DEF OpRecord
  <2>5. <<x, y, c>> \in Seq(Int)
    BY <1>3, <1>14
  <2> HIDE DEF OpTypes
  <2> QED BY <2>3, <2>4, <2>5 DEF OpRecord
<1>16. Reads(ops[qi]) \cup Reads(ops[ki]) \subseteq Tensors
  BY <1>5, <1>6, Shape
<1>17. qi \in Nat /\ ki \in Nat /\ \A l \in Left : l \in Nat
  BY <1>2, <1>5, <1>6, Shape
<1> HIDE DEF op, x, y, a, b, c, qi, ki, u
<1>18. /\ Reads(op) = {x, y, c} /\ Len(op.in) = 3
       /\ [n \in DOMAIN op.in |-> u[op.in[n]]] = <<u[x], u[y], u[c]>>
  BY <1>15, ThreeOperands
<1>19. Writes(op) = Writes(ops[i]) /\ Len(op.out) = 1 /\ DOMAIN op.out = {1}
  BY <1>3, <1>15 DEF Writes
<1>20. Sound(op)
  <2>1. Fits(op)
    BY <1>15, <1>18, <1>19 DEF Fits
  <2>2. Values(op, <<u[x], u[y], u[c]>>)
          = <<<<"ATTENTION", <<<<"ROPE", <<u[x]>>>>, <<"ROPE", <<u[y]>>>>, u[c]>>>>>>
    BY <1>15 DEF Values
  <2>3. u[op.out[1]] = <<"ATTENTION", <<<<"ROPE", <<u[x]>>>>, <<"ROPE", <<u[y]>>>>, u[c]>>>>
    BY <1>4, <1>7, <1>8, <1>9, <1>15
  <2>4. Solves(u, op)
    BY <1>18, <1>19, <2>2, <2>3 DEF Solves
  <2>5. Reads(op) \cup Writes(op) \subseteq Tensors
    BY <1>3, <1>7, <1>8, <1>16, <1>18, <1>19
  <2> QED BY <2>1, <2>4, <2>5 DEF Sound, u
<1>21. ASSUME NEW t \in Reads(op), t > 0 PROVE \E l \in Left \ A : l < i /\ t \in Writes(ops[l])
  <2>1. CASE t = c
    <3>1. PICK l \in Left : l < i /\ t \in Writes(ops[l])
      BY <1>2, <1>3, <1>21, <2>1 DEF FusInv, LeftInOrder
    <3>2. l # qi /\ l # ki
      BY <1>7, <1>8, <1>9, <1>13, <2>1, <3>1
    <3> QED BY <3>1, <3>2
  <2>2. CASE t \in {x, y}
    <3>1. PICK g \in A : t \in Reads(ops[g])
      BY <1>7, <1>8, <2>2
    <3>2. g \in Left /\ g < i /\ g \in Nat
      BY <1>5, <1>6, <1>17
    <3>3. PICK l \in Left : l < g /\ t \in Writes(ops[l])
      BY <1>21, <3>1, <3>2 DEF FusInv, LeftInOrder
    <3>4. l < i /\ g # i
      BY <1>2, <1>17, <3>2, <3>3
    <3>5. l # qi /\ l # ki
      BY <1>7, <1>8, <1>9, <1>11, <1>12, <3>1, <3>2, <3>3, <3>4
    <3> QED BY <3>3, <3>4, <3>5
  <2> QED BY <1>18, <1>21, <2>1, <2>2
<1>22. Absorbs(op, A)
  <2>1. A \subseteq Left \ {i} /\ \A k \in A : ops[k].type \in {"SILU", "MATMUL", "ROPE"}
    BY <1>1, <1>2, <1>5, <1>6, <1>17
  <2>2. Fused(op) /\ op.out = start[i].out
    BY <1>10, <1>15 DEF Fused
  <2>3. \A t \in Reads(op) : \E g \in A \cup {i} : t \in Reads(ops[g])
    BY <1>3, <1>7, <1>8, <1>18
  <2>4. \A g \in A \cup {i} : \A t \in Writes(ops[g]) :
          \/ t \in Writes(op) /\ i <= g
          \/ t # Output /\ \A k \in Left \ (A \cup {i}) : t \notin Reads(ops[k])
    BY <1>2, <1>7, <1>8, <1>9, <1>11, <1>12, <1>19
  <2>5. \A p, q \in DOMAIN op.out : op.out[p] = op.out[q] => p = q
    BY <1>19
  <2>6. \A t \in Writes(op) : \E g \in A \cup {i} : t \in Writes(ops[g])
    BY <1>19
  <2>7. \A g, h \in Left : \A t \in Writes(ops[g]) : t \in Writes(ops[h]) => g = h
    BY DEF FusInv, LeftOnce, Writes, Range
  <2>8. a \notin Writes(op) /\ b \notin Writes(op)
    BY <1>2, <1>5, <1>6, <1>17, <1>19, <2>7
  <2>9. \A g \in A \cup {i} : \A t \in Reads(ops[g]) :
          t \in Reads(op) \/ (t \notin Writes(op) /\ \E h \in A : t \in Writes(ops[h]))
    BY <1>3, <1>5, <1>6, <1>7, <1>8, <1>18, <2>8
  <2> HIDE DEF A
  <2> QED BY <1>2, <1>15, <1>20, <1>21, <2>1, <2>2, <2>3, <2>4, <2>5, <2>6, <2>9 DEF Absorbs
<1> QED BY <1>1, <1>22

\* The loop's group: op i, and the later ops that it takes with it.
LEMMA GroupLists ==
  ASSUME FusInv, Shared
  PROVE  /\ i \in Left /\ Group[1] = i /\ Len(Group) \in Nat /\ Len(Group) >= 2
         /\ \A n \in 1..Len(Group) :
              /\ Group[n] \in Left /\ Group[n] \in DOMAIN ops /\ ops[Group[n]].type = "MATMUL"
              /\ ops[Group[n]].in[1] = ops[i].in[1] /\ i <= Group[n]
         /\ \A n, o \in 1..Len(Group) : Group[n] = Group[o] => n = o
<1> DEFINE S == {k \in i..Len(ops) : k \notin dead /\ Is(k, "MATMUL") /\ ops[k].in[1] = ops[i].in[1]}
<1>1. /\ DOMAIN ops = 1..Len(ops) /\ Len(ops) \in Nat /\ i \in 1..Len(ops)+1
      /\ i \notin dead /\ Is(i, "MATMUL") /\ Len(Group) >= 2
  BY DEF FusInv, Types, Shared
<1>2. S \in SUBSET (1..Len(ops))
  BY <1>1
<1>3. Group = Ascending(S, Len(ops))
  BY DEF Group, Pick
<1>4. \A k \in S : k \in Left /\ k \in DOMAIN ops /\ ops[k].type = "MATMUL" /\ ops[k].in[1] = ops[i].in[1]
                   /\ i <= k /\ k \in Nat
  BY <1>1 DEF Left, Is
<1>5. Lists(Group, S)
  <2> HIDE DEF S
  <2> QED BY <1>1, <1>2, <1>3, AscendingLists
<1>6. i <= Len(ops) => i \in S
  BY <1>1
<1> HIDE DEF S
<1>7. Group \in Seq(S) /\ Len(Group) \in Nat /\ \A n \in 1..Len(Group) : Group[n] \in S
  BY <1>5 DEF Lists
<1>8. i \in S
  <2>1. 1 \in 1..Len(Group)
    BY <1>1, <1>7
  <2>2. Group[1] \in DOMAIN ops /\ i <= Group[1]
    BY <1>4, <1>7, <2>1
  <2> QED BY <1>1, <1>6, <2>2
<1>9. Group[1] = i
  <2>1. PICK n \in 1..Len(Group) : Group[n] = i
    BY <1>5, <1>8 DEF Lists
  <2>2. CASE n # 1
    <3>1. 1 \in 1..Len(Group) /\ 1 < n
      BY <1>7, <2>1, <2>2
    <3>2. Group[1] < Group[n] /\ i <= Group[1] /\ Group[1] \in Nat
      BY <1>4, <1>5, <1>7, <2>1, <3>1 DEF Lists
    <3> QED BY <1>1, <2>1, <3>2
  <2> QED BY <2>1, <2>2
<1>10. ASSUME NEW n \in 1..Len(Group), NEW o \in 1..Len(Group), Group[n] = Group[o] PROVE n = o
  <2>1. n < o => Group[n] < Group[o]
    BY <1>5 DEF Lists
  <2>2. o < n => Group[o] < Group[n]
    BY <1>5 DEF Lists
  <2>3. Group[n] \in Nat /\ Group[o] \in Nat
    BY <1>4, <1>7
  <2> QED BY <1>7, <1>10, <2>1, <2>2, <2>3
<1> QED BY <1>1, <1>4, <1>7, <1>8, <1>9, <1>10

\* fuse_shared_input.
LEMMA SharedAbsorbs ==
  ASSUME FusInv, FuseShared
  PROVE  \E o, D : Absorbs(o, D) /\ Rewrite(o, D)
<1> DEFINE G == Group
           N == Len(G)
           x == ops[i].in[1]
           in == <<x>> \o [n \in 1..N |-> ops[G[n]].in[2]]
           out == [n \in 1..N |-> ops[G[n]].out[1]]
           A == {G[n] : n \in 2..N}
           op == [ops[i] EXCEPT !.type = "MATMUL_N", !.in = in, !.out = out]
           u == Meaning(model)
<1>1. PassName = "shared" /\ Shared /\ Rewrite(op, A) /\ i <= Len(ops)
  BY DEF FuseShared, Walking
<1>2. /\ i \in Left /\ G[1] = i /\ N \in Nat /\ N >= 2
      /\ \A n \in 1..N : /\ G[n] \in Left /\ G[n] \in DOMAIN ops /\ ops[G[n]].type = "MATMUL"
                         /\ ops[G[n]].in[1] = x /\ i <= G[n]
      /\ \A n, o \in 1..N : G[n] = G[o] => n = o
  BY <1>1, GroupLists
<1>3. i \in DOMAIN ops /\ i \in Nat /\ Left \subseteq DOMAIN ops /\ ops[i].type = "MATMUL"
  BY <1>1 DEF FusInv, Types, Left, Shared, Is
<1>4. ASSUME NEW n \in 1..N
      PROVE  /\ Reads(ops[G[n]]) = {x, ops[G[n]].in[2]} /\ Writes(ops[G[n]]) = {out[n]}
             /\ ops[G[n]].in[2] < 0 /\ ops[G[n]].in[2] \in Int /\ x \in Int /\ out[n] \in Nat \ {0}
             /\ Reads(ops[G[n]]) \cup Writes(ops[G[n]]) \subseteq Tensors
             /\ u[out[n]] = Matmul(u[x], u[ops[G[n]].in[2]])
  <2> DEFINE k == G[n]
  <2>1. k \in DOMAIN ops /\ ops[k].type = "MATMUL" /\ ops[k].in[1] = x /\ out[n] = ops[k].out[1]
    BY <1>2
  <2> HIDE DEF k, x, u, out, G, N
  <2>2. /\ DOMAIN ops[k].in = {1, 2} /\ DOMAIN ops[k].out = {1}
        /\ Reads(ops[k]) = {ops[k].in[1], ops[k].in[2]} /\ Writes(ops[k]) = {ops[k].out[1]}
        /\ ops[k].in[2] < 0
        /\ Meaning(model)[ops[k].out[1]] = Matmul(Meaning(model)[ops[k].in[1]], Meaning(model)[ops[k].in[2]])
    BY <2>1, TwoOperands
  <2>3. /\ ops[k].out \in Seq(Nat \ {0}) /\ \A o \in DOMAIN ops[k].in : ops[k].in[o] \in Int
        /\ Reads(ops[k]) \cup Writes(ops[k]) \subseteq Tensors
    BY <2>1, Shape
  <2>4. ops[k].out[1] \in Nat \ {0}
    BY <2>2, <2>3
  <2> QED BY <2>1, <2>2, <2>3, <2>4 DEF k, u
<1>5. DOMAIN out = 1..N /\ out \in Seq(Nat \ {0}) /\ Len(out) = N
  <2>1. \A n \in 1..N : out[n] \in Nat \ {0}
    BY <1>4
  <2>2. out = [n \in 1..N |-> out[n]]
    OBVIOUS
  <2> HIDE DEF out, N
  <2> QED BY <1>2, <2>1, <2>2
<1>6. /\ in \in Seq(Int) /\ Len(in) = N + 1 /\ in[1] = x
      /\ \A n \in 1..N : in[n + 1] = ops[G[n]].in[2]
  <2> DEFINE ws == [n \in 1..N |-> ops[G[n]].in[2]]
  <2>1. x \in Int /\ \A n \in 1..N : ws[n] \in Int /\ ws[n] = ops[G[n]].in[2]
    BY <1>2, <1>4
  <2>2. ws = [n \in 1..N |-> ws[n]] /\ in = <<x>> \o ws
    OBVIOUS
  <2> HIDE DEF ws, x, N, in, G, out, op, A, u
  <2>3. DOMAIN ws = 1..N /\ N \in Nat
    BY <1>2, <2>2
  <2>4. ws \in [1..N -> Int]
    BY <2>1, <2>2
  <2>5. ws \in Seq(Int) /\ Len(ws) = N
    BY <2>3, <2>4
  <2>6. <<x>> \in Seq(Int) /\ Len(<<x>>) = 1
    BY <2>1
  <2>7. in \in Seq(Int) /\ Len(in) = N + 1 /\ in[1] = x /\ \A n \in 1..N : in[n + 1] = ws[n]
    BY <2>2, <2>3, <2>5, <2>6
  <2> QED BY <2>1, <2>7
<1>7. op \in OpRecord /\ op.type = "MATMUL_N" /\ op.in = in /\ op.out = out
  <2>1. PICK o : o = ops[i] /\ o \in OpRecord
    BY <1>3, Shape
  <2>2. PICK p, q, r, l : o = [type |-> p, in |-> q, out |-> r, rope |-> l] /\ l \in BOOLEAN
    BY <2>1 DEF OpRecord
  <2>3. op = [type |-> "MATMUL_N", in |-> in, out |-> out, rope |-> l]
    <3>1. op = [o EXCEPT !.type = "MATMUL_N", !.in = in, !.out = out]
      BY <2>1
    <3> HIDE DEF op, in, out
    <3> QED BY <2>2, <3>1
  <2> HIDE DEF op, in, out
  <2>4. "MATMUL_N" \in OpTypes
    BY DEF OpTypes
  <2> HIDE DEF OpTypes
  <2> QED BY <1>5, <1>6, <2>2, <2>3, <2>4 DEF OpRecord
<1>8. A = {G[n] : n \in 2..N} /\ A \cup {i} = {G[n] : n \in 1..N} /\ i \notin A
  <2>1. 1..N = {1} \cup 2..N /\ 1 \in 1..N /\ 1 \notin 2..N
    BY <1>2
  <2> HIDE DEF N, G
  <2> QED BY <1>2, <2>1
<1> HIDE DEF op, in, out, x, u, A, N, G
<1>9. ASSUME NEW t \in Reads(op) PROVE t = x \/ (\E n \in 1..N : t = ops[G[n]].in[2])
  <2>1. PICK m \in DOMAIN in : t = in[m]
    BY <1>7 DEF Reads, Range
  <2>2. m \in 1..N+1
    BY <1>2, <1>6, <2>1
  <2>3. m = 1 \/ (m - 1 \in 1..N /\ m = (m - 1) + 1)
    BY <1>2, <2>2
  <2> QED BY <1>6, <2>1, <2>3
<1>10. Writes(op) = {out[n] : n \in 1..N}
  BY <1>5, <1>7 DEF Writes, Range
<1>11. Sound(op)
  <2>1. Fits(op)
    BY <1>5, <1>6, <1>7 DEF Fits
  <2> DEFINE v == [n \in DOMAIN op.in |-> u[op.in[n]]]
  <2>2. v[1] = u[x] /\ \A n \in 1..N : v[n + 1] = u[ops[G[n]].in[2]]
    <3>1. DOMAIN op.in = 1..N+1 /\ 1 \in 1..N+1 /\ \A n \in 1..N : n + 1 \in 1..N+1
      BY <1>2, <1>6, <1>7
    <3> QED BY <1>6, <1>7, <3>1
  <2>3. Values(op, v) = [n \in DOMAIN op.out |-> Matmul(v[1], v[n + 1])]
    <3> HIDE DEF v
    <3> QED BY <1>7 DEF Values
  <2> HIDE DEF v
  <2>4. ASSUME NEW n \in DOMAIN op.out PROVE u[op.out[n]] = Values(op, v)[n]
    <3>1. n \in 1..N /\ op.out[n] = out[n]
      BY <1>5, <1>7
    <3>2. Values(op, v)[n] = Matmul(u[x], u[ops[G[n]].in[2]])
      BY <2>2, <2>3, <3>1
    <3> QED BY <1>4, <3>1, <3>2
  <2>5. Solves(u, op)
    BY <2>4 DEF Solves, v
  <2>6. Reads(op) \cup Writes(op) \subseteq Tensors
    <3>1. 1 \in 1..N
      BY <1>2
    <3> QED BY <1>4, <1>9, <1>10, <3>1
  <2> QED BY <2>1, <2>5, <2>6 DEF Sound, u
<1>12. ASSUME NEW p \in DOMAIN op.out, NEW q \in DOMAIN op.out, op.out[p] = op.out[q] PROVE p = q
  <2>1. p \in 1..N /\ q \in 1..N /\ out[p] = out[q]
    BY <1>5, <1>7, <1>12
  <2>2. out[p] \in Writes(ops[G[p]]) /\ out[p] \in Writes(ops[G[q]])
    BY <1>4, <2>1
  <2>3. G[p] = G[q]
    BY <1>2, <2>1, <2>2 DEF FusInv, LeftOnce, Writes, Range
  <2> QED BY <1>2, <2>1, <2>3
<1>13. ASSUME NEW t \in Reads(op), t > 0 PROVE \E l \in Left \ A : l < i /\ t \in Writes(ops[l])
  <2>1. t = x
    BY <1>4, <1>9, <1>13
  <2>2. x \in Reads(ops[i])
    <3>1. 1 \in 1..N
      BY <1>2
    <3> QED BY <1>2, <1>4, <3>1
  <2>3. PICK l \in Left : l < i /\ t \in Writes(ops[l])
    BY <1>2, <1>13, <2>1, <2>2 DEF FusInv, LeftInOrder
  <2>4. l \notin A
    <3>1. l \in Nat
      BY <1>3, Shape
    <3>2. \A k \in A \cup {i} : i <= k
      BY <1>2, <1>8
    <3> QED BY <1>3, <2>3, <3>1, <3>2
  <2> QED BY <2>3, <2>4
<1>14. Absorbs(op, A)
  <2>1. A \subseteq Left \ {i} /\ \A k \in A : ops[k].type \in {"SILU", "MATMUL", "ROPE"}
    <3>1. A \subseteq {G[n] : n \in 1..N}
      BY <1>8
    <3> QED BY <1>2, <1>8, <3>1
  <2>2. Fused(op) /\ PassName = "shared"
    BY <1>1, <1>7 DEF Fused
  <2>3. ASSUME NEW t \in Reads(op) PROVE \E g \in A \cup {i} : t \in Reads(ops[g])
    <3>1. PICK n \in 1..N : t \in Reads(ops[G[n]])
      <4>1. 1 \in 1..N
        BY <1>2
      <4> QED BY <1>4, <1>9, <4>1
    <3> QED BY <1>8, <3>1
  <2>4. ASSUME NEW g \in A \cup {i}, NEW t \in Writes(ops[g]) PROVE t \in Writes(op) /\ i <= g
    <3>1. PICK n \in 1..N : g = G[n]
      BY <1>8
    <3>2. t = out[n] /\ i <= g
      BY <1>2, <1>4, <3>1
    <3> QED BY <1>10, <3>2
  <2>5. \A t \in Writes(op) : \E g \in A \cup {i} : t \in Writes(ops[g])
    BY <1>4, <1>8, <1>10
  <2>6. ASSUME NEW g \in A \cup {i}, NEW t \in Reads(ops[g]) PROVE t \in Reads(op)
    <3>1. PICK n \in 1..N : g = G[n]
      BY <1>8
    <3>2. t \in Reads(ops[G[n]])
      BY <3>1
    <3>3. Reads(ops[G[n]]) = {x, ops[G[n]].in[2]}
      BY <1>4
    <3> HIDE DEF G, N, in, x
    <3>4. t = in[1] \/ t = in[n + 1]
      BY <1>6, <3>2, <3>3
    <3> USE DEF G, N, in, x
    <3>5. 1 \in DOMAIN in /\ n + 1 \in DOMAIN in
      BY <1>2, <1>6
    <3> QED BY <1>7, <3>4, <3>5 DEF Reads, Range
  <2> QED BY <1>2, <1>7, <1>11, <1>12, <1>13, <2>1, <2>2, <2>3, <2>4, <2>5, <2>6 DEF Absorbs
<1> QED BY <1>1, <1>14

\* A turn that fuses.
Fuse == (\E s \in 1..2 : FuseSwiglu(s) \/ FuseResidual(s)) \/ FuseShared \/ FuseRope

\* It absorbs what it fuses.
LEMMA FuseAbsorbs ==
  ASSUME FusInv, Fuse
  PROVE  \E o, D : Absorbs(o, D) /\ Rewrite(o, D)
  BY SwigluAbsorbs, ResidualAbsorbs, SharedAbsorbs, RopeAbsorbs DEF Fuse

-----------------------------------------------------------------------------
(* The second round                                                        *)

\* Something else than operand n of op k reads, of the ops that are left, what that operand is.
ReadElsewhere(k, n) ==
  \E l \in Left : \E o \in DOMAIN ops[l].in : ops[l].in[o] = ops[k].in[n] /\ <<l, o>> # <<k, n>>
\* Operand n of op k is none that a pass takes from an op of the type: no such op writes it, or it is read elsewhere.
Kept(k, n, type) ==
  (\E m \in Left : ops[m].type = type /\ ops[k].in[n] \in Writes(ops[m])) => ReadElsewhere(k, n)

\* What each pass leaves behind it, up to its place n in the list: no two MATMULs that share their input, no ADD that
\* a MATMUL could take in, no ATTENTION that could take in its ROPEs.
NoneShared(n) ==
  \A k, l \in Left :
    k < n /\ ops[k].type = "MATMUL" /\ ops[l].type = "MATMUL" /\ ops[k].in[1] = ops[l].in[1] => k = l
AddsKept(n) == \A k \in Left : k < n /\ ops[k].type = "ADD" => \A s \in 1..2 : Kept(k, s, "MATMUL")
RopesKept(n) ==
  \A k \in Left : k < n /\ ops[k].type = "ATTENTION" /\ ~ops[k].rope => \E s \in 1..2 : Kept(k, s, "ROPE")
\* How far the p-th pass has come.
Upto(p) == IF pass < p THEN 1 ELSE IF pass = p THEN i ELSE Len(ops) + 1
NothingLeftBehind == NoneShared(Upto(2)) /\ AddsKept(Upto(3)) /\ RopesKept(Upto(4))

\* What has been read at the start of the pass is read still: by the op that has read it, by one that has been
\* rewritten, or nobody computes it any more.
StillRead ==
  \A l \in DOMAIN start : \A t \in Reads(start[l]) :
    \/ l \in Left /\ ops[l] = start[l]
    \/ \E r \in Left : r < i /\ t \in Reads(ops[r])
    \/ \A m \in Left : t \notin Writes(ops[m])

\* In the second round the list stays as it is.
Quiet == pass > Len(Passes) => dead = {} /\ start = ops

IdemInv == StillRead /\ NothingLeftBehind /\ Quiet

\* What a turn that fuses does to the ops.
LEMMA Rewritten ==
  ASSUME FusInv, NEW op, NEW A, Absorbs(op, A), Rewrite(op, A)
  PROVE  /\ Left' = Left \ A /\ i \in Left \ A /\ A \subseteq Left /\ ops'[i] = op /\ i' = i + 1 /\ i \in Nat
         /\ \A k \in Left : k # i => ops'[k] = ops[k]
         /\ Len(ops') = Len(ops) /\ pass' = pass /\ start' = start /\ Left \subseteq Nat
<1>1. /\ ops' = [ops EXCEPT ![i] = op] /\ dead' = dead \cup A /\ i' = i + 1 /\ pass' = pass /\ start' = start
      /\ ops \in Seq(OpRecord) /\ op \in OpRecord /\ i \in DOMAIN ops /\ A \subseteq Left \ {i} /\ i \in Left
      /\ DOMAIN ops = 1..Len(ops) /\ Len(ops) \in Nat
  BY DEF FusInv, Types, Rewrite, Absorbs, Left
<1> HIDE DEF OpRecord
<1>2. Len(ops') = Len(ops) /\ DOMAIN ops' = DOMAIN ops /\ ops'[i] = op /\ \A k \in DOMAIN ops : k # i => ops'[k] = ops[k]
  BY <1>1
<1>3. Left' = Left \ A /\ Left \subseteq DOMAIN ops
  BY <1>1, <1>2 DEF Left
<1> QED BY <1>1, <1>2, <1>3

\* Where an op that is absorbed or rewritten has read a tensor, the op that is put at i reads it, or no op that is
\* left computes it.
LEMMA ReadOn ==
  ASSUME FusInv, NEW op, NEW A, Absorbs(op, A), Rewrite(op, A), NEW g \in A \cup {i}, NEW t \in Reads(ops[g])
  PROVE  t \in Reads(ops'[i]) \/ \A m \in Left' : t \notin Writes(ops'[m])
<1>1. /\ Left' = Left \ A /\ i \in Left \ A /\ A \subseteq Left /\ ops'[i] = op
      /\ \A k \in Left : k # i => ops'[k] = ops[k]
  BY Rewritten
<1>2. t \in Reads(op) \/ (t \notin Writes(op) /\ \E h \in A : t \in Writes(ops[h]))
  BY DEF Absorbs
<1>3. CASE t \notin Writes(op) /\ \E h \in A : t \in Writes(ops[h])
  <2>1. PICK h \in A : t \in Writes(ops[h])
    BY <1>3
  <2>2. ASSUME NEW m \in Left \ A, m # i, t \in Writes(ops[m]) PROVE FALSE
    <3>1. m = h
      BY <1>1, <2>1, <2>2 DEF FusInv, LeftOnce, Writes, Range
    <3> QED BY <2>1, <3>1
  <2> QED BY <1>1, <1>3, <2>2
<1> QED BY <1>1, <1>2, <1>3

\* A turn that fuses keeps what has been read read.
LEMMA FuseReads ==
  ASSUME FusInv, StillRead, NEW op, NEW A, Absorbs(op, A), Rewrite(op, A)
  PROVE  StillRead'
<1>1. /\ Left' = Left \ A /\ i \in Left \ A /\ A \subseteq Left /\ ops'[i] = op /\ i' = i + 1 /\ i \in Nat
      /\ \A k \in Left : k # i => ops'[k] = ops[k]
      /\ start' = start /\ Left \subseteq Nat
  BY Rewritten
<1> SUFFICES ASSUME NEW l \in DOMAIN start, NEW t \in Reads(start[l])
             PROVE  \/ l \in Left' /\ ops'[l] = start[l]
                    \/ \E r \in Left' : r < i' /\ t \in Reads(ops'[r])
                    \/ \A m \in Left' : t \notin Writes(ops'[m])
  BY <1>1 DEF StillRead
<1>2. ASSUME NEW g \in A \cup {i}, t \in Reads(ops[g])
      PROVE  (\E r \in Left' : r < i' /\ t \in Reads(ops'[r])) \/ \A m \in Left' : t \notin Writes(ops'[m])
  <2>1. t \in Reads(ops'[i]) \/ \A m \in Left' : t \notin Writes(ops'[m])
    BY <1>2, ReadOn
  <2>2. i \in Left' /\ i < i'
    BY <1>1
  <2> QED BY <2>1, <2>2
<1>3. CASE l \in Left /\ ops[l] = start[l]
  <2>1. CASE l \in A \cup {i}
    BY <1>2, <1>3, <2>1
  <2>2. CASE l \notin A \cup {i}
    BY <1>1, <1>3, <2>2
  <2> QED BY <2>1, <2>2
<1>4. CASE \E r \in Left : r < i /\ t \in Reads(ops[r])
  <2>1. PICK r \in Left : r < i /\ t \in Reads(ops[r])
    BY <1>4
  <2>2. CASE r \in A
    BY <1>2, <2>1, <2>2
  <2>3. CASE r \notin A
    <3>1. r \in Left' /\ r < i' /\ ops'[r] = ops[r]
      BY <1>1, <2>1, <2>3
    <3> QED BY <2>1, <3>1
  <2> QED BY <2>2, <2>3
<1>5. CASE \A m \in Left : t \notin Writes(ops[m])
  <2>1. t \notin Writes(op)
    BY <1>1, <1>5 DEF Absorbs
  <2> QED BY <1>1, <1>5, <2>1
<1> QED BY <1>3, <1>4, <1>5 DEF StillRead

\* A turn that fuses leaves an operand to its op where a pass has left it.
LEMMA FuseKept ==
  ASSUME FusInv, NEW op, NEW A, Absorbs(op, A), Rewrite(op, A), NEW k \in Left', k # i,
         NEW n \in DOMAIN ops[k].in, NEW type \in {"MATMUL", "ROPE"}, Kept(k, n, type)
  PROVE  Kept(k, n, type)'
<1>1. /\ Left' = Left \ A /\ i \in Left \ A /\ A \subseteq Left /\ ops'[i] = op
      /\ \A l \in Left : l # i => ops'[l] = ops[l]
  BY Rewritten
<1> DEFINE t == ops[k].in[n]
<1>2. ops'[k] = ops[k]
  BY <1>1
<1> SUFFICES ASSUME NEW m \in Left', ops'[m].type = type, t \in Writes(ops'[m])
             PROVE  \E l \in Left' : \E o \in DOMAIN ops'[l].in : ops'[l].in[o] = t /\ <<l, o>> # <<k, n>>
  BY <1>2 DEF Kept, ReadElsewhere
<1>3. m # i
  BY <1>1 DEF Absorbs, Fused
<1>4. PICK l \in Left : \E o \in DOMAIN ops[l].in : ops[l].in[o] = t /\ <<l, o>> # <<k, n>>
  BY <1>1, <1>3 DEF Kept, ReadElsewhere
<1> HIDE DEF t
<1>5. CASE l \in A \cup {i}
  <2>1. t \in Reads(ops[l])
    BY <1>4 DEF Reads, Range
  <2>2. t \in Reads(ops'[i])
    BY <1>5, <2>1, ReadOn
  <2>3. PICK o \in DOMAIN ops'[i].in : ops'[i].in[o] = t
    BY <2>2 DEF Reads, Range
  <2> QED BY <1>1, <2>3
<1>6. CASE l \notin A \cup {i}
  BY <1>1, <1>4, <1>6
<1> QED BY <1>5, <1>6

\* The operands of an ADD and the first two of an ATTENTION are there.
LEMMA FirstOperands ==
  ASSUME FusInv, NEW k \in DOMAIN ops, ops[k].type \in {"ADD", "ATTENTION"}, NEW n \in 1..2
  PROVE  n \in DOMAIN ops[k].in
<1> DEFINE o == ops[k]
<1>1. Fits(o) /\ DOMAIN o.in = 1..Len(o.in) /\ o.type \in {"ADD", "ATTENTION"}
  BY Shape
<1> HIDE DEF o
<1>2. ASSUME o.type = "ADD" PROVE n \in DOMAIN o.in
  <2>1. Len(o.in) = 2
    BY <1>1, <1>2 DEF Fits
  <2> QED BY <1>1, <2>1
<1>3. ASSUME o.type = "ATTENTION" PROVE n \in DOMAIN o.in
  <2>1. Len(o.in) = 3
    BY <1>1, <1>3 DEF Fits
  <2> QED BY <1>1, <2>1
<1>4. n \in DOMAIN o.in
  BY <1>1, <1>2, <1>3
<1> QED BY <1>4 DEF o

\* A turn that fuses leaves behind what the passes have left.
LEMMA FuseLeaves ==
  ASSUME FusInv, NothingLeftBehind, NEW op, NEW A, Absorbs(op, A), Rewrite(op, A)
  PROVE  NothingLeftBehind'
<1>1. /\ Left' = Left \ A /\ ops'[i] = op /\ i' = i + 1 /\ i \in Nat /\ Fused(op)
      /\ \A k \in Left : k # i => ops'[k] = ops[k]
      /\ Len(ops') = Len(ops) /\ pass' = pass /\ Left \subseteq Nat /\ Left \subseteq DOMAIN ops
  BY Rewritten DEF Absorbs, Left
<1>2. ASSUME NEW k \in Left, k # i PROVE \A p \in 2..4 : k < Upto(p)' => k < Upto(p)
  BY <1>1, <1>2 DEF Upto
<1>3. NoneShared(Upto(2))'
  <2> SUFFICES ASSUME NEW k \in Left', NEW l \in Left', k < Upto(2)', ops'[k].type = "MATMUL",
                      ops'[l].type = "MATMUL", ops'[k].in[1] = ops'[l].in[1]
               PROVE  k = l
    BY DEF NoneShared
  <2>1. k # i /\ l # i
    BY <1>1 DEF Fused
  <2>2. k \in Left /\ l \in Left /\ ops'[k] = ops[k] /\ ops'[l] = ops[l]
    BY <1>1, <2>1
  <2>3. k < Upto(2)
    BY <1>2, <2>1, <2>2
  <2> QED BY <2>2, <2>3 DEF NothingLeftBehind, NoneShared
<1>4. AddsKept(Upto(3))'
  <2> SUFFICES ASSUME NEW k \in Left', k < Upto(3)', ops'[k].type = "ADD", NEW s \in 1..2
               PROVE  Kept(k, s, "MATMUL")'
    BY DEF AddsKept
  <2>1. k # i
    BY <1>1 DEF Fused
  <2>2. k \in Left /\ ops[k].type = "ADD"
    BY <1>1, <2>1
  <2>3. k < Upto(3)
    BY <1>2, <2>1, <2>2
  <2>4. Kept(k, s, "MATMUL")
    BY <2>2, <2>3 DEF NothingLeftBehind, AddsKept
  <2>5. s \in DOMAIN ops[k].in
    BY <1>1, <2>2, FirstOperands
  <2> QED BY <2>1, <2>4, <2>5, FuseKept
<1>5. RopesKept(Upto(4))'
  <2> SUFFICES ASSUME NEW k \in Left', k < Upto(4)', ops'[k].type = "ATTENTION", ~ops'[k].rope
               PROVE  \E n \in 1..2 : Kept(k, n, "ROPE")'
    BY DEF RopesKept
  <2>1. k # i
    BY <1>1 DEF Fused
  <2>2. k \in Left /\ ops[k].type = "ATTENTION" /\ ~ops[k].rope
    BY <1>1, <2>1
  <2>3. k < Upto(4)
    BY <1>2, <2>1, <2>2
  <2>4. PICK n \in 1..2 : Kept(k, n, "ROPE")
    BY <2>2, <2>3 DEF NothingLeftBehind, RopesKept
  <2>5. n \in DOMAIN ops[k].in
    BY <1>1, <2>2, FirstOperands
  <2>6. Kept(k, n, "ROPE")'
    BY <2>1, <2>4, <2>5, FuseKept
  <2> QED BY <2>6
<1> QED BY <1>3, <1>4, <1>5 DEF NothingLeftBehind

\* Where fuse_shared_input does not fuse, no later MATMUL shares the input.
LEMMA SharedStays ==
  ASSUME FusInv, i \in Left, ops[i].type = "MATMUL", ~Shared, NEW l \in Left, l >= i, ops[l].type = "MATMUL",
         ops[l].in[1] = ops[i].in[1]
  PROVE  l = i
<1> DEFINE S == {k \in i..Len(ops) : k \notin dead /\ Is(k, "MATMUL") /\ ops[k].in[1] = ops[i].in[1]}
<1>1. /\ DOMAIN ops = 1..Len(ops) /\ Len(ops) \in Nat /\ i \in 1..Len(ops) /\ l \in 1..Len(ops)
      /\ i \notin dead /\ l \notin dead
  BY DEF FusInv, Types, Left
<1>2. S \in SUBSET (1..Len(ops)) /\ Is(i, "MATMUL")
  BY <1>1 DEF Is
<1>3. i \in S /\ l \in S
  BY <1>1 DEF Is
<1>4. Lists(Group, S)
  <2> HIDE DEF S
  <2> QED BY <1>1, <1>2, AscendingLists DEF Group, Pick, S
<1> HIDE DEF S
<1>5. Len(Group) \in Nat /\ ~(Len(Group) >= 2)
  BY <1>1, <1>2, <1>4 DEF Lists, Shared
<1>6. PICK a, b \in 1..Len(Group) : Group[a] = i /\ Group[b] = l
  BY <1>3, <1>4 DEF Lists
<1> QED BY <1>5, <1>6

\* Where a pass does not take an operand's producer, it leaves the operand to the op.
LEMMA OperandStays ==
  ASSUME FusInv, StillRead, PassName # "shared", i \in Left, NEW n \in DOMAIN ops[i].in, NEW type,
         ~(Is(Producer(ops[i].in[n]), type) /\ Producer(ops[i].in[n]) \notin dead /\ OnlyConsumer(ops[i].in[n], i))
  PROVE  Kept(i, n, type)
<1> DEFINE t == ops[i].in[n]
<1> SUFFICES ASSUME NEW m \in Left, ops[m].type = type, t \in Writes(ops[m]) PROVE ReadElsewhere(i, n)
  BY DEF Kept
<1>1. i \in DOMAIN ops /\ m \in DOMAIN ops /\ DOMAIN ops = DOMAIN start /\ m > 0 /\ m \in Nat /\ m \notin dead
  BY DEF FusInv, Types, Left
<1>2. ops[i] = start[i] /\ ops[m].out = start[m].out
  BY <1>1, NotRewritten DEF FusInv, Walked
<1>3. Producer(t) = m
  <2> DEFINE P == {k \in DOMAIN start : \E j \in DOMAIN start[k].out : start[k].out[j] = t}
  <2>1. m \in P
    BY <1>1, <1>2 DEF Writes, Range
  <2>2. \A k \in P : k = m
    BY <2>1 DEF FusInv, Started, WrittenOnce
  <2>3. Producer(t) = IF P = {} THEN 0 ELSE CHOOSE k \in P : \A l \in P : l <= k
    BY DEF Producer
  <2> HIDE DEF P
  <2>4. P = {m}
    BY <2>1, <2>2
  <2>5. (CHOOSE k \in {m} : \A l \in {m} : l <= k) = m
    BY <1>1
  <2> QED BY <2>3, <2>4, <2>5
<1>4. ~OnlyConsumer(t, i)
  BY <1>1, <1>3 DEF Is
<1>5. <<i, n>> \in Readers(t)
  BY <1>1, <1>2 DEF Readers
<1>6. PICK r \in Readers(t) : r # <<i, n>>
  <2>1. IsFiniteSet(Readers(t)) /\ Cardinality(Readers(t)) # 1
    BY <1>4, <1>5, ReadersFinite DEF FusInv, OnlyConsumer
  <2>2. Readers(t) # {<<i, n>>}
    BY <2>1, FS_Singleton
  <2> QED BY <1>5, <2>2
<1>7. PICK l \in DOMAIN start : \E o \in DOMAIN start[l].in : r = <<l, o>> /\ start[l].in[o] = t
  BY <1>6 DEF Readers
<1> HIDE DEF t
<1>8. t \in Reads(start[l])
  BY <1>7 DEF Reads, Range
<1>9. CASE l \in Left /\ ops[l] = start[l]
  BY <1>6, <1>7, <1>9 DEF ReadElsewhere, t
<1>10. CASE \E k \in Left : k < i /\ t \in Reads(ops[k])
  <2>1. PICK k \in Left : k < i /\ t \in Reads(ops[k])
    BY <1>10
  <2>2. PICK p \in DOMAIN ops[k].in : ops[k].in[p] = t
    BY <2>1 DEF Reads, Range
  <2>3. k # i
    BY <2>1 DEF FusInv, Types, Left
  <2>4. <<k, p>> # <<i, n>>
    BY <2>3
  <2> QED BY <2>2, <2>4 DEF ReadElsewhere, t
<1> QED BY <1>7, <1>8, <1>9, <1>10 DEF StillRead

\* The passes of the first round by number.
LEMMA PassNames ==
  ASSUME FusInv
  PROVE  /\ Len(Passes) = 4 /\ Rounds * Len(Passes) = 8 /\ pass \in 1..9
         /\ pass = 2 => PassName = "shared"
         /\ pass = 3 => PassName = "residual"
         /\ pass = 4 => PassName = "rope"
<1>1. Len(Passes) = 4 /\ Rounds * Len(Passes) = 8
  BY DEF Passes, Rounds
<1>2. /\ pass = 2 => ((pass - 1) % 4) + 1 = 2
      /\ pass = 3 => ((pass - 1) % 4) + 1 = 3
      /\ pass = 4 => ((pass - 1) % 4) + 1 = 4
  OBVIOUS
<1>3. Passes[2] = "shared" /\ Passes[3] = "residual" /\ Passes[4] = "rope"
  BY DEF Passes
<1> QED BY <1>1, <1>2, <1>3 DEF PassName, FusInv, Types

\* A turn that finds nothing leaves nothing behind.
LEMMA SkipLeaves ==
  ASSUME FusInv, StillRead, NothingLeftBehind, Skip
  PROVE  NothingLeftBehind'
<1>1. i' = i + 1 /\ UNCHANGED <<model, ops, pass, start, dead>> /\ Left' = Left
  BY DEF Skip, Left
<1>2. i \in DOMAIN ops /\ i \in Nat /\ Len(ops) \in Nat /\ Left \subseteq Nat /\ pass \in Nat /\ Left \subseteq DOMAIN ops
  BY DEF Skip, Walking, FusInv, Types, Left
<1>3. ASSUME NEW k \in Left, NEW p \in 2..4, k < Upto(p)' PROVE k < Upto(p) \/ (pass = p /\ k = i)
  BY <1>1, <1>2, <1>3 DEF Upto
<1>4. Upto(2) = IF pass < 2 THEN 1 ELSE IF pass = 2 THEN i ELSE Len(ops) + 1
  BY DEF Upto
<1>5. NoneShared(Upto(2))'
  <2> SUFFICES ASSUME NEW k \in Left, NEW l \in Left, k < Upto(2)', ops[k].type = "MATMUL",
                      ops[l].type = "MATMUL", ops[k].in[1] = ops[l].in[1]
               PROVE  k = l
    BY <1>1 DEF NoneShared
  <2>1. CASE k < Upto(2)
    BY <2>1 DEF NothingLeftBehind, NoneShared
  <2>2. CASE pass = 2 /\ k = i
    <3>1. CASE l < i
      BY <1>4, <2>2, <3>1 DEF NothingLeftBehind, NoneShared
    <3>2. CASE ~(l < i)
      <4>1. ~Shared
        BY <2>2, PassNames DEF Skip, Walking
      <4>2. l >= i
        BY <1>2, <3>2
      <4> QED BY <2>2, <4>1, <4>2, SharedStays
    <3> QED BY <3>1, <3>2
  <2> QED BY <1>3, <2>1, <2>2
<1>6. AddsKept(Upto(3))'
  <2> SUFFICES ASSUME NEW k \in Left, k < Upto(3)', ops[k].type = "ADD", NEW s \in 1..2
               PROVE  Kept(k, s, "MATMUL")
    BY <1>1 DEF AddsKept, Kept, ReadElsewhere
  <2>1. CASE k < Upto(3)
    BY <2>1 DEF NothingLeftBehind, AddsKept
  <2>2. CASE pass = 3 /\ k = i
    <3>1. Is(i, "ADD")
      BY <1>2, <2>2 DEF Is, FusInv, Types
    <3>2. s \in DOMAIN ops[i].in
      BY <1>2, <2>2, FirstOperands
    <3>3. PassName = "residual" /\ ~Residual(s)
      BY <2>2, <3>1, PassNames DEF Skip, Walking
    <3>4. ~(Is(Producer(ops[i].in[s]), "MATMUL") /\ Producer(ops[i].in[s]) \notin dead /\ OnlyConsumer(ops[i].in[s], i))
      BY <3>1, <3>3 DEF Residual
    <3>5. Kept(i, s, "MATMUL")
      BY <2>2, <3>2, <3>3, <3>4, OperandStays
    <3> QED BY <2>2, <3>5
  <2> QED BY <1>3, <2>1, <2>2
<1>7. RopesKept(Upto(4))'
  <2> SUFFICES ASSUME NEW k \in Left, k < Upto(4)', ops[k].type = "ATTENTION", ~ops[k].rope
               PROVE  \E n \in 1..2 : Kept(k, n, "ROPE")
    BY <1>1 DEF RopesKept, Kept, ReadElsewhere
  <2>1. CASE k < Upto(4)
    BY <2>1 DEF NothingLeftBehind, RopesKept
  <2>2. CASE pass = 4 /\ k = i
    <3>1. PassName = "rope" /\ ~Rope
      BY <2>2, PassNames DEF Skip, Walking
    <3>2. Is(i, "ATTENTION")
      BY <1>2, <2>2 DEF Is, FusInv, Types
    <3>3. PICK n \in 1..2 : ~(Is(Producer(ops[i].in[n]), "ROPE") /\ OnlyConsumer(ops[i].in[n], i))
      BY <2>2, <3>1, <3>2 DEF Rope
    <3>4. n \in DOMAIN ops[i].in
      BY <1>2, <2>2, FirstOperands
    <3>5. Kept(i, n, "ROPE")
      BY <2>2, <3>1, <3>3, <3>4, OperandStays
    <3> QED BY <2>2, <3>5
  <2> QED BY <1>3, <2>1, <2>2
<1> QED BY <1>5, <1>6, <1>7 DEF NothingLeftBehind

\* compact leaves an operand to its op.
LEMMA LiveKept ==
  ASSUME FusInv, EndPass, NEW s, Lists(s, Left), \A n \in 1..Len(s) : Live[n] = ops[s[n]], Left' = 1..Len(s),
         NEW k \in 1..Len(s), NEW n, NEW type, Kept(s[k], n, type)
  PROVE  Kept(k, n, type)'
<1>1. ops' = Live /\ \A l \in 1..Len(s) : s[l] \in Left
  BY DEF EndPass, Lists
<1> SUFFICES ASSUME NEW m \in 1..Len(s), ops'[m].type = type, ops'[k].in[n] \in Writes(ops'[m])
             PROVE  \E l \in 1..Len(s) : \E o \in DOMAIN ops'[l].in : ops'[l].in[o] = ops'[k].in[n] /\ <<l, o>> # <<k, n>>
  BY DEF Kept, ReadElsewhere
<1>2. s[m] \in Left /\ ops[s[m]].type = type /\ ops[s[k]].in[n] \in Writes(ops[s[m]])
  BY <1>1
<1>3. PICK l \in Left : \E o \in DOMAIN ops[l].in : ops[l].in[o] = ops[s[k]].in[n] /\ <<l, o>> # <<s[k], n>>
  BY <1>2 DEF Kept, ReadElsewhere
<1>4. PICK o \in DOMAIN ops[l].in : ops[l].in[o] = ops[s[k]].in[n] /\ <<l, o>> # <<s[k], n>>
  BY <1>3
<1>5. PICK a \in 1..Len(s) : s[a] = l
  BY DEF Lists
<1>6. ops'[a] = ops[l] /\ ops'[k] = ops[s[k]] /\ <<a, o>> # <<k, n>>
  BY <1>1, <1>4, <1>5
<1> QED BY <1>4, <1>6

\* The next pass starts with nothing left behind.
LEMMA EndPassLeaves ==
  ASSUME FusInv, NothingLeftBehind, EndPass
  PROVE  StillRead' /\ NothingLeftBehind' /\ Quiet'
<1>1. ops' = Live /\ start' = Live /\ dead' = {} /\ i' = 1 /\ pass' = pass + 1 /\ i > Len(ops)
  BY DEF EndPass
<1>2. PICK s : /\ Lists(s, Left) /\ Len(Live) = Len(s) /\ Live \in Seq(OpRecord)
               /\ \A n \in 1..Len(s) : Live[n] = ops[s[n]]
  BY LiveLists DEF FusInv
<1>3. Left' = 1..Len(s) /\ DOMAIN Live = 1..Len(s) /\ Len(s) \in Nat /\ \A n \in 1..Len(s) : s[n] \in Left
  BY <1>1, <1>2 DEF Left, Lists
<1>4. StillRead' /\ Quiet'
  BY <1>1, <1>3 DEF StillRead, Quiet, Left
<1>5. /\ pass \in Nat /\ Left \subseteq Nat /\ Left \subseteq DOMAIN ops /\ DOMAIN ops = 1..Len(ops) /\ Len(ops) \in Nat
      /\ i \in Nat
  BY DEF FusInv, Types, Left
<1>6. ASSUME NEW k \in 1..Len(s), NEW p \in 2..4, k < Upto(p)' PROVE s[k] < Upto(p)
  <2>1. pass' > p
    BY <1>1, <1>6 DEF Upto
  <2>2. s[k] \in 1..Len(ops)
    BY <1>3, <1>5
  <2> QED BY <1>1, <1>5, <2>1, <2>2 DEF Upto
<1>7. NoneShared(Upto(2))'
  <2> SUFFICES ASSUME NEW k \in 1..Len(s), NEW l \in 1..Len(s), k < Upto(2)', Live[k].type = "MATMUL",
                      Live[l].type = "MATMUL", Live[k].in[1] = Live[l].in[1]
               PROVE  k = l
    BY <1>1, <1>3 DEF NoneShared
  <2>1. s[k] = s[l]
    BY <1>2, <1>3, <1>6 DEF NothingLeftBehind, NoneShared
  <2>2. (k < l => s[k] < s[l]) /\ (l < k => s[l] < s[k])
    BY <1>2 DEF Lists
  <2>3. s[k] \in Nat
    BY <1>3, <1>5
  <2> QED BY <1>3, <2>1, <2>2, <2>3
<1>8. AddsKept(Upto(3))'
  <2> SUFFICES ASSUME NEW k \in 1..Len(s), k < Upto(3)', Live[k].type = "ADD", NEW n \in 1..2
               PROVE  Kept(k, n, "MATMUL")'
    BY <1>1, <1>3 DEF AddsKept
  <2>1. Kept(s[k], n, "MATMUL")
    BY <1>2, <1>3, <1>6 DEF NothingLeftBehind, AddsKept
  <2> QED BY <1>2, <1>3, <2>1, LiveKept
<1>9. RopesKept(Upto(4))'
  <2> SUFFICES ASSUME NEW k \in 1..Len(s), k < Upto(4)', Live[k].type = "ATTENTION", ~Live[k].rope
               PROVE  \E n \in 1..2 : Kept(k, n, "ROPE")'
    BY <1>1, <1>3 DEF RopesKept
  <2>1. PICK n \in 1..2 : Kept(s[k], n, "ROPE")
    BY <1>2, <1>3, <1>6 DEF NothingLeftBehind, RopesKept
  <2>2. Kept(k, n, "ROPE")'
    BY <1>2, <1>3, <2>1, LiveKept
  <2> QED BY <2>2
<1> QED BY <1>4, <1>7, <1>8, <1>9 DEF NothingLeftBehind

\* A tensor with one consumer is read in one place.
LEMMA OnePlace ==
  ASSUME FusInv, NEW t, NEW k, OnlyConsumer(t, k), NEW r \in Readers(t), NEW q \in Readers(t)
  PROVE  r = q
<1>1. IsFiniteSet(Readers(t)) /\ Cardinality(Readers(t)) = 1
  BY ReadersFinite DEF FusInv, OnlyConsumer
<1>2. \E x : Readers(t) = {x}
  BY <1>1, FS_Singleton
<1> QED BY <1>2

\* An operand that a pass has left to its op is not taken when the list has not changed.
LEMMA KeptIsNotTaken ==
  ASSUME FusInv, dead = {}, start = ops, i \in DOMAIN ops, NEW n \in DOMAIN ops[i].in, NEW type, Kept(i, n, type),
         Is(Producer(ops[i].in[n]), type)
  PROVE  ~OnlyConsumer(ops[i].in[n], i)
<1> DEFINE t == ops[i].in[n]
           m == Producer(t)
<1>1. m \in DOMAIN ops /\ t \in Writes(ops[m]) /\ ops[m].type = type /\ Left = DOMAIN ops
  BY ProducerWrites DEF Is, Left
<1>2. PICK l \in DOMAIN ops : \E o \in DOMAIN ops[l].in : ops[l].in[o] = t /\ <<l, o>> # <<i, n>>
  BY <1>1 DEF Kept, ReadElsewhere
<1>3. PICK o \in DOMAIN ops[l].in : ops[l].in[o] = t /\ <<l, o>> # <<i, n>>
  BY <1>2
<1>4. <<l, o>> \in Readers(t) /\ <<i, n>> \in Readers(t)
  BY <1>2, <1>3 DEF Readers
<1> HIDE DEF t, m
<1>5. ~OnlyConsumer(t, i)
  BY <1>3, <1>4, OnePlace
<1> QED BY <1>5 DEF t

\* In the second round no pass finds what it looks for.
LEMMA NothingFound ==
  ASSUME FusInv, NothingLeftBehind, Quiet, pass > Len(Passes)
  PROVE  ~Fuse
<1>1. /\ dead = {} /\ start = ops /\ Left = DOMAIN ops /\ DOMAIN ops = 1..Len(ops) /\ Len(ops) \in Nat
      /\ Upto(2) = Len(ops) + 1 /\ Upto(3) = Len(ops) + 1 /\ Upto(4) = Len(ops) + 1
  <2>1. pass \in Nat /\ pass > 4
    <3>1. pass \in 1..9 /\ Len(Passes) = 4
      BY PassNames
    <3> QED BY <3>1
  <2>2. Upto(2) = Len(ops) + 1 /\ Upto(3) = Len(ops) + 1 /\ Upto(4) = Len(ops) + 1
    BY <2>1 DEF Upto
  <2>3. dead = {} /\ start = ops /\ DOMAIN ops = 1..Len(ops) /\ Len(ops) \in Nat
    BY DEF Quiet, FusInv, Types
  <2> QED BY <2>2, <2>3 DEF Left
<1>2. ASSUME NEW s \in 1..2, FuseSwiglu(s) PROVE FALSE
  <2> DEFINE a == ops[i].in[s]
             b == ops[i].in[3 - s]
             si == Producer(a)
             ui == Producer(b)
             c == ops[si].in[1]
             gi == Producer(c)
  <2>1. /\ Is(i, "MUL") /\ Is(si, "SILU") /\ Is(ui, "MATMUL") /\ Is(gi, "MATMUL") /\ ops[gi].in[1] = ops[ui].in[1]
        /\ OnlyConsumer(b, i) /\ OnlyConsumer(c, si)
    BY <1>2 DEF FuseSwiglu, Swiglu
  <2> HIDE DEF a, b, c, si
  <2>2. gi \in DOMAIN ops /\ ui \in DOMAIN ops /\ c \in Writes(ops[gi]) /\ b \in Writes(ops[ui])
    BY <1>1, <2>1, ProducerWrites DEF Is
  <2> HIDE DEF gi, ui
  <2>3. gi = ui
    BY <1>1, <2>1, <2>2 DEF NothingLeftBehind, NoneShared, Is
  <2>4. b = c
    BY <2>1, <2>2, <2>3, TwoOperands DEF Is
  <2>5. PICK r, q \in Readers(b) : r[1] = i /\ q[1] = si
    BY <2>1, <2>4 DEF OnlyConsumer
  <2>6. i = si
    BY <2>1, <2>5, OnePlace
  <2> QED BY <2>1, <2>6 DEF Is
<1>3. ASSUME FuseShared PROVE FALSE
  <2>1. Shared
    BY <1>3 DEF FuseShared
  <2>2. 1 \in 1..Len(Group) /\ 2 \in 1..Len(Group) /\ Group[1] = i
    BY <2>1, GroupLists
  <2>3. /\ i \in DOMAIN ops /\ ops[i].type = "MATMUL"
        /\ Group[2] \in DOMAIN ops /\ ops[Group[2]].type = "MATMUL" /\ ops[Group[2]].in[1] = ops[i].in[1]
    BY <2>1, <2>2, GroupLists
  <2>4. i = Group[2]
    BY <1>1, <2>3 DEF NothingLeftBehind, NoneShared
  <2> QED BY <2>1, <2>2, <2>4, GroupLists
<1>4. ASSUME NEW s \in 1..2, FuseResidual(s) PROVE FALSE
  <2>1. /\ Is(i, "ADD") /\ Is(Producer(ops[i].in[s]), "MATMUL") /\ OnlyConsumer(ops[i].in[s], i) /\ i <= Len(ops)
    BY <1>4 DEF FuseResidual, Residual, Walking
  <2>2. i \in DOMAIN ops /\ ops[i].type = "ADD"
    BY <1>1, <2>1 DEF Is, FusInv, Types
  <2>3. Kept(i, s, "MATMUL")
    BY <1>1, <2>2 DEF NothingLeftBehind, AddsKept
  <2>4. s \in DOMAIN ops[i].in
    BY <2>2, FirstOperands
  <2> QED BY <1>1, <2>1, <2>2, <2>3, <2>4, KeptIsNotTaken
<1>5. ASSUME FuseRope PROVE FALSE
  <2>1. /\ Is(i, "ATTENTION") /\ ~ops[i].rope /\ i <= Len(ops)
        /\ \A n \in 1..2 : Is(Producer(ops[i].in[n]), "ROPE") /\ OnlyConsumer(ops[i].in[n], i)
    BY <1>5 DEF FuseRope, Rope, Walking
  <2>2. i \in DOMAIN ops /\ ops[i].type = "ATTENTION"
    BY <1>1, <2>1 DEF Is, FusInv, Types
  <2>3. PICK n \in 1..2 : Kept(i, n, "ROPE")
    BY <1>1, <2>1, <2>2 DEF NothingLeftBehind, RopesKept
  <2>4. n \in DOMAIN ops[i].in
    BY <2>2, FirstOperands
  <2> QED BY <1>1, <2>1, <2>2, <2>3, <2>4, KeptIsNotTaken
<1> QED BY <1>2, <1>3, <1>4, <1>5 DEF Fuse

\* A list of numbers that has each of 1 to n is these in order.
LEMMA ListsAll ==
  ASSUME NEW n \in Nat, NEW s, Lists(s, 1..n)
  PROVE  Len(s) = n /\ \A a \in 1..n : s[a] = a
<1>1. /\ Len(s) \in Nat /\ \A a \in 1..Len(s) : s[a] \in 1..n
      /\ \A a, b \in 1..Len(s) : a < b => s[a] < s[b]
      /\ \A k \in 1..n : \E a \in 1..Len(s) : s[a] = k
  <2>1. PICK S : S = 1..n
    OBVIOUS
  <2>2. s \in Seq(S) /\ Len(s) \in Nat
    BY <2>1 DEF Lists
  <2>3. \A a \in 1..Len(s) : s[a] \in S
    BY <2>2
  <2> QED BY <2>1, <2>2, <2>3 DEF Lists
<1>2. ASSUME NEW a \in Nat, a \in 1..Len(s), \A b \in 1..a-1 : s[b] = b PROVE s[a] = a
  <2>1. a <= s[a]
    <3>1. CASE a = 1
      BY <1>1, <1>2, <3>1
    <3>2. CASE a # 1
      <4>1. a - 1 \in 1..Len(s) /\ a - 1 < a /\ s[a - 1] = a - 1 /\ s[a] \in 1..n
        BY <1>1, <1>2, <3>2
      <4>2. s[a - 1] < s[a]
        BY <1>1, <1>2, <4>1
      <4> QED BY <1>2, <4>1, <4>2
    <3> QED BY <3>1, <3>2
  <2>2. a \in 1..n
    BY <1>1, <1>2, <2>1
  <2>3. PICK b \in 1..Len(s) : s[b] = a
    BY <1>1, <2>2
  <2>4. ~(b < a)
    BY <1>2, <2>3
  <2>5. ~(a < b)
    BY <1>1, <1>2, <2>1, <2>2, <2>3
  <2> QED BY <2>3, <2>4, <2>5
<1>3. \A a \in 1..Len(s) : s[a] = a
  <2> DEFINE Bad == {a \in 1..Len(s) : s[a] # a}
  <2> SUFFICES ASSUME Bad # {} PROVE FALSE
    OBVIOUS
  <2>1. Bad \in SUBSET Nat
    BY <1>1
  <2>2. PICK a \in Bad : \A b \in Bad : a <= b
    <3> HIDE DEF Bad
    <3> QED BY <2>1, LeastExists
  <2>3. \A b \in 1..a-1 : s[b] = b
    <3> SUFFICES ASSUME NEW b \in 1..a-1, b \in Bad PROVE FALSE
      BY <1>1
    <3>1. a <= b /\ a \in Nat
      BY <2>1, <2>2
    <3> QED BY <3>1
  <2> QED BY <1>1, <1>2, <2>3
<1>4. Len(s) = n
  <2>1. ~(n < Len(s))
    <3> SUFFICES ASSUME n < Len(s) PROVE FALSE
      OBVIOUS
    <3>1. Len(s) \in 1..Len(s)
      BY <1>1
    <3> QED BY <1>1, <1>3, <3>1
  <2>2. ~(Len(s) < n)
    <3> SUFFICES ASSUME Len(s) < n PROVE FALSE
      OBVIOUS
    <3>1. n \in 1..n
      BY <1>1
    <3> QED BY <1>1, <1>3, <3>1
  <2> QED BY <1>1, <2>1, <2>2
<1> QED BY <1>3, <1>4

\* compact leaves a list as it is that has no op absorbed.
LEMMA LiveIsAll ==
  ASSUME FusInv, dead = {}
  PROVE  Live = ops
<1>1. PICK s : /\ Lists(s, Left) /\ Len(Live) = Len(s) /\ Live \in Seq(OpRecord)
               /\ \A n \in 1..Len(s) : Live[n] = ops[s[n]]
  BY LiveLists DEF FusInv
<1>2. Left = 1..Len(ops) /\ Len(ops) \in Nat /\ ops \in Seq(OpRecord)
  BY DEF Left, FusInv, Types
<1>3. Len(s) = Len(ops) /\ \A a \in 1..Len(ops) : s[a] = a
  BY <1>1, <1>2, ListsAll
<1>4. \A n \in 1..Len(ops) : Live[n] = ops[n]
  BY <1>1, <1>3
<1> HIDE DEF OpRecord
<1> QED BY <1>1, <1>2, <1>3, <1>4, SeqEqual

\* The model has had no pass.
LEMMA IdemInit == Init => IdemInv
<1> SUFFICES ASSUME Init PROVE IdemInv
  OBVIOUS
<1>1. dead = {} /\ start = ops /\ pass = 1 /\ i = 1 /\ Left = DOMAIN ops /\ ops = model
  BY DEF Init, Left
<1>2. Upto(2) = 1 /\ Upto(3) = 1 /\ Upto(4) = 1
  BY <1>1 DEF Upto
<1>3. \A k \in Left : ~(k < 1)
  BY <1>1, ModelsAreGraphs DEF Init, IsGraph
<1>4. NothingLeftBehind
  BY <1>2, <1>3 DEF NothingLeftBehind, NoneShared, AddsKept, RopesKept
<1>5. StillRead /\ Quiet
  BY <1>1 DEF StillRead, Quiet
<1> QED BY <1>4, <1>5 DEF IdemInv

\* Every turn keeps it, and in the second round the list.
LEMMA IdemNext ==
  ASSUME FusInv, IdemInv, [Next]_vars
  PROVE  IdemInv' /\ (pass > Len(Passes) => ops' = ops)
<1>1. CASE Fuse
  <2>1. PICK o, D : Absorbs(o, D) /\ Rewrite(o, D)
    BY <1>1, FuseAbsorbs
  <2>2. ~(pass > Len(Passes)) /\ pass' = pass /\ Len(Passes) = 4
    BY <1>1, <2>1, NothingFound, PassNames DEF IdemInv, Rewrite
  <2>3. StillRead'
    BY <2>1, FuseReads DEF IdemInv
  <2>4. NothingLeftBehind'
    BY <2>1, FuseLeaves DEF IdemInv
  <2>5. Quiet'
    BY <2>2 DEF Quiet, Passes
  <2> QED BY <2>2, <2>3, <2>4, <2>5 DEF IdemInv
<1>2. CASE Skip
  <2>1. i' = i + 1 /\ UNCHANGED <<model, ops, pass, start, dead>> /\ Left' = Left
    BY <1>2 DEF Skip, Left
  <2>2. StillRead'
    <3>1. \A r \in Left : r < i => r < i'
      BY <2>1 DEF FusInv, Types, Left
    <3> QED BY <2>1, <3>1 DEF IdemInv, StillRead
  <2>3. Quiet'
    BY <2>1 DEF IdemInv, Quiet
  <2>4. NothingLeftBehind'
    BY <1>2, SkipLeaves DEF IdemInv
  <2> QED BY <2>1, <2>2, <2>3, <2>4 DEF IdemInv
<1>3. CASE EndPass
  <2>1. StillRead' /\ NothingLeftBehind' /\ Quiet'
    BY <1>3, EndPassLeaves DEF IdemInv
  <2>2. pass > Len(Passes) => ops' = ops
    BY <1>3, LiveIsAll DEF IdemInv, Quiet, EndPass
  <2> QED BY <2>1, <2>2 DEF IdemInv
<1>4. CASE UNCHANGED vars
  <2>1. UNCHANGED <<model, ops, pass, start, i, dead>>
    BY <1>4 DEF vars
  <2>2. Left' = Left
    BY <2>1 DEF Left
  <2>3. StillRead' /\ Quiet'
    BY <2>1, <2>2 DEF IdemInv, StillRead, Quiet
  <2>4. Upto(2)' = Upto(2) /\ Upto(3)' = Upto(3) /\ Upto(4)' = Upto(4)
    BY <2>1 DEF Upto
  <2>5. NothingLeftBehind'
    BY <2>1, <2>2, <2>4 DEF IdemInv, NothingLeftBehind, NoneShared, AddsKept, RopesKept, Kept, ReadElsewhere
  <2> QED BY <2>1, <2>3, <2>5 DEF IdemInv
<1> QED BY <1>1, <1>2, <1>3, <1>4 DEF Next, Done, Fuse
-----------------------------------------------------------------------------
(* The theorems                                                            *)

\* Every turn keeps the invariant.
LEMMA FusNext == FusInv /\ [Next]_vars => FusInv' /\ (Used => Used')
<1> SUFFICES ASSUME FusInv, [Next]_vars PROVE FusInv' /\ (Used => Used')
  OBVIOUS
<1>1. CASE Fuse
  <2>1. PICK o, D : Absorbs(o, D) /\ Rewrite(o, D)
    BY <1>1, FuseAbsorbs
  <2> QED BY <2>1, RewriteKeeps
<1>2. CASE Skip
  BY <1>2, SkipKeeps
<1>3. CASE EndPass
  BY <1>3, EndPassKeeps
<1>4. CASE UNCHANGED vars
  <2>1. UNCHANGED <<model, ops, pass, start, i, dead>>
    BY <1>4 DEF vars
  <2>2. Tensors' = Tensors /\ Output' = Output /\ Meaning(model)' = Meaning(model) /\ PassName' = PassName
    BY <2>1, SameModel DEF PassName
  <2>3. \A k \in DOMAIN ops : Sound(ops[k])'
    BY <2>1, <2>2 DEF FusInv, Walked, Sound
  <2>4. Types' /\ Started' /\ Walked'
    BY <2>1, <2>2, <2>3 DEF FusInv, Types, Started, Walked
  <2>5. LeftOnce' /\ LeftInOrder' /\ ReadBefore' /\ OutputLeft'
    BY <2>1, <2>2 DEF FusInv, LeftOnce, LeftInOrder, ReadBefore, OutputLeft, Left
  <2>6. Used => Used'
    BY <2>1, <2>2 DEF Used, Left
  <2> QED BY <2>4, <2>5, <2>6 DEF FusInv
<1> QED BY <1>1, <1>2, <1>3, <1>4 DEF Next, Done, Fuse

\* The invariant holds in every state.
LEMMA FusInvariant == Spec => []FusInv
  BY InitInv, FusNext, PTL DEF Spec

\* What a list computes is the same of a list that has no op absorbed: every op of it is sound, each tensor is
\* written once, before it is read and for somebody to read it, the output among them.
LEMMA NoneAbsorbed ==
  ASSUME FusInv, Used, dead = {}
  PROVE  /\ ops \in Seq(OpRecord) /\ WrittenOnce(ops) /\ InOrder(ops)
         /\ \A k \in DOMAIN ops : Sound(ops[k])
         /\ \A k \in DOMAIN ops : \A t \in Writes(ops[k]) : t = Output \/ \E l \in DOMAIN ops : t \in Reads(ops[l])
         /\ \E k \in DOMAIN ops : Output \in Writes(ops[k])
<1>1. Left = DOMAIN ops /\ ops \in Seq(OpRecord) /\ DOMAIN ops = 1..Len(ops) /\ Len(ops) \in Nat
  BY DEF Left, FusInv, Types
<1>2. WrittenOnce(ops)
  BY <1>1 DEF FusInv, LeftOnce, WrittenOnce
<1>3. InOrder(ops)
  <2> SUFFICES ASSUME NEW k \in DOMAIN ops, NEW t \in Range(ops[k].in), t > 0
               PROVE  \E l \in 1..k-1 : t \in Range(ops[l].out)
    BY DEF InOrder
  <2>1. PICK l \in DOMAIN ops : l < k /\ t \in Range(ops[l].out)
    BY <1>1 DEF FusInv, LeftInOrder, Reads, Writes
  <2> QED BY <1>1, <2>1
<1> QED BY <1>1, <1>2, <1>3 DEF FusInv, Walked, OutputLeft, Used

\* A model's leaves are what they are when it starts.
LEMMA LeavesKept ==
  ASSUME model \in Models
  PROVE  \A t \in Tensors : t <= 0 => Meaning(model)[t] = <<"leaf", t>>
  BY ModelRuns, MeaningSolves DEF Leaves

\* After every turn of every pass, the ops that are left read only what an earlier one of them has
\* written: the passes keep a valid topological order (passes.hpp, test_graph.cpp), for any graph.
THEOREM OrderIsKept == Spec => []ProducedBeforeRead
<1>1. FusInv => ProducedBeforeRead
  BY LiveRuns DEF ProducedBeforeRead
<1> QED BY <1>1, FusInvariant, PTL

\* After every turn of every pass, the ops that are left give the graph's output the term that the graph
\* as exported gives it: no fusion, and no order of fusions, changes what is computed (passes.cpp).
THEOREM ValueIsKept == Spec => []ComputesTheSame
<1>1. FusInv => ComputesTheSame
  BY LiveComputes
<1> QED BY <1>1, FusInvariant, PTL

\* Passes that run again on the optimized graph change nothing, for any graph: whatever a pass leaves, none
\* of the later ones gives it anew what it looks for ("idempotent", test_graph.cpp).
THEOREM SecondRoundFindsNothing == Spec => Idempotent
<1>1. FusInv /\ IdemInv /\ [Next]_vars => IdemInv' /\ (pass > Len(Passes) => ops' = ops)
  BY IdemNext
<1>2. FusInv /\ IdemInv /\ [Next]_vars => IdemInv' /\ [pass > Len(Passes) => ops' = ops]_vars
  BY <1>1
<1> QED BY <1>2, IdemInit, FusInvariant, PTL DEF Spec, Idempotent
=============================================================================
