---------------------------- MODULE Build_proofs ----------------------------
(***************************************************************************)
(* A session from its model to its logits, for any model, any sizes of its *)
(* tensors, any preferences of the user and any number of forwards: first  *)
(* the delegates and forward's loops by themselves, then the passes and    *)
(* the planner, whose invariants are taken over from their own modules,    *)
(* then what the arena holds, and last the weights.                        *)
(***************************************************************************)
EXTENDS Build, FiniteSetTheorems, WellFoundedInduction, TLAPS

\* The loops of forward.
Running == (\E called \in {"prefill", "decode"} : Begin(called)) \/ RunOp \/ NextPart \/ Return

Part == [backend : Backends, begin : Nat, end : Nat]
N == Len(parts)

\* Stages of the constructor: ops are assigned with the reference backend among the delegates.
Stages ==
  /\ pref \in Seq(Backends) /\ i \in 0..Len(ops)
  /\ phase \in {"make", "assign", "ready", "run", "refused"}
  /\ phase \in {"assign", "ready", "run"} => \E k \in DOMAIN pref : pref[k] = "reference"
  /\ phase \in {"ready", "run"} => i = Len(ops)
  /\ phase = "make" => parts = <<>> /\ i = 0 /\ ran = <<>>
  /\ phase \in {"assign", "refused"} => ran = <<>>

\* The partitions tile the ops assigned so far, each with ops that its backend was chosen for.
Tiled ==
  /\ parts \in Seq(Part)
  /\ \A k \in 1..N : parts[k].begin < parts[k].end /\ parts[k].end <= i
  /\ \A k \in 1..N : \A n \in parts[k].begin..parts[k].end-1 : Chosen(ops[n+1]) = parts[k].backend
  /\ \A k \in 1..N-1 : parts[k].backend # parts[k+1].backend /\ parts[k].end = parts[k+1].begin
  /\ IF N = 0 THEN i = 0 ELSE parts[1].begin = 0 /\ parts[N].end = i

\* The loops of forward have run the ops before op, each on the backend that was chosen for it.
Ordered ==
  /\ ran \in Seq(Nat \X Backends) /\ Len(ran) <= Len(ops)
  /\ \A k \in 1..Len(ran) : ran[k] = <<k - 1, Chosen(ops[k])>>
  /\ phase = "run" =>
       /\ part \in 1..N+1 /\ op \in Nat /\ Len(ran) = op
       /\ IF part <= N THEN parts[part].begin <= op /\ op <= parts[part].end ELSE op = Len(ops)

PartInv == Stages /\ Tiled /\ Ordered

-----------------------------------------------------------------------------
(* The choice of a backend                                                 *)

\* A set of natural numbers has a least one.
LEMMA LeastExists ==
  ASSUME NEW S \in SUBSET Nat, S # {}
  PROVE  \E m \in S : \A n \in S : m <= n
<1> DEFINE R == OpToRel(<, Nat)
<1>1. \A m, n \in Nat : m < n => <<m, n>> \in R
  BY DEF OpToRel
<1>2. IsWellFoundedOn(R, Nat)
  BY NatLessThanWellFounded
<1> HIDE DEF R
<1>3. PICK m \in S : \A n \in S : <<n, m>> \notin R
  BY <1>2, WFMin
<1>4. \A n \in S : ~(n < m)
  BY <1>1, <1>3
<1> QED BY <1>4

\* The reference backend claims every op.
LEMMA ReferenceSupports == ASSUME NEW o PROVE Supports("reference", o)
  BY DEF Supports

\* With the reference backend in the list, the one chosen claims the op and nobody before it does.
LEMMA ChosenIsPreferred ==
  ASSUME pref \in Seq(Backends), \E k \in DOMAIN pref : pref[k] = "reference", NEW o
  PROVE  Chosen(o) \in Backends /\ Preferred(o, Chosen(o))
<1> DEFINE K == {k \in DOMAIN pref : Supports(pref[k], o)}
<1>1. K # {} /\ K \in SUBSET Nat
  BY ReferenceSupports
<1>2. PICK m \in K : \A l \in K : m <= l
  BY <1>1, LeastExists
<1> DEFINE c == CHOOSE k \in K : \A l \in K : k <= l
<1>3. c \in K /\ \A l \in K : c <= l
  BY <1>2
<1>4. Chosen(o) = pref[c]
  BY <1>1 DEF Chosen
<1> HIDE DEF c
<1>5. c \in 1..Len(pref) /\ Supports(pref[c], o) /\ pref[c] \in Backends
  BY <1>3
<1>6. ASSUME NEW k \in DOMAIN pref, Supports(pref[k], o) PROVE \E l \in 1..k : pref[l] = pref[c]
  BY <1>3, <1>5, <1>6
<1> HIDE DEF K
<1> QED BY <1>4, <1>5, <1>6 DEF Preferred

-----------------------------------------------------------------------------
(* The steps                                                               *)

\* What the user gives makes backends, and the reference comes last.
LEMMA MakeStep ==
  ASSUME PartInv, Make \/ MakeReference
  PROVE  PartInv'
<1> USE DEF graphVars, loopVars, profVars
<1>1. /\ phase = "make" /\ phase' \in {"make", "assign", "refused"}
      /\ ops' = ops /\ parts' = parts /\ i' = i /\ ran' = ran
      /\ parts = <<>> /\ i = 0 /\ ran = <<>>
  BY DEF Make, MakeReference, PartInv, Stages
<1>2. pref' \in Seq(Backends) /\ (phase' = "assign" => \E k \in DOMAIN pref' : pref'[k] = "reference")
  <2>1. CASE Make
    <3>1. pref \in Seq(Backends) /\ phase' # "assign"
      BY <2>1, <1>1 DEF Make, PartInv, Stages
    <3>2. pref' = pref \/ \E b \in Backends : pref' = Append(pref, b)
      BY <2>1 DEF Make, Backends
    <3> QED BY <3>1, <3>2
  <2>2. CASE MakeReference
    <3>1. pref \in Seq(Backends) /\ "reference" \in Backends /\ pref' = Append(pref, "reference")
      BY <2>2 DEF MakeReference, PartInv, Stages, Backends
    <3>2. Len(pref) + 1 \in DOMAIN pref' /\ pref'[Len(pref) + 1] = "reference"
      BY <3>1
    <3> QED BY <3>1, <3>2
  <2> QED BY <2>1, <2>2
<1>3. Stages'
  BY <1>1, <1>2 DEF PartInv, Stages
<1>4. Tiled'
  BY <1>1 DEF PartInv, Tiled, N
<1>5. Ordered'
  BY <1>1 DEF PartInv, Ordered
<1> QED BY <1>3, <1>4, <1>5 DEF PartInv

\* What the partitions are.
LEMMA PartTypes ==
  ASSUME Tiled
  PROVE  /\ N \in Nat /\ (N = 0 <=> parts = <<>>)
         /\ \A k \in 1..N : /\ parts[k] \in Part /\ parts[k].backend \in Backends
                          /\ parts[k].begin \in Nat /\ parts[k].end \in Nat
                          /\ parts[k].begin < parts[k].end /\ parts[k].end <= i
<1>1. parts \in Seq(Part) /\ N = Len(parts)
  BY DEF Tiled, N
<1>2. \A k \in 1..N : parts[k] \in Part
  BY <1>1
<1>3. \A k \in 1..N : parts[k].backend \in Backends /\ parts[k].begin \in Nat /\ parts[k].end \in Nat
  BY <1>2 DEF Part
<1> QED BY <1>1, <1>2, <1>3 DEF Tiled

\* An op joins the last partition, when that is of its backend, or begins one.
LEMMA AssignStep == ASSUME PartInv, Len(ops) \in Nat, Assign PROVE PartInv'
<1> USE DEF graphVars, loopVars, profVars
<1> DEFINE b == Chosen(ops[i+1])
<1>1. /\ phase = "assign" /\ i \in Nat /\ i < Len(ops) /\ i' = i + 1
      /\ ops' = ops /\ types' = types /\ pref' = pref /\ ran' = ran /\ ran = <<>>
  BY DEF Assign, PartInv, Stages
<1>2. b \in Backends
  BY <1>1, ChosenIsPreferred DEF PartInv, Stages
<1>3. /\ phase' = phase
      /\ parts' = IF Joins(b) THEN [parts EXCEPT ![N].end = i + 1]
                  ELSE Append(parts, [backend |-> b, begin |-> i, end |-> i + 1])
  BY <1>2 DEF Assign, Extended, Backends, N
<1>4. \A o : Chosen(o)' = Chosen(o)
  BY <1>1 DEF Chosen, Supports, WeightTypes
<1>5. /\ parts \in Seq(Part) /\ N \in Nat /\ (N = 0 <=> parts = <<>>)
      /\ N > 0 => parts[1].begin = 0 /\ parts[N].end = i
      /\ N = 0 => i = 0
  BY DEF PartInv, Tiled, N
<1> HIDE DEF b
<1>6. Tiled'
  <2>1. CASE Joins(b)
    <3>1. N > 0 /\ parts[N].backend = b /\ parts[N] \in Part
      BY <1>5, <2>1 DEF Joins, N
    <3>2. /\ parts' \in Seq(Part) /\ N' = N
          /\ \A k \in 1..N-1 : parts'[k] = parts[k]
          /\ parts'[N].backend = b /\ parts'[N].begin = parts[N].begin /\ parts'[N].end = i + 1
      <4> DEFINE p == [parts[N] EXCEPT !.end = i + 1]
      <4>1. p \in Part /\ p.backend = b /\ p.begin = parts[N].begin /\ p.end = i + 1
        BY <1>1, <3>1 DEF Part
      <4>2. parts' = [parts EXCEPT ![N] = p]
        BY <1>3, <2>1
      <4> HIDE DEF p
      <4>3. parts \in [1..N -> Part] /\ N \in 1..N /\ N \in Nat
        BY <1>5, <3>1 DEF N
      <4>4. /\ parts' \in [1..N -> Part]
            /\ \A k \in 1..N-1 : parts'[k] = parts[k]
            /\ parts'[N] = p
        BY <4>1, <4>2, <4>3
      <4>5. parts' \in Seq(Part) /\ Len(parts') = N
        BY <4>3, <4>4
      <4> QED BY <4>1, <4>4, <4>5 DEF N
    <3>3. \A k \in 1..N : parts'[k].begin < parts'[k].end /\ parts'[k].end <= i'
      <4> TAKE k \in 1..N
      <4>1. parts[k].begin \in Nat /\ parts[k].end \in Nat /\ parts[k].begin < parts[k].end /\ parts[k].end <= i
        BY PartTypes DEF PartInv
      <4>2. CASE k = N
        BY <1>1, <1>5, <3>1, <3>2, <4>1, <4>2
      <4>3. CASE k # N
        <5>1. k \in 1..N-1 /\ parts'[k] = parts[k]
          BY <1>5, <3>2, <4>3
        <5> QED BY <1>1, <4>1, <5>1
      <4> QED BY <4>2, <4>3
    <3>4. \A k \in 1..N : \A n \in parts'[k].begin..parts'[k].end-1 : Chosen(ops[n+1]) = parts'[k].backend
      <4> SUFFICES ASSUME NEW k \in 1..N, NEW n \in parts'[k].begin..parts'[k].end-1
                   PROVE  Chosen(ops[n+1]) = parts'[k].backend
        OBVIOUS
      <4>1. CASE k \in 1..N-1
        BY <3>2, <4>1 DEF PartInv, Tiled
      <4>2. CASE k = N /\ n = i
        BY <3>2, <4>2 DEF b
      <4>3. CASE k = N /\ n # i
        <5>0. parts[N].begin \in Nat /\ parts[N].end = i /\ n \in parts[N].begin..i
          BY <1>1, <1>5, <3>1, <3>2, <4>3, PartTypes DEF PartInv
        <5>1. n \in parts[N].begin..parts[N].end-1
          BY <1>1, <4>3, <5>0
        <5> QED BY <3>1, <3>2, <4>3, <5>1 DEF PartInv, Tiled
      <4> QED BY <1>5, <4>1, <4>2, <4>3
    <3>5. \A k \in 1..N-1 : parts'[k].backend # parts'[k+1].backend /\ parts'[k].end = parts'[k+1].begin
      <4> TAKE k \in 1..N-1
      <4>1. k \in 1..N-1 /\ k + 1 \in 1..N /\ (k + 1 \in 1..N-1 \/ k + 1 = N)
        BY <1>5
      <4>2. parts[k].backend # parts[k+1].backend /\ parts[k].end = parts[k+1].begin
        BY DEF PartInv, Tiled
      <4>3. parts'[k] = parts[k]
        BY <3>2
      <4>4. parts'[k+1].backend = parts[k+1].backend /\ parts'[k+1].begin = parts[k+1].begin
        BY <3>1, <3>2, <4>1
      <4> QED BY <4>2, <4>3, <4>4
    <3>6. parts'[1].begin = 0 /\ parts'[N].end = i'
      BY <1>1, <1>5, <3>1, <3>2
    <3> QED BY <1>1, <1>4, <3>1, <3>2, <3>3, <3>4, <3>5, <3>6 DEF Tiled
  <2>2. CASE ~Joins(b)
    <3> DEFINE p == [backend |-> b, begin |-> i, end |-> i + 1]
    <3>1. p \in Part /\ parts' = Append(parts, p)
      BY <1>1, <1>2, <1>3, <2>2 DEF Part
    <3>2. /\ parts' \in Seq(Part) /\ N' = N + 1 /\ N' \in Nat
          /\ \A k \in 1..N : parts'[k] = parts[k]
          /\ parts'[N + 1] = p
      BY <1>5, <3>1 DEF N
    <3>3. p.backend = b /\ p.begin = i /\ p.end = i + 1
      OBVIOUS
    <3> HIDE DEF p
    <3>4. \A k \in 1..N+1 : parts'[k].begin < parts'[k].end /\ parts'[k].end <= i'
      <4> TAKE k \in 1..N+1
      <4>1. CASE k \in 1..N
        <5>1. parts'[k] = parts[k] /\ parts[k].end \in Nat /\ parts[k].begin < parts[k].end /\ parts[k].end <= i
          BY <3>2, <4>1, PartTypes DEF PartInv
        <5> QED BY <1>1, <5>1
      <4>2. CASE k = N + 1
        BY <1>1, <3>2, <3>3, <4>2
      <4> QED BY <1>5, <4>1, <4>2
    <3>5. \A k \in 1..N+1 : \A n \in parts'[k].begin..parts'[k].end-1 : Chosen(ops[n+1]) = parts'[k].backend
      <4> SUFFICES ASSUME NEW k \in 1..N+1, NEW n \in parts'[k].begin..parts'[k].end-1
                   PROVE  Chosen(ops[n+1]) = parts'[k].backend
        OBVIOUS
      <4>1. CASE k \in 1..N
        BY <3>2, <4>1 DEF PartInv, Tiled
      <4>2. CASE k = N + 1
        <5>1. n = i
          BY <1>1, <3>2, <3>3, <4>2
        <5> QED BY <3>2, <3>3, <4>2, <5>1 DEF b
      <4> QED BY <1>5, <4>1, <4>2
    <3>6. \A k \in 1..N : parts'[k].backend # parts'[k+1].backend /\ parts'[k].end = parts'[k+1].begin
      <4> TAKE k \in 1..N
      <4>1. CASE k \in 1..N-1
        <5>1. k + 1 \in 1..N
          BY <1>5, <4>1
        <5> QED BY <3>2, <4>1, <5>1 DEF PartInv, Tiled
      <4>2. CASE k = N
        BY <1>5, <2>2, <3>2, <3>3, <4>2 DEF Joins, N
      <4> QED BY <1>5, <4>1, <4>2
    <3>7. parts'[1].begin = 0 /\ parts'[N + 1].end = i'
      <4>1. CASE N = 0
        BY <1>1, <1>5, <3>2, <3>3, <4>1
      <4>2. CASE N > 0
        BY <1>1, <1>5, <3>2, <3>3, <4>2
      <4> QED BY <1>5, <4>1, <4>2
    <3> QED BY <1>1, <1>4, <1>5, <3>2, <3>4, <3>5, <3>6, <3>7 DEF Tiled
  <2> QED BY <2>1, <2>2
<1>7. Stages' /\ Ordered'
  BY <1>1, <1>3 DEF PartInv, Stages, Ordered
<1> QED BY <1>6, <1>7 DEF PartInv

\* A forward begins at the first op, runs the ops of a partition and goes on to the next, which begins
\* where it ended.
LEMMA ForwardStep ==
  ASSUME PartInv, Len(ops) \in Nat, Assigned \/ Running
  PROVE  PartInv'
<1> USE DEF graphVars, loopVars, profVars
<1>1. /\ ops' = ops /\ types' = types /\ pref' = pref /\ parts' = parts /\ i' = i
      /\ phase \in {"assign", "ready", "run"} /\ phase' \in {"ready", "run"}
      /\ phase' = "ready" \/ phase' = "run"
  BY DEF Assigned, Running, Begin, RunOp, NextPart, Return
<1>2. \A o : Chosen(o)' = Chosen(o)
  BY <1>1 DEF Chosen, Supports, WeightTypes
<1>3. Tiled' /\ N' = N
  BY <1>1, <1>2 DEF PartInv, Tiled, N
<1>4. i = Len(ops)
  BY DEF Assigned, Running, Begin, RunOp, NextPart, Return, PartInv, Stages
<1>5. Stages'
  BY <1>1, <1>4 DEF PartInv, Stages
<1>6. /\ parts \in Seq(Part) /\ N \in Nat /\ (N = 0 <=> parts = <<>>)
      /\ \A k \in 1..N : parts[k].begin \in Nat /\ parts[k].end \in Nat /\ parts[k].begin < parts[k].end
                         /\ parts[k].end <= Len(ops) /\ parts[k].backend \in Backends
      /\ \A k \in 1..N-1 : parts[k].end = parts[k+1].begin
      /\ IF N = 0 THEN Len(ops) = 0 ELSE parts[1].begin = 0 /\ parts[N].end = Len(ops)
  <2>1. Tiled /\ N \in Nat
    BY PartTypes DEF PartInv
  <2> QED BY <1>4, <2>1, PartTypes DEF Tiled
<1>7. Ordered'
  <2>1. CASE \E called \in {"prefill", "decode"} : Begin(called)
    <3>1. part' = 1 /\ ran' = <<>> /\ op' = IF N = 0 THEN 0 ELSE parts[1].begin
      BY <1>6, <2>1 DEF Begin
    <3> QED BY <1>1, <1>3, <1>6, <3>1 DEF Ordered
  <2>2. CASE RunOp
    <3>1. /\ phase = "run" /\ part' = part /\ op' = op + 1 /\ op \in Nat /\ Len(ran) = op
          /\ part \in 1..N /\ parts[part].begin <= op /\ op < parts[part].end
          /\ ran' = Append(ran, <<op, parts[part].backend>>) /\ ran \in Seq(Nat \X Backends)
      BY <1>6, <2>2 DEF RunOp, PartInv, Ordered, N
    <3>2. parts[part].backend = Chosen(ops[op + 1]) /\ op + 1 <= Len(ops) /\ op + 1 <= parts[part].end
      <4>1. op \in parts[part].begin..parts[part].end-1
        BY <1>6, <3>1
      <4> QED BY <1>6, <3>1, <4>1, SMTT(40) DEF PartInv, Tiled
    <3>3. /\ ran' \in Seq(Nat \X Backends) /\ Len(ran') = op + 1
          /\ \A k \in 1..op : ran'[k] = ran[k]
          /\ ran'[op + 1] = <<op, parts[part].backend>>
      BY <1>6, <3>1, SMTT(40)
    <3>4. ASSUME NEW k \in 1..op+1 PROVE ran'[k] = <<k - 1, Chosen(ops[k])>>
      <4>1. CASE k \in 1..op
        BY <3>1, <3>3, <4>1 DEF PartInv, Ordered
      <4>2. CASE k = op + 1
        BY <3>1, <3>2, <3>3, <4>2
      <4> QED BY <3>1, <4>1, <4>2
    <3>5. parts[part].begin <= op'
      BY <1>6, <3>1
    <3> QED BY <1>1, <1>2, <1>3, <1>6, <3>1, <3>2, <3>3, <3>4, <3>5, SMTT(40) DEF Ordered
  <2>3. CASE NextPart
    <3>1. /\ phase = "run" /\ ran' = ran /\ part' = part + 1 /\ part \in 1..N /\ op \in Nat /\ Len(ran) = op
          /\ op = parts[part].end
          /\ op' = IF part < N THEN parts[part+1].begin ELSE op
      BY <1>6, <2>3 DEF NextPart, PartInv, Ordered, N
    <3>2. op' = op /\ part' \in 1..N+1
      <4>1. part' \in 1..N+1
        BY <1>6, <3>1
      <4>2. part < N => part \in 1..N-1
        BY <1>6, <3>1
      <4> QED BY <1>6, <3>1, <4>1, <4>2
    <3>3. IF part' <= N THEN parts[part'].begin <= op /\ op <= parts[part'].end ELSE op = Len(ops)
      <4>1. CASE part < N
        <5>1. part + 1 \in 1..N /\ parts[part+1].begin = op
          BY <1>6, <3>1, <4>1
        <5>2. parts[part+1].begin <= parts[part+1].end
          BY <1>6, <5>1
        <5> QED BY <3>1, <5>1, <5>2
      <4>2. CASE part = N
        BY <1>6, <3>1, <4>2
      <4> QED BY <1>6, <3>1, <4>1, <4>2
    <3> QED BY <1>1, <1>2, <1>3, <3>1, <3>2, <3>3 DEF PartInv, Ordered
  <2>4. CASE Assigned \/ Return
    <3>1. ran' = ran /\ phase' = "ready"
      BY <2>4 DEF Assigned, Return
    <3> QED BY <1>1, <1>2, <3>1 DEF PartInv, Ordered
  <2> QED BY <2>1, <2>2, <2>3, <2>4 DEF Running
<1> QED BY <1>3, <1>5, <1>7 DEF PartInv

\* The steps of the constructor and of forward keep the invariant.
LEMMA PartNext ==
  ASSUME PartInv, Len(ops) \in Nat, Constructing \/ Running
  PROVE  PartInv' /\ ops' = ops
<1>1. ops' = ops
  BY DEF Constructing, Make, MakeReference, Assign, Assigned, Running, Begin, RunOp, NextPart, Return,
     graphVars
<1> QED BY <1>1, MakeStep, AssignStep, ForwardStep DEF Constructing

-----------------------------------------------------------------------------
(* What the invariant says of the delegates                                *)

\* What a forward has run, and on which backend.
LEMMA RanIsChosen ==
  ASSUME PartInv, Len(ops) \in Nat, NEW k \in DOMAIN ran
  PROVE  /\ ran[k][1] = k - 1 /\ ran[k][2] = Chosen(ops[k]) /\ k <= Len(ops)
         /\ Preferred(ops[k], ran[k][2])
<1>1. ran # <<>> /\ k \in 1..Len(ran) /\ Len(ran) <= Len(ops)
  BY DEF PartInv, Ordered
<1>2. ran[k] = <<k - 1, Chosen(ops[k])>>
  BY <1>1 DEF PartInv, Ordered
<1>3. \E n \in DOMAIN pref : pref[n] = "reference"
  BY <1>1 DEF PartInv, Stages
<1> QED BY <1>1, <1>2, <1>3, ChosenIsPreferred DEF PartInv, Stages

\* A forward leaves no op out, runs none twice or out of order, and gives each to the first backend that
\* claims it, by all of the op's weights; neighbouring partitions differ and meet, and none is empty.
LEMMA PartSafe ==
  ASSUME PartInv, Len(ops) \in Nat
  PROVE  RunsEveryOpOnce /\ NarrowBackendIsSpared /\ PartitionsAreMaximal
<1>1. RunsEveryOpOnce
  <2>1. phase = "run" /\ part > Len(parts) => Len(ran) = Len(ops)
    BY DEF PartInv, Ordered, Tiled, N
  <2> QED BY <2>1, RanIsChosen DEF RunsEveryOpOnce
<1>2. NarrowBackendIsSpared
  <2> SUFFICES ASSUME NEW k \in DOMAIN ran, ran[k][2] = "matmul-only"
               PROVE  ops[k].type \in Matmuls /\ "q4" \notin WeightTypes(ops[k])
    BY DEF NarrowBackendIsSpared
  <2>1. Supports("matmul-only", ops[k])
    BY RanIsChosen DEF Preferred
  <2> QED BY <2>1 DEF Supports
<1>3. PartitionsAreMaximal
  <2>1. parts \in Seq(Part) /\ Tiled
    BY DEF PartInv, Tiled
  <2>2. DOMAIN parts = 1..N
    BY <2>1 DEF N
  <2> QED BY <2>1, <2>2, SMTT(40) DEF Tiled, N, PartitionsAreMaximal
<1> QED BY <1>1, <1>2, <1>3

-----------------------------------------------------------------------------
(* The profiler's events                                                   *)

Phases == {"prefill", "decode"}
OpTypes == {ops[k].type : k \in DOMAIN ops}
EventOf(p, type, b) == [phase |-> p, type |-> type, backend |-> b]
EventType == [phase : Phases, type : OpTypes \cup {"COUNT"}, backend : Backends \cup {"none"}]
\* Of the first n ops, those of a type that a backend runs.
Share(type, b, n) == {k \in 1..n : ops[k].type = type /\ Preferred(ops[k], b)}

\* What has been counted: whole forwards, and the one that runs as far as it has come.
Counted ==
  \A p \in Phases, b \in Backends, type \in OpTypes :
    Calls(p, type, b) = Spans(p) * Cardinality(Share(type, b, Len(ops)))
                          + (IF phase = "run" /\ name = p THEN Cardinality(Share(type, b, Len(ran))) ELSE 0)
Profiled ==
  /\ name \in Phases /\ events \in Seq(EventType)
  /\ phase \in {"make", "assign", "refused"} => events = <<>>
  /\ Counted

\* How many elements of e are v.
Times(e, v) == Cardinality({k \in DOMAIN e : e[k] = v})

\* Of one more event, how many are v.
LEMMA CountMore ==
  ASSUME NEW S, NEW e \in Seq(S), NEW x \in S, NEW v
  PROVE  Times(e, v) \in Nat /\ Times(Append(e, x), v) = Times(e, v) + IF x = v THEN 1 ELSE 0
<1> DEFINE n == Len(e)
           A == {k \in DOMAIN e : e[k] = v}
           B == {k \in DOMAIN Append(e, x) : Append(e, x)[k] = v}
<1>1. n \in Nat /\ DOMAIN e = 1..n /\ DOMAIN Append(e, x) = 1..n+1
  OBVIOUS
<1>2. Append(e, x)[n+1] = x /\ \A k \in 1..n : Append(e, x)[k] = e[k]
  OBVIOUS
<1>3. IsFiniteSet(A) /\ n + 1 \notin A
  <2>1. IsFiniteSet(1..n)
    BY <1>1, FS_Interval
  <2> QED BY <1>1, <2>1, FS_Subset
<1>4. B = IF x = v THEN A \cup {n+1} ELSE A
  <2>1. \A k : k \in 1..n+1 <=> k \in 1..n \/ k = n + 1
    BY <1>1
  <2> QED BY <1>1, <1>2, <2>1
<1> HIDE DEF A, B
<1>5. Cardinality(A) \in Nat
  BY <1>3, FS_CardinalityType
<1>6. x = v => Cardinality(B) = Cardinality(A) + 1
  BY <1>3, <1>4, FS_AddElement
<1>7. x # v => B = A
  BY <1>4
<1>8. Cardinality(B) = Cardinality(A) + IF x = v THEN 1 ELSE 0
  BY <1>5, <1>6, <1>7
<1> QED BY <1>5, <1>8 DEF A, B, Times

\* The share of one more op.
LEMMA ShareMore ==
  ASSUME NEW type, NEW b, NEW n \in Nat
  PROVE  /\ Cardinality(Share(type, b, 0)) = 0
         /\ Cardinality(Share(type, b, n)) \in Nat
         /\ Cardinality(Share(type, b, n + 1)) =
              Cardinality(Share(type, b, n))
                + IF ops[n+1].type = type /\ Preferred(ops[n+1], b) THEN 1 ELSE 0
<1>1. Share(type, b, 0) = {}
  BY DEF Share
<1>2. IsFiniteSet(Share(type, b, n)) /\ n + 1 \notin Share(type, b, n)
  <2>1. IsFiniteSet(1..n)
    BY FS_Interval
  <2> QED BY <2>1, FS_Subset DEF Share
<1>3. Share(type, b, n + 1) =
        IF ops[n+1].type = type /\ Preferred(ops[n+1], b)
        THEN Share(type, b, n) \cup {n + 1} ELSE Share(type, b, n)
  <2>1. \A k : k \in 1..n+1 <=> k \in 1..n \/ k = n + 1
    OBVIOUS
  <2> QED BY <2>1 DEF Share
<1>4. Cardinality(Share(type, b, n)) \in Nat
  BY <1>2, FS_CardinalityType
<1>5. ops[n+1].type = type /\ Preferred(ops[n+1], b) =>
        Cardinality(Share(type, b, n + 1)) = Cardinality(Share(type, b, n)) + 1
  BY <1>2, <1>3, FS_AddElement
<1>6. ~(ops[n+1].type = type /\ Preferred(ops[n+1], b)) => Share(type, b, n + 1) = Share(type, b, n)
  BY <1>3
<1> QED BY <1>1, <1>4, <1>5, <1>6, FS_EmptySet

\* With the reference backend in the list, an op has one backend.
LEMMA OnlyChosen ==
  ASSUME pref \in Seq(Backends), \E k \in DOMAIN pref : pref[k] = "reference", NEW o, NEW b, Preferred(o, b)
  PROVE  b = Chosen(o)
<1> DEFINE K == {k \in DOMAIN pref : Supports(pref[k], o)}
<1>1. K # {} /\ K \in SUBSET Nat
  BY ReferenceSupports
<1>2. PICK m \in K : \A l \in K : m <= l
  BY <1>1, LeastExists
<1> DEFINE c == CHOOSE k \in K : \A l \in K : k <= l
<1>3. c \in K /\ \A l \in K : c <= l
  BY <1>2
<1>4. Chosen(o) = pref[c]
  BY <1>1 DEF Chosen
<1> HIDE DEF c
<1>5. c \in 1..Len(pref) /\ Supports(pref[c], o)
  BY <1>3
<1>6. PICK l \in 1..c : pref[l] = b
  BY <1>5 DEF Preferred
<1>7. l \in K
  BY <1>5, <1>6 DEF Preferred
<1>8. l = c
  BY <1>3, <1>5, <1>6, <1>7
<1> QED BY <1>4, <1>6, <1>8

\* What an event adds to a count of events.
LEMMA EventCounts ==
  ASSUME Profiled, NEW e \in EventType, events' = Append(events, e), NEW p, NEW type, NEW b
  PROVE  Calls(p, type, b) \in Nat /\ Calls(p, type, b)' = Calls(p, type, b) + IF e = EventOf(p, type, b) THEN 1 ELSE 0
<1>1. events \in Seq(EventType)
  BY DEF Profiled
<1> DEFINE v == EventOf(p, type, b)
<1>2. Calls(p, type, b) = Times(events, v) /\ Calls(p, type, b)' = Times(events', v)
  BY DEF Calls, EventOf, Times
<1> HIDE DEF v
<1>3. Times(events, v) \in Nat /\ Times(Append(events, e), v) = Times(events, v) + IF e = v THEN 1 ELSE 0
  BY <1>1, CountMore
<1>4. /\ Calls(p, type, b) \in Nat
      /\ Calls(p, type, b)' = Calls(p, type, b) + IF e = v THEN 1 ELSE 0
  BY <1>2, <1>3
<1> QED BY <1>4 DEF v

\* A step of forward, which changes neither the ops nor who runs them.
LEMMA SameShares ==
  ASSUME UNCHANGED <<ops, types, pref>>
  PROVE  OpTypes' = OpTypes /\ EventType' = EventType
         /\ \A type, b, n : Share(type, b, n)' = Share(type, b, n)
<1>1. \A o, b : Preferred(o, b)' = Preferred(o, b)
  BY DEF Preferred, Supports, WeightTypes
<1> QED BY <1>1 DEF OpTypes, EventType, Share

\* An op that runs is counted for its type and for the backend that has it.
LEMMA RunOpCounts ==
  ASSUME PartInv, Len(ops) \in Nat, Profiled, RunOp
  PROVE  Profiled'
<1>1. /\ phase = "run" /\ part <= N /\ op < parts[part].end /\ events' = Append(events, Event)
      /\ ran' = Append(ran, <<op, parts[part].backend>>)
      /\ UNCHANGED <<ops, types, pref, phase, name>>
  BY DEF RunOp, graphVars, N
<1>2. part \in 1..N /\ op \in Nat /\ Len(ran) = op /\ parts[part].begin <= op /\ parts \in Seq(Part)
  BY <1>1 DEF PartInv, Ordered, Tiled, N
<1>3. op < Len(ops) /\ parts[part].end \in Nat /\ parts[part].backend \in Backends
      /\ Chosen(ops[op+1]) = parts[part].backend
  <2>1. parts[part] \in Part /\ parts[part].end <= i /\ i = Len(ops)
    BY <1>1, <1>2 DEF PartInv, Tiled, Stages, N
  <2>2. op \in parts[part].begin..parts[part].end-1
    BY <1>1, <1>2, <2>1 DEF Part
  <2> QED BY <1>2, <2>1, <2>2, SMTT(40) DEF PartInv, Tiled, Part, N
<1> DEFINE o == ops[op+1]
           c == parts[part].backend
<1>4. /\ pref \in Seq(Backends) /\ \E k \in DOMAIN pref : pref[k] = "reference"
  BY <1>1 DEF PartInv, Stages
<1>5. \A b : Preferred(o, b) <=> b = c
  BY <1>3, <1>4, ChosenIsPreferred, OnlyChosen
<1>6. Event = EventOf(name, o.type, c) /\ o.type \in OpTypes /\ name \in Phases /\ c \in Backends
  BY <1>2, <1>3 DEF Event, EventOf, OpTypes, Profiled
<1>7. Event \in EventType
  BY <1>6 DEF EventOf, EventType
<1>8. Len(ran') = Len(ran) + 1 /\ Len(ran) \in Nat
  BY <1>1, <1>2 DEF PartInv, Ordered
<1>9. ASSUME NEW p \in Phases, NEW b \in Backends, NEW type \in OpTypes
      PROVE  Calls(p, type, b)' = Spans(p)' * Cardinality(Share(type, b, Len(ops)))
                + (IF phase = "run" /\ name = p THEN Cardinality(Share(type, b, Len(ran'))) ELSE 0)
  <2>1. Calls(p, type, b)' = Calls(p, type, b) + (IF name = p /\ o.type = type /\ c = b THEN 1 ELSE 0)
        /\ Calls(p, type, b) \in Nat
    <3>1. Event = EventOf(p, type, b) <=> name = p /\ o.type = type /\ c = b
      BY <1>6 DEF EventOf
    <3> HIDE DEF o, c
    <3> QED BY <1>1, <1>7, <3>1, EventCounts
  <2>2. Spans(p)' = Spans(p) /\ Spans(p) \in Nat
    <3>1. Event # EventOf(p, "COUNT", "none")
      BY <1>6 DEF EventOf, Backends
    <3> QED BY <1>1, <1>7, <3>1, EventCounts DEF Spans
  <2>3. Cardinality(Share(type, b, Len(ran'))) =
          Cardinality(Share(type, b, Len(ran))) + IF o.type = type /\ c = b THEN 1 ELSE 0
    <3>1. Preferred(o, b) <=> c = b
      BY <1>5
    <3> QED BY <1>2, <1>8, <3>1, ShareMore, ZenonT(40)
  <2>4. Calls(p, type, b) = Spans(p) * Cardinality(Share(type, b, Len(ops)))
          + (IF name = p THEN Cardinality(Share(type, b, Len(ran))) ELSE 0)
    BY <1>1 DEF Profiled, Counted
  <2>5. Cardinality(Share(type, b, Len(ops))) \in Nat /\ Cardinality(Share(type, b, Len(ran))) \in Nat
    BY <1>8, ShareMore
  <2> DEFINE s == Spans(p) * Cardinality(Share(type, b, Len(ops)))
  <2>6. s \in Nat
    BY <2>2, <2>5
  <2> HIDE DEF s, o, c
  <2>7. Calls(p, type, b)' = s + (IF name = p THEN Cardinality(Share(type, b, Len(ran'))) ELSE 0)
    BY <2>1, <2>3, <2>4, <2>5, <2>6 DEF s
  <2> QED BY <1>1, <2>2, <2>7 DEF s
<1>10. Counted'
  BY <1>1, <1>9, SameShares DEF Counted
<1>11. events' \in Seq(EventType')
  BY <1>1, <1>7, SameShares DEF Profiled
<1> QED BY <1>1, <1>6, <1>10, <1>11 DEF Profiled

\* The end of a forward counts its ops once more: it has run all of them.
LEMMA ReturnCounts ==
  ASSUME PartInv, Len(ops) \in Nat, Profiled, Return
  PROVE  Profiled'
<1>1. /\ phase = "run" /\ part > N /\ phase' = "ready" /\ name \in Phases
      /\ events' = Append(events, EventOf(name, "COUNT", "none"))
      /\ UNCHANGED <<ops, types, pref, name, ran>>
  BY DEF Return, graphVars, N, EventOf, Profiled
<1>2. Len(ran) = Len(ops)
  BY <1>1 DEF PartInv, Ordered, Tiled, N
<1> DEFINE e == EventOf(name, "COUNT", "none")
<1>3. e \in EventType
  BY <1>1 DEF EventOf, EventType
<1>4. ASSUME NEW p \in Phases, NEW b \in Backends, NEW type \in OpTypes
      PROVE  Calls(p, type, b)' = Spans(p)' * Cardinality(Share(type, b, Len(ops))) + 0
  <2>1. Calls(p, type, b)' = Calls(p, type, b) /\ Calls(p, type, b) \in Nat
    <3>1. e # EventOf(p, type, b)
      BY DEF EventOf, Backends
    <3> HIDE DEF e
    <3> QED BY <1>1, <1>3, <3>1, EventCounts DEF e
  <2>2. Spans(p)' = Spans(p) + (IF name = p THEN 1 ELSE 0) /\ Spans(p) \in Nat
    <3>1. e = EventOf(p, "COUNT", "none") <=> name = p
      BY DEF EventOf
    <3> HIDE DEF e
    <3> QED BY <1>1, <1>3, <3>1, EventCounts DEF Spans, e
  <2> DEFINE n == Cardinality(Share(type, b, Len(ops)))
  <2>3. Calls(p, type, b) = Spans(p) * n + (IF name = p THEN n ELSE 0)
    BY <1>1, <1>2 DEF Profiled, Counted
  <2>4. n \in Nat
    BY ShareMore
  <2> HIDE DEF n
  <2>5. Spans(p) * n + n = (Spans(p) + 1) * n /\ Spans(p) * n \in Nat
    BY <2>2, <2>4
  <2>6. Calls(p, type, b)' = Spans(p)' * n
    BY <2>1, <2>2, <2>3, <2>4, <2>5
  <2>7. Spans(p)' \in Nat
    BY <2>2
  <2>8. Spans(p)' * n \in Nat
    BY <2>4, <2>7
  <2> QED BY <2>6, <2>8 DEF n
<1>5. Counted'
  <2> SUFFICES ASSUME NEW p \in Phases, NEW b \in Backends, NEW type \in OpTypes'
               PROVE  Calls(p, type, b)' = Spans(p)' * Cardinality(Share(type, b, Len(ops)))' + 0
    BY <1>1 DEF Counted
  <2> QED BY <1>1, <1>4, SameShares
<1>6. events' \in Seq(EventType')
  BY <1>1, <1>3, SameShares DEF Profiled
<1> QED BY <1>1, <1>5, <1>6 DEF Profiled

Silent == events = <<>> /\ phase # "run" /\ Len(ops) \in Nat
\* Before the first event every count is zero.
LEMMA NothingCounted == Silent => Counted
<1> SUFFICES ASSUME events = <<>>, phase # "run", Len(ops) \in Nat PROVE Counted
  BY DEF Silent
<1>1. \A p, type, b : Calls(p, type, b) = 0 /\ Spans(p) = 0
  BY FS_EmptySet DEF Calls, Spans
<1> SUFFICES ASSUME NEW type, NEW b PROVE 0 = 0 * Cardinality(Share(type, b, Len(ops))) + 0
  BY <1>1 DEF Counted
<1>2. Cardinality(Share(type, b, Len(ops))) \in Nat
  BY ShareMore
<1> QED BY <1>2

\* The same of a step's end.
LEMMA NothingCountedNext == Silent' => Counted'
  BY NothingCounted, PTL

\* Every step keeps the counts.
LEMMA ProfiledNext ==
  ASSUME PartInv, Len(ops) \in Nat, Profiled, Constructing \/ Running
  PROVE  Profiled'
<1> USE DEF graphVars, loopVars, profVars
<1>1. CASE RunOp
  BY <1>1, RunOpCounts
<1>2. CASE Return
  BY <1>2, ReturnCounts
<1>3. CASE NextPart
  <2>1. UNCHANGED <<ops, types, pref, phase, ran, name, events>>
    BY <1>3 DEF NextPart
  <2>2. \A p, type, b : Calls(p, type, b)' = Calls(p, type, b) /\ Spans(p)' = Spans(p)
    BY <2>1 DEF Calls, Spans
  <2> QED BY <2>1, <2>2, SameShares DEF Profiled, Counted
<1>4. CASE Make \/ MakeReference \/ Assign
  <2>1. /\ phase \in {"make", "assign"} /\ phase' \in {"make", "assign", "refused"}
        /\ UNCHANGED <<ops, name, events>>
    BY <1>4 DEF Make, MakeReference, Assign
  <2>2. events = <<>> /\ events' = <<>>
    BY <2>1 DEF Profiled
  <2>3. Counted'
    BY <2>1, <2>2, NothingCountedNext DEF Silent
  <2> QED BY <2>1, <2>2, <2>3 DEF Profiled, OpTypes, EventType
<1>5. CASE Assigned
  <2>1. phase = "assign" /\ phase' = "ready" /\ UNCHANGED <<ops, name, events>>
    BY <1>5 DEF Assigned
  <2>2. events = <<>> /\ events' = <<>>
    BY <2>1 DEF Profiled
  <2>3. Counted'
    BY <2>1, <2>2, NothingCountedNext DEF Silent
  <2> QED BY <2>1, <2>2, <2>3 DEF Profiled, OpTypes, EventType
<1>6. ASSUME NEW called \in Phases, Begin(called) PROVE Profiled'
  <2>1. /\ phase = "ready" /\ phase' = "run" /\ ran' = <<>> /\ name' \in Phases
        /\ UNCHANGED <<ops, types, pref, events>>
    BY <1>6 DEF Begin
  <2>2. \A p, type, b : Calls(p, type, b)' = Calls(p, type, b) /\ Spans(p)' = Spans(p)
    BY <2>1 DEF Calls, Spans
  <2>3. Len(ran') = 0
    BY <2>1
  <2>4. \A type, b : Cardinality(Share(type, b, 0)) = 0
    BY ShareMore
  <2> QED BY <2>1, <2>2, <2>3, <2>4, SameShares DEF Profiled, Counted
<1> QED BY <1>1, <1>2, <1>3, <1>4, <1>5, <1>6 DEF Constructing, Running, Phases

\* The events of an op type on a backend are as many as the ops of that type which it runs, times the forwards
\* of the phase.
LEMMA ProfiledSafe ==
  ASSUME Profiled, Len(ops) \in Nat
  PROVE  ProfileAddsUp
<1> SUFFICES ASSUME phase = "ready", NEW p \in Phases, NEW b \in Backends, NEW type \in OpTypes
             PROVE  Calls(p, type, b) = Spans(p) * Cardinality(Share(type, b, Len(ops)))
  BY DEF ProfileAddsUp, Phases, OpTypes, Share
<1>1. Spans(p) \in Nat
  <2>1. DOMAIN events = 1..Len(events) /\ Len(events) \in Nat
    BY DEF Profiled
  <2> DEFINE S == {k \in DOMAIN events : events[k] = EventOf(p, "COUNT", "none")}
  <2>2. Spans(p) = Cardinality(S) /\ S \subseteq DOMAIN events
    BY DEF Spans, Calls, EventOf
  <2> HIDE DEF S
  <2>3. IsFiniteSet(DOMAIN events)
    BY <2>1, FS_Interval
  <2>4. IsFiniteSet(S)
    BY <2>2, <2>3, FS_Subset
  <2> QED BY <2>2, <2>4, FS_CardinalityType
<1>2. Cardinality(Share(type, b, Len(ops))) \in Nat
  BY ShareMore
<1>3. Spans(p) * Cardinality(Share(type, b, Len(ops))) + 0 = Spans(p) * Cardinality(Share(type, b, Len(ops)))
  BY <1>1, <1>2
<1> QED BY <1>3 DEF Profiled, Counted

-----------------------------------------------------------------------------
(* The passes and the planner, whose own proofs are taken over             *)

FP == INSTANCE Fusion_proofs WITH i <- j
PP == INSTANCE MemoryPlanner_proofs WITH
        Tensors <- Activations, Graphs <- {}, phase <- planning, op <- -1, intact <- {}

\* What the proofs of the passes assume of a model.
LEMMA ModelsFit == \A m \in Models : FP!IsGraph(m)
<1> SUFFICES ASSUME NEW m \in Models PROVE FP!IsGraph(m)
  OBVIOUS
<1>1. F!IsGraph(m)
  BY BuildAssumption
<1> QED BY <1>1 DEF F!IsGraph, FP!IsGraph, F!OpRecord, FP!OpRecord, F!OpTypes, FP!OpTypes, F!Fits, FP!Fits,
                    F!WrittenOnce, FP!WrittenOnce, F!InOrder, FP!InOrder, F!Range, FP!Range

\* What the proofs of the planner assume of the tensors.
LEMMA TensorsFit == Activations \subseteq Nat /\ PP!IsFiniteSet(Activations)
<1>1. Activations \subseteq Nat /\ IsFiniteSet(Activations)
  BY BuildAssumption, FS_Interval DEF Activations
<1> QED BY <1>1 DEF IsFiniteSet, PP!IsFiniteSet

\* Build takes the passes and the planner from their modules, and their proofs from these modules' own: the
\* definitions are the same.
LEMMA SameValues == ASSUME NEW o, NEW v PROVE F!Values(o, v) = FP!Values(o, v)
  BY DEF F!Values, FP!Values, F!Both, FP!Both, F!Matmul, FP!Matmul

\* So is what a list computes,
LEMMA SameMeaning == F!Meaning(model) = FP!Meaning(model)
  BY DEF F!Meaning, FP!Meaning, F!RunOp, FP!RunOp, F!Leaves, FP!Leaves,  F!Values, FP!Values, F!Both, FP!Both,
         F!Matmul, FP!Matmul, F!Tensors, FP!Tensors, F!Unset, FP!Unset, F!Range, FP!Range

\* what the passes do,
LEMMA SamePasses == (F!Next <=> FP!Next) /\ F!Passes = FP!Passes
  BY DEF F!Next, FP!Next, F!FuseSwiglu, FP!FuseSwiglu, F!FuseResidual, FP!FuseResidual, F!FuseShared, FP!FuseShared,
         F!FuseRope, FP!FuseRope, F!Skip, FP!Skip, F!EndPass, FP!EndPass, F!Done, FP!Done, F!Swiglu, FP!Swiglu,
         F!Residual, FP!Residual, F!Shared, FP!Shared, F!Rope, FP!Rope, F!Walking, FP!Walking,
         F!Rewrite, FP!Rewrite, F!Group, FP!Group, F!Pick, FP!Pick, F!Ascending, FP!Ascending, F!Is, FP!Is,
         F!Producer, FP!Producer, F!Readers, FP!Readers, F!OnlyConsumer, FP!OnlyConsumer, F!Live, FP!Live,
         F!PassName, FP!PassName, F!Passes, FP!Passes, F!Rounds, FP!Rounds, F!vars, FP!vars, F!Cardinality, FP!Cardinality

\* what has a block and shares one,
LEMMA SamePlan ==
  /\ \A t, u : P!Overlap(t, u) <=> PP!Overlap(t, u)
  /\ P!Planned = PP!Planned /\ P!Placed = PP!Placed
  BY DEF P!Overlap, PP!Overlap, P!End, PP!End, P!Bytes, PP!Bytes, P!kAlign, PP!kAlign, P!Planned, PP!Planned,
         P!Placed, PP!Placed, P!First, PP!First, P!Last, PP!Last, P!WrittenBy, PP!WrittenBy, P!ReadBy, PP!ReadBy,
         P!Least, PP!Least, P!Greatest, PP!Greatest

\* and what the planner does.
LEMMA SamePlanner ==
  ASSUME (\E t \in Activations : P!Pick(t) \/ P!Scan(t)) \/ P!Place
  PROVE  PP!Next
  BY SamePlan DEF PP!Next, P!Pick, PP!Pick, P!Scan, PP!Scan, P!Place, PP!Place, P!Bytes, PP!Bytes, P!kAlign, PP!kAlign,
         P!Together, PP!Together, P!First, PP!First, P!Last, PP!Last, P!WrittenBy, PP!WrittenBy, P!ReadBy, PP!ReadBy,
         P!Least, PP!Least, P!Greatest, PP!Greatest, P!Fits, PP!Fits, P!Advance, PP!Advance, P!Larger, PP!Larger,
         P!End, PP!End, P!planVars, PP!planVars, P!scanVars, PP!scanVars, P!runVars, PP!runVars

\* A step of a pass keeps the passes' invariant.
LEMMA PassKeeps ==
  ASSUME FP!FusInv, FP!Used, F!Next \/ UNCHANGED <<model, ops, pass, start, j, dead>>
  PROVE  FP!FusInv' /\ FP!Used'
<1>1. FP!Next \/ UNCHANGED FP!vars
  BY SamePasses DEF FP!vars
<1> QED BY <1>1, ModelsFit, FP!FusNext

\* So a step of the planner keeps the planner's invariant.
LEMMA PlanKeeps ==
  ASSUME PP!PlanInv, ((\E t \in Activations : P!Pick(t) \/ P!Scan(t)) \/ P!Place) \/ UNCHANGED planVars
  PROVE  PP!PlanInv'
<1>1. PP!Next \/ UNCHANGED PP!vars
  BY SamePlanner DEF PP!vars, planVars, PP!planVars, PP!scanVars, PP!runVars
<1>2. PP!PlanInv /\ [PP!Next]_PP!vars => PP!PlanInv'
  BY TensorsFit, PP!PlanInvNext
<1> QED BY <1>1, <1>2

-----------------------------------------------------------------------------
(* The op list that is served                                              *)

\* What the model has in a tensor; what op k reads and writes.
M == FP!Meaning(model)
In(k) == ToSet(ops[k].in)
Out(k) == ToSet(ops[k].out)
Ops == 1..Len(ops)

\* Each op computes what the model says from what has been written before it; what it writes is read later,
\* or is the logits.
Servable ==
  /\ ops \in Seq(FP!OpRecord)
  /\ \A k \in Ops : /\ Out(k) \subseteq Activations \ {0}
                    /\ \A t \in In(k) : t \in Int /\ (t >= 0 => t \in Activations)
                    /\ FP!Solves(M, ops[k])
  /\ \A k \in Ops : \A t \in In(k) : IF t > 0 THEN \E l \in 1..k-1 : t \in Out(l) ELSE M[t] = <<"leaf", t>>
  /\ \A k, l \in Ops : \A t \in Out(k) : t \in Out(l) => k = l
  /\ \A k \in Ops : \A t \in Out(k) : t = Output \/ \E l \in k+1..Len(ops) : t \in In(l)
  /\ \E k \in Ops : Output \in Out(k)

\* A tensor of the model that is not a weight has an id.
LEMMA TensorsNumbered ==
  ASSUME model \in Models, NEW t \in FP!Tensors
  PROVE  t \in Int /\ (t >= 0 => t \in Activations)
<1>1. FP!IsGraph(model)
  BY ModelsFit
<1>2. PICK k \in DOMAIN model : t \in FP!Range(model[k].in) \/ t \in FP!Range(model[k].out)
  BY DEF FP!Tensors
<1>3. model \in Seq(FP!OpRecord) /\ DOMAIN model = 1..Len(model) /\ Len(model) \in Nat
  BY <1>1 DEF FP!IsGraph
<1>4. model[k] \in FP!OpRecord
  BY <1>2, <1>3
<1>5. model[k].in \in Seq(Int) /\ model[k].out \in Seq(Nat \ {0})
  BY <1>4 DEF FP!OpRecord
<1>6. \A l \in DOMAIN model : FP!Range(model[l].out) \subseteq Activations
  BY BuildAssumption DEF FP!Range, Range
<1>7. CASE t \in FP!Range(model[k].out)
  BY <1>2, <1>5, <1>6, <1>7 DEF FP!Range
<1>8. CASE t \in FP!Range(model[k].in)
  <2>1. t \in Int
    BY <1>5, <1>8 DEF FP!Range
  <2>2. t > 0 => \E l \in 1..k-1 : t \in FP!Range(model[l].out)
    BY <1>1, <1>2, <1>8 DEF FP!IsGraph, FP!InOrder
  <2>3. t > 0 => t \in Activations
    BY <1>2, <1>3, <1>6, <2>2
  <2>4. 0 \in Activations
    BY BuildAssumption DEF Activations
  <2> QED BY <2>1, <2>3, <2>4
<1> QED BY <1>2, <1>7, <1>8

\* What the passes leave can be served.
LEMMA OptimizedIsServable ==
  ASSUME FP!FusInv, FP!Used, dead = {}
  PROVE  Servable
<1>1. /\ ops \in Seq(FP!OpRecord) /\ FP!WrittenOnce(ops) /\ FP!InOrder(ops)
      /\ \A k \in DOMAIN ops : FP!Sound(ops[k])
      /\ \A k \in DOMAIN ops : \A t \in FP!Writes(ops[k]) :
           t = FP!Output \/ \E l \in DOMAIN ops : t \in FP!Reads(ops[l])
      /\ \E k \in DOMAIN ops : FP!Output \in FP!Writes(ops[k])
  BY ModelsFit, FP!NoneAbsorbed
<1>2. model \in Models /\ DOMAIN ops = Ops /\ Len(ops) \in Nat /\ FP!Output = Output
  BY <1>1 DEF FP!FusInv, FP!Types, Ops, FP!Output, Output
<1>3. \A k : In(k) = FP!Reads(ops[k]) /\ Out(k) = FP!Writes(ops[k])
  BY DEF In, Out, ToSet, FP!Reads, FP!Writes, FP!Range
<1>4. \A k \in Ops : In(k) \cup Out(k) \subseteq FP!Tensors /\ FP!Solves(M, ops[k])
  BY <1>1, <1>2, <1>3 DEF FP!Sound, M
<1>5. ASSUME NEW k \in Ops PROVE Out(k) \subseteq Nat \ {0}
  <2>1. ops[k] \in FP!OpRecord
    BY <1>1, <1>2
  <2>2. ops[k].out \in Seq(Nat \ {0})
    BY <2>1 DEF FP!OpRecord
  <2> QED BY <2>2 DEF Out, ToSet
<1>6. \A k \in Ops : Out(k) \subseteq Activations \ {0}
  BY <1>2, <1>4, <1>5, TensorsNumbered
<1>7. \A k \in Ops : \A t \in In(k) : t \in Int /\ (t >= 0 => t \in Activations)
  BY <1>2, <1>4, TensorsNumbered
<1>8. \A k \in Ops : \A t \in In(k) : t > 0 => \E l \in 1..k-1 : t \in Out(l)
  BY <1>1, <1>2, <1>3 DEF FP!InOrder, FP!Reads, FP!Writes
<1>9. \A t \in FP!Tensors : t <= 0 => M[t] = <<"leaf", t>>
  BY <1>2, ModelsFit, FP!LeavesKept DEF M
<1>10. \A k, l \in Ops : \A t \in Out(k) : t \in Out(l) => k = l
  BY <1>1, <1>2 DEF FP!WrittenOnce, Out, ToSet
<1>11. ASSUME NEW k \in Ops, NEW t \in Out(k), t # Output PROVE \E l \in k+1..Len(ops) : t \in In(l)
  <2>1. PICK l \in Ops : t \in In(l)
    BY <1>1, <1>2, <1>3, <1>11
  <2>2. t > 0
    BY <1>5
  <2>3. PICK m \in 1..l-1 : t \in Out(m)
    BY <1>8, <2>1, <2>2
  <2>4. m = k
    BY <1>2, <1>10, <2>1, <2>3 DEF Ops
  <2> QED BY <1>2, <2>1, <2>3, <2>4 DEF Ops
<1>12. \A k \in Ops : \A t \in In(k) : IF t > 0 THEN \E l \in 1..k-1 : t \in Out(l) ELSE M[t] = <<"leaf", t>>
  BY <1>4, <1>7, <1>8, <1>9
<1> QED BY <1>1, <1>2, <1>3, <1>4, <1>6, <1>7, <1>10, <1>11, <1>12 DEF Servable

\* The planner's view of the op list: op n of it is op n + 1.
LEMMA ViewOfOps ==
  ASSUME Servable, graph = PlannedGraph
  PROVE  /\ graph.nops = Len(ops) /\ Len(ops) \in Nat
         /\ \A n \in 0..Len(ops)-1 : graph.out[n] = Out(n + 1) /\ graph.in[n] = {t \in Activations : t \in In(n + 1)}
         /\ \A t \in Activations : graph.kind[t] = Kind(t)
         /\ \A t \in Activations : \A k \in Ops : t \in Out(k) => k - 1 \in PP!WrittenBy(t)
         /\ \A t \in Activations : \A k \in Ops : t \in In(k) => k - 1 \in PP!ReadBy(t)
<1>1. Len(ops) \in Nat
  BY DEF Servable
<1>2. graph.nops = Len(ops)
  BY DEF PlannedGraph
<1>3. ASSUME NEW n \in 0..Len(ops)-1
      PROVE  graph.out[n] = Out(n + 1) /\ graph.in[n] = {t \in Activations : t \in In(n + 1)}
  BY <1>1 DEF PlannedGraph, In, Out
<1>4. \A t \in Activations : graph.kind[t] = Kind(t)
  BY DEF PlannedGraph
<1>5. \A k \in Ops : k - 1 \in 0..Len(ops)-1 /\ k - 1 + 1 = k
  BY <1>1 DEF Ops
<1> QED BY <1>1, <1>2, <1>3, <1>4, <1>5 DEF PP!WrittenBy, PP!ReadBy

\* The planner is given a graph whose ops are in order.
LEMMA PlannedGraphIsGraph == Servable => PP!IsGraph(PlannedGraph)
<1> SUFFICES ASSUME Servable PROVE PP!IsGraph(PlannedGraph)
  OBVIOUS
<1>1. Len(ops) \in Nat /\ \A n \in 0..Len(ops)-1 : n + 1 \in Ops
  BY DEF Servable, Ops
<1>2. \A n \in 0..Len(ops)-1 : ToSet(ops[n+1].out) \subseteq Activations
  BY <1>1 DEF Servable, Out
<1>3. \A t \in Activations : Kind(t) \in PP!Kinds /\ Size(t) \in Nat
  BY BuildAssumption DEF Kind, PP!Kinds
<1> QED BY <1>1, <1>2, <1>3 DEF PlannedGraph, PP!IsGraph

\* In order: what an op reads has been written, and what it writes is read.
LEMMA PlannedGraphInOrder ==
  ASSUME Servable, graph = PlannedGraph
  PROVE  PP!InOrder(graph)
<1>1. /\ graph.nops = Len(ops) /\ Len(ops) \in Nat
      /\ \A n \in 0..Len(ops)-1 : n + 1 \in Ops /\ graph.out[n] = Out(n + 1)
                                   /\ graph.in[n] = {t \in Activations : t \in In(n + 1)}
      /\ \A t \in Activations : graph.kind[t] = Kind(t)
  BY ViewOfOps DEF Ops
<1>2. \A k \in Ops : k - 1 \in 0..Len(ops)-1 /\ (k - 1) + 1 = k
  BY <1>1 DEF Ops
<1>3. \A t \in Activations : /\ Kind(t) # "weight"
                             /\ Kind(t) = "input" <=> t = 0
                             /\ Kind(t) = "output" => t = Output
                             /\ t = Output /\ t # 0 => Kind(t) = "output"
  BY DEF Kind
<1>4. ASSUME NEW n \in 0..Len(ops)-1, NEW t \in Activations, t \in graph.in[n], t # 0
      PROVE  \E m \in 0..n-1 : t \in graph.out[m]
  <2>1. t \in In(n + 1) /\ t > 0
    BY <1>1, <1>4, TensorsFit
  <2>2. PICK l \in 1..(n+1)-1 : t \in Out(l)
    BY <1>1, <2>1 DEF Servable
  <2>3. l - 1 \in 0..n-1 /\ l - 1 \in 0..Len(ops)-1 /\ (l - 1) + 1 = l
    BY <1>1, <2>2
  <2> QED BY <1>1, <2>2, <2>3
<1>5. ASSUME NEW n \in 0..Len(ops)-1, NEW t \in Activations, t \in graph.out[n]
      PROVE  Kind(t) = "output" \/ \E m \in n..Len(ops)-1 : t \in graph.in[m]
  <2>1. t \in Out(n + 1) /\ t # 0
    BY <1>1, <1>5 DEF Servable
  <2>2. CASE t = Output
    BY <1>3, <2>1, <2>2
  <2>3. CASE t # Output
    <3>1. PICK l \in (n+1)+1..Len(ops) : t \in In(l)
      BY <1>1, <2>1, <2>3 DEF Servable
    <3>2. l - 1 \in n..Len(ops)-1 /\ l - 1 \in 0..Len(ops)-1 /\ (l - 1) + 1 = l
      BY <1>1, <3>1
    <3> QED BY <1>1, <3>1, <3>2
  <2> QED BY <2>2, <2>3
<1>6. ASSUME NEW t \in Activations, Kind(t) = "output" PROVE \E n \in 0..Len(ops)-1 : t \in graph.out[n]
  <2>1. PICK k \in Ops : Output \in Out(k)
    BY DEF Servable
  <2> QED BY <1>1, <1>2, <1>3, <1>6, <2>1
<1> QED BY <1>1, <1>3, <1>4, <1>5, <1>6 DEF PP!InOrder

\* Op n + 1 overwrites nothing but its outputs of what has been written and is to be read, by itself or later.
LEMMA LiveApart ==
  ASSUME Servable, graph = PlannedGraph, PP!PlanInv, P!Planned = P!Placed,
         NEW n \in 0..Len(ops)-1, NEW s \in Out(n + 1), NEW t \in Activations, t # s,
         t = 0 \/ \E k \in 1..n+1 : t \in Out(k),
         t = Output \/ \E k \in n+1..Len(ops) : t \in In(k)
  PROVE  ~P!Overlap(s, t)
<1>1. Len(ops) \in Nat /\ n + 1 \in Ops
  BY DEF Servable, Ops
<1>2. n \in 0..graph.nops-1 /\ s \in graph.out[n] /\ s \in Activations
  BY <1>1, ViewOfOps DEF Servable
<1>3. graph.kind[t] # "weight"
  BY ViewOfOps DEF Kind
<1>4. graph.kind[t] = "input" \/ \E m \in PP!WrittenBy(t) : m <= n
  <2>1. CASE t = 0
    BY <2>1, ViewOfOps DEF Kind
  <2>2. CASE t # 0
    <3>1. PICK k \in 1..n+1 : t \in Out(k)
      BY <2>2
    <3>2. k \in Ops /\ k - 1 <= n
      BY <1>1, <3>1 DEF Ops
    <3> QED BY <3>1, <3>2, ViewOfOps
  <2> QED BY <2>1, <2>2
<1>5. graph.kind[t] = "output" \/ \E m \in PP!ReadBy(t) : m >= n
  <2>1. CASE t = Output /\ t # 0
    BY <2>1, ViewOfOps DEF Kind
  <2>2. CASE \E k \in n+1..Len(ops) : t \in In(k)
    <3>1. PICK k \in n+1..Len(ops) : t \in In(k)
      BY <2>2
    <3>2. k \in Ops /\ k - 1 >= n
      BY <1>1, <3>1 DEF Ops
    <3> QED BY <3>1, <3>2, ViewOfOps
  <2>3. Output # 0
    BY DEF Servable
  <2> QED BY <2>1, <2>2, <2>3
<1>6. PP!Types /\ PP!InOrder(graph)
  BY PlannedGraphInOrder DEF PP!PlanInv
<1>7. s \in PP!Planned /\ t \in PP!Planned /\ PP!Together(s, t)
  BY <1>2, <1>3, <1>4, <1>5, <1>6, TensorsFit, PP!LiveTogether
<1>8. s \in PP!Placed /\ t \in PP!Placed
  BY <1>7, SamePlan
<1>9. ~PP!Overlap(s, t)
  BY <1>7, <1>8 DEF PP!PlanInv, PP!PlanIsValid
<1> QED BY <1>9, SamePlan

-----------------------------------------------------------------------------
(* What the arena holds while forward runs                                 *)

\* After n ops: written, or given by the caller, and to be read yet.
Live(t, n) ==
  /\ t = 0 \/ \E k \in 1..n : t \in Out(k)
  /\ t = Output \/ \E k \in n+1..Len(ops) : t \in In(k)
Holds(n) == \A t \in Activations : Live(t, n) => value[t] = M[t]

\* The planner works on the op list; every tensor has its block.
Planner == graph = PlannedGraph /\ PP!PlanInv
Serving == Servable /\ Planner /\ P!Planned = P!Placed

\* Before the first op the only tensor that is live is the input.
LEMMA EnterHolds ==
  ASSUME Serving, value' = Written({0}, [t \in {0} |-> <<"leaf", 0>>]),
         NEW t \in Activations, Live(t, 0)
  PROVE  value'[t] = M[t]
<1>1. t = 0 /\ Output # 0 /\ Len(ops) \in Nat
  BY DEF Live, Serving, Servable
<1>2. PICK k \in Ops : 0 \in In(k)
  BY <1>1 DEF Live, Ops
<1>3. M[0] = <<"leaf", 0>>
  BY <1>2 DEF Serving, Servable
<1> QED BY <1>1, <1>3 DEF Written

\* An op finds its operands as the model has them.
LEMMA OperandsHold ==
  ASSUME Serving, NEW n \in 0..Len(ops)-1, Holds(n), NEW t \in In(n + 1)
  PROVE  Operand(t, Out(n + 1)) = M[t]
<1>1. Servable /\ Len(ops) \in Nat /\ n + 1 \in Ops /\ n + 1 \in n+1..Len(ops)
  BY DEF Serving, Servable, Ops
<1>2. t \in Int /\ (t >= 0 => t \in Activations)
  BY <1>1 DEF Servable
<1>3. t <= 0 => M[t] = <<"leaf", t>>
  BY <1>1, <1>2 DEF Servable
<1>4. CASE t < 0
  BY <1>2, <1>3, <1>4 DEF Operand
<1>5. CASE t >= 0
  <2>1. t = 0 \/ \E k \in 1..n : t \in Out(k)
    BY <1>1, <1>2, <1>5 DEF Servable
  <2>2. ASSUME NEW s \in Out(n + 1) PROVE ~P!Overlap(s, t)
    <3>1. s # t
      <4>1. s # 0
        BY <1>1 DEF Servable
      <4>2. \A k \in 1..n : k \in Ops /\ k # n + 1
        BY <1>1 DEF Ops
      <4> QED BY <1>1, <2>1, <4>1, <4>2 DEF Servable
    <3>2. t = 0 \/ \E k \in 1..n+1 : t \in Out(k)
      BY <2>1
    <3> QED BY <1>1, <1>2, <1>5, <3>1, <3>2, LiveApart DEF Serving, Planner
  <2>3. Live(t, n)
    BY <1>1, <2>1 DEF Live
  <2>4. value[t] = M[t]
    BY <1>2, <1>5, <2>3 DEF Holds
  <2> QED BY <1>2, <1>5, <2>2, <2>4 DEF Operand
<1> QED BY <1>2, <1>4, <1>5

\* An op computes what the model has from what the model has.
LEMMA OpSolves ==
  ASSUME Servable, NEW n \in 0..Len(ops)-1
  PROVE  FP!Solves(M, ops[n + 1])
<1>1. n + 1 \in Ops
  BY DEF Servable, Ops
<1>2. \A k \in Ops : FP!Solves(M, ops[k])
  BY DEF Servable
<1> QED BY <1>1, <1>2

\* So it computes what the model has, and leaves what is live alone.
LEMMA ExecuteHolds ==
  ASSUME Serving, NEW n \in 0..Len(ops)-1, Holds(n),
         LET o == ops[n + 1]
             new == F!Values(o, [m \in DOMAIN o.in |-> Operand(o.in[m], ToSet(o.out))])
         IN  value' = Written(ToSet(o.out), [t \in ToSet(o.out) |-> new[CHOOSE m \in DOMAIN o.out : o.out[m] = t]]),
         NEW t \in Activations, Live(t, n + 1)
  PROVE  value'[t] = M[t]
<1>0. FP!Solves(M, ops[n + 1])
  BY OpSolves DEF Serving
<1> DEFINE o == ops[n + 1]
           v == [m \in DOMAIN o.in |-> Operand(o.in[m], ToSet(o.out))]
           new == F!Values(o, v)
           w == [u \in ToSet(o.out) |-> new[CHOOSE m \in DOMAIN o.out : o.out[m] = u]]
<1>1. Servable /\ Len(ops) \in Nat /\ n + 1 \in Ops
  BY DEF Serving, Servable, Ops
<1>2. ToSet(o.out) = Out(n + 1) /\ ToSet(o.in) = In(n + 1) /\ value' = Written(Out(n + 1), w)
  BY DEF Out, In
<1>3. v = [m \in DOMAIN o.in |-> M[o.in[m]]]
  <2>1. \A m \in DOMAIN o.in : o.in[m] \in In(n + 1)
    BY DEF In, ToSet
  <2> QED BY <1>2, <2>1, OperandsHold
<1>4. \A p \in DOMAIN o.out : M[o.out[p]] = new[p]
  <2>1. FP!Solves(M, o)
    BY <1>0
  <2> HIDE DEF o, v
  <2>2. new = FP!Values(o, v)
    BY SameValues
  <2> HIDE DEF new
  <2> QED BY <1>3, <2>1, <2>2 DEF FP!Solves
<1> HIDE DEF new
<1>5. CASE t \in Out(n + 1)
  <2>1. value'[t] = new[CHOOSE m \in DOMAIN o.out : o.out[m] = t]
    BY <1>2, <1>5 DEF Written
  <2>2. \E m \in DOMAIN o.out : o.out[m] = t
    BY <1>5 DEF Out, ToSet
  <2> QED BY <1>4, <2>1, <2>2
<1>6. CASE t \notin Out(n + 1)
  <2>1. /\ t = 0 \/ \E k \in 1..n : t \in Out(k)
        /\ t = Output \/ \E k \in (n+1)+1..Len(ops) : t \in In(k)
    <3>1. \A k \in 1..n+1 : k \in 1..n \/ k = n + 1
      OBVIOUS
    <3> QED BY <1>6, <3>1 DEF Live
  <2>2. /\ t = 0 \/ \E k \in 1..n+1 : t \in Out(k)
        /\ t = Output \/ \E k \in n+1..Len(ops) : t \in In(k)
    BY <1>1, <2>1
  <2>3. Live(t, n)
    BY <2>1, <2>2 DEF Live
  <2>4. value[t] = M[t]
    BY <2>3 DEF Holds
  <2>5. \A s \in Out(n + 1) : ~P!Overlap(s, t)
    BY <1>1, <1>6, <2>2, LiveApart DEF Serving, Planner
  <2> HIDE DEF w
  <2>6. value'[t] = value[t]
    BY <1>2, <1>6, <2>5 DEF Written
  <2> QED BY <2>4, <2>6
<1> QED BY <1>5, <1>6

\* After the last op the logits are live.
LEMMA LogitsLive ==
  ASSUME Serving, Holds(Len(ops))
  PROVE  value[Output] = M[Output]
<1>1. PICK k \in Ops : Output \in Out(k)
  BY DEF Serving, Servable
<1>2. Output \in Activations /\ Live(Output, Len(ops))
  BY <1>1 DEF Live, Ops, Serving, Servable
<1> QED BY <1>2 DEF Holds

-----------------------------------------------------------------------------
(* The invariant of the whole                                              *)

\* After the passes no op is absorbed.
FuseInv == FP!FusInv /\ FP!Used /\ ((stage = "fuse" /\ pass <= Len(F!Passes)) \/ dead = {})
\* How far the constructor has come.
StageInv ==
  /\ stage \in {"load", "fuse", "delegate", "plan", "serve", "refused"}
  /\ stage \in {"load", "fuse"} => phase = "make"
  /\ stage = "delegate" => phase \in {"make", "assign"}
  /\ stage = "plan" => phase = "ready"
  /\ stage # "serve" => events = <<>>
\* Nothing has a block before the planner starts, and a session that serves has all of its blocks.
Unplanned ==
  /\ planning = "pick" /\ offset = [t \in Activations |-> -1] /\ arena = 0
  /\ tensor = -1 /\ best = -1 /\ gap = 0 /\ cur = 0
PlanInv ==
  /\ IF stage \in {"plan", "serve"} THEN Planner ELSE Unplanned
  /\ stage = "serve" => planning = "pick" /\ P!Planned = P!Placed
\* What is live while a forward runs, and the logits after it, are the model's.
LogitsInv ==
  stage = "serve" =>
    /\ phase = "run" => Holds(op)
    /\ phase = "ready" /\ events # <<>> => value[Output] = M[Output]
BuildInv == FuseInv /\ StageInv /\ PartInv /\ Profiled /\ PlanInv /\ LogitsInv

\* A session that has made no backend yet.
Making ==
  /\ phase = "make" /\ pref \in Seq(Backends) /\ parts = <<>> /\ i = 0 /\ ran = <<>>
  /\ events = <<>> /\ name \in Phases /\ Len(ops) \in Nat
\* Such a session has no partitions and no events.
LEMMA MakingInv == Making => PartInv /\ Profiled
<1> SUFFICES ASSUME Making PROVE PartInv /\ Profiled
  OBVIOUS
<1>1. PartInv
  BY DEF Making, PartInv, Stages, Tiled, Ordered, N
<1>2. Counted
  BY NothingCounted DEF Making, Silent
<1> QED BY <1>1, <1>2 DEF Making, Profiled
\* The same of a step's end.
LEMMA MakingInvNext == Making' => PartInv' /\ Profiled'
  BY MakingInv, PTL

\* Until the first backend is made the op list and the weights' types may change.
LEMMA StillMaking ==
  ASSUME BuildInv, stage \in {"load", "fuse"}, Len(ops') \in Nat, UNCHANGED <<pref, phase, parts, i, loopVars>>
  PROVE  PartInv' /\ Profiled'
<1>1. Making'
  BY DEF BuildInv, StageInv, PartInv, Stages, Profiled, Making, loopVars, profVars, Backends, Phases
<1> QED BY <1>1, MakingInvNext

\* A step of the constructor's loops, of forward or of neither keeps the delegates' invariant.
LEMMA PartKeeps ==
  ASSUME PartInv, Profiled, Len(ops) \in Nat, Constructing \/ Running \/ UNCHANGED partVars
  PROVE  PartInv' /\ Profiled' /\ ops' = ops
<1>1. CASE Constructing \/ Running
  BY <1>1, PartNext, ProfiledNext
<1>2. CASE UNCHANGED partVars
  <2>1. /\ \A o : Chosen(o)' = Chosen(o)
        /\ UNCHANGED <<ops, types, pref, phase, parts, i, part, op, ran, name, events>>
    BY <1>2 DEF partVars, graphVars, loopVars, profVars, Chosen, Supports, WeightTypes
  <2>2. PartInv'
    BY <2>1 DEF PartInv, Stages, Tiled, Ordered, N
  <2>3. \A p, type, b : Calls(p, type, b)' = Calls(p, type, b) /\ Spans(p)' = Spans(p)
    BY <2>1 DEF Calls, Spans
  <2>4. Profiled'
    BY <2>1, <2>3, SameShares DEF Profiled, Counted
  <2> QED BY <2>1, <2>2, <2>4
<1> QED BY <1>1, <1>2

\* Steps that leave the op list alone leave what is said of it alone.
LEMMA SameList ==
  ASSUME UNCHANGED <<model, ops>>
  PROVE  /\ M' = M /\ Output' = Output /\ PlannedGraph' = PlannedGraph /\ Len(ops)' = Len(ops)
         /\ \A t, n : Live(t, n)' = Live(t, n)
<1>1. M' = M
  BY ModelsFit, FP!SameModel DEF M
<1>2. Output' = Output /\ \A k : In(k)' = In(k) /\ Out(k)' = Out(k)
  BY DEF Output, In, Out
<1>3. PlannedGraph' = PlannedGraph
  BY DEF PlannedGraph, Kind, Output
<1>4. \A t, n : Live(t, n)' = Live(t, n)
  BY <1>2 DEF Live
<1> QED BY <1>1, <1>2, <1>3, <1>4

\* Steps that leave the plan alone leave the blocks alone.
LEMMA SamePlaces ==
  ASSUME UNCHANGED planVars
  PROVE  P!Planned' = P!Planned /\ P!Placed' = P!Placed
  BY DEF planVars, P!Planned, P!Placed, P!First, P!Last, P!WrittenBy, P!ReadBy

\* The pass stays the same until its end, which drops what is absorbed.
LEMMA PassStep ==
  F!Next => pass' = pass \/ dead' = {}
BY DEF F!Next, F!FuseSwiglu, F!FuseResidual, F!FuseShared, F!FuseRope, F!Skip, F!EndPass, F!Done, F!Rewrite, F!vars

\* A step outside of the passes keeps what they have left.
LEMMA FuseKeeps ==
  ASSUME BuildInv, UNCHANGED <<ops, fusionVars>>, stage' = "fuse" => stage = "fuse" \/ dead = {},
         stage = "fuse" /\ stage' # "fuse" => pass > Len(F!Passes)
  PROVE  FuseInv'
<1>1. FP!FusInv' /\ FP!Used'
  BY PassKeeps DEF BuildInv, FuseInv, fusionVars
<1>2. UNCHANGED <<pass, dead>> /\ Len(F!Passes) = 4 /\ Len(F!Passes)' = 4
  BY DEF fusionVars, F!Passes
<1>3. pass \in Int
  BY DEF BuildInv, FuseInv, FP!FusInv, FP!Types
<1> QED BY <1>1, <1>2, <1>3 DEF BuildInv, FuseInv

\* A step outside of the planner keeps its plan.
LEMMA PlanStays ==
  ASSUME BuildInv, UNCHANGED <<model, ops, planVars>>, stage' = "serve" => stage = "serve",
         stage' = "plan" => stage = "plan", stage = "plan" => stage' = "plan", stage = "serve" => stage' = "serve"
  PROVE  PlanInv'
<1>1. PP!PlanInv => PP!PlanInv'
  BY PlanKeeps
<1>2. Planner => Planner'
  BY <1>1, SameList DEF Planner, planVars
<1>3. Unplanned => Unplanned'
  BY DEF Unplanned, planVars
<1>4. planning' = planning
  BY DEF planVars
<1> QED BY <1>2, <1>3, <1>4, SamePlaces DEF BuildInv, PlanInv

\* There is a list of ops.
LEMMA LenOps == BuildInv => Len(ops) \in Nat /\ ops \in Seq(FP!OpRecord)
  BY DEF BuildInv, FuseInv, FP!FusInv, FP!Types

\* The steps of the model file leave the rest alone.
LEMMA LoadStep == ASSUME BuildInv, Load PROVE BuildInv'
<1>1. stage = "load" /\ stage' = "load" /\ UNCHANGED <<ops, model, fusionVars, partVars, planVars, events, phase>>
  BY DEF Load, partVars, graphVars, loopVars, profVars, fusionVars
<1>2. FuseInv'
  BY <1>1, FuseKeeps
<1>3. PartInv' /\ Profiled'
  BY <1>1, PartKeeps, LenOps DEF BuildInv
<1>4. PlanInv'
  BY <1>1, PlanStays
<1> QED BY <1>1, <1>2, <1>3, <1>4 DEF BuildInv, StageInv, LogitsInv

\* The constructor starts with the passes, or with the delegates.
LEMMA ConstructStep == ASSUME BuildInv, Construct PROVE BuildInv'
<1>1. stage = "load" /\ stage' \in {"fuse", "delegate"}
      /\ UNCHANGED <<ops, pref, phase, parts, i, loopVars, model, fusionVars, planVars, events>>
  BY DEF Construct, loopVars, profVars, fusionVars
<1>2. FuseInv'
  BY <1>1, FuseKeeps DEF BuildInv, FuseInv
<1>3. PartInv' /\ Profiled'
  BY <1>1, StillMaking, LenOps
<1>4. PlanInv'
  BY <1>1, PlanStays
<1> QED BY <1>1, <1>2, <1>3, <1>4 DEF BuildInv, StageInv, LogitsInv

\* A pass changes the op list before there are partitions or a plan of it.
LEMMA OptimizeStep == ASSUME BuildInv, Optimize PROVE BuildInv'
<1>1. stage = "fuse" /\ stage' = "fuse" /\ pass <= Len(F!Passes) /\ F!Next
      /\ UNCHANGED <<pref, phase, parts, i, loopVars, planVars, events>>
  BY DEF Optimize, loopVars, profVars
<1>2. FP!FusInv' /\ FP!Used'
  BY <1>1, PassKeeps DEF BuildInv, FuseInv
<1>3. FuseInv'
  BY <1>1, <1>2, PassStep DEF FuseInv, F!Passes
<1>4. Len(ops') \in Nat
  BY <1>2 DEF FP!FusInv, FP!Types
<1>5. PartInv' /\ Profiled'
  BY <1>1, <1>4, StillMaking
<1>6. PlanInv'
  BY <1>1 DEF BuildInv, PlanInv, Unplanned, planVars
<1> QED BY <1>1, <1>3, <1>5, <1>6 DEF BuildInv, StageInv, LogitsInv

\* After the last pass no op is absorbed.
LEMMA OptimizedStep == ASSUME BuildInv, Optimized PROVE BuildInv'
<1>1. stage = "fuse" /\ stage' = "delegate" /\ pass > Len(F!Passes)
      /\ UNCHANGED <<ops, partVars, model, fusionVars, planVars, events, phase>>
  BY DEF Optimized, partVars, graphVars, loopVars, profVars, fusionVars
<1>2. FuseInv'
  BY <1>1, FuseKeeps
<1>3. PartInv' /\ Profiled'
  BY <1>1, PartKeeps, LenOps DEF BuildInv
<1>4. PlanInv'
  BY <1>1, PlanStays
<1> QED BY <1>1, <1>2, <1>3, <1>4 DEF BuildInv, StageInv, LogitsInv

\* Of an op list that has no op absorbed.
LEMMA ListServable ==
  ASSUME BuildInv, stage # "fuse"
  PROVE  Servable
  BY OptimizedIsServable DEF BuildInv, FuseInv

\* The planner starts with a graph and nothing placed.
LEMMA FreshPlanNext == (PP!IsGraph(graph) /\ Unplanned)' => PP!PlanInv'
<1>1. PP!IsGraph(graph) /\ Unplanned => PP!PlanInv
  BY TensorsFit, PP!FreshPlan DEF Unplanned
<1> QED BY <1>1, PTL

\* The delegates are made and given their ops; then the planner gets the graph.
LEMMA DelegateStep == ASSUME BuildInv, Delegate PROVE BuildInv'
<1>1. stage = "delegate" /\ Constructing /\ phase \in {"make", "assign"}
      /\ stage' = (CASE phase' = "ready" -> "plan" [] phase' = "refused" -> "refused" [] OTHER -> stage)
      /\ graph' = (IF phase' = "ready" THEN PlannedGraph ELSE graph)
      /\ UNCHANGED <<fusionVars, model, planning, offset, arena, tensor, best, gap, cur>>
  BY DEF Delegate, fusionVars, BuildInv, StageInv
<1>2. PartInv' /\ Profiled' /\ ops' = ops
  BY <1>1, PartKeeps, LenOps DEF BuildInv
<1>3. phase' \in {"make", "assign", "refused", "ready"} /\ events' = events
  BY <1>1 DEF Constructing, Make, MakeReference, Assign, Assigned, loopVars, profVars
<1>4. FuseInv'
  <2>1. stage' # "fuse"
    BY <1>1
  <2> QED BY <1>1, <1>2, <2>1, FuseKeeps
<1>5. Unplanned'
  BY <1>1 DEF Unplanned, BuildInv, PlanInv
<1>6. PlanInv'
  <2>1. CASE phase' = "ready"
    <3>1. stage' = "plan" /\ graph' = PlannedGraph /\ PlannedGraph' = PlannedGraph
      BY <1>1, <1>2, <2>1, SameList
    <3>2. PP!IsGraph(graph')
      BY <1>1, <3>1, ListServable, PlannedGraphIsGraph
    <3>3. PP!PlanInv'
      BY <1>5, <3>2, FreshPlanNext
    <3> QED BY <3>1, <3>3 DEF PlanInv, Planner
  <2>2. CASE phase' # "ready"
    <3>1. stage' \in {"delegate", "refused"}
      BY <1>1, <2>2
    <3> QED BY <1>5, <3>1 DEF PlanInv
  <2> QED BY <2>1, <2>2
<1>7. StageInv' /\ LogitsInv'
  BY <1>1, <1>3 DEF BuildInv, StageInv, LogitsInv
<1> QED BY <1>2, <1>4, <1>6, <1>7 DEF BuildInv

\* The planner works on the graph it was given.
LEMMA PlanStep == ASSUME BuildInv, Plan PROVE BuildInv'
<1>1. stage = "plan" /\ stage' = "plan" /\ ((\E t \in Activations : P!Pick(t) \/ P!Scan(t)) \/ P!Place)
      /\ UNCHANGED <<ops, partVars, model, fusionVars, events, phase>>
  BY DEF Plan, partVars, graphVars, loopVars, profVars, fusionVars
<1>2. FuseInv'
  BY <1>1, FuseKeeps
<1>3. PartInv' /\ Profiled'
  BY <1>1, PartKeeps, LenOps DEF BuildInv
<1>4. graph' = graph
  BY <1>1 DEF P!Pick, P!Scan, P!Place
<1>5. PP!PlanInv'
  BY <1>1, PlanKeeps DEF BuildInv, PlanInv, Planner
<1>6. PlanInv'
  BY <1>1, <1>4, <1>5, SameList DEF BuildInv, PlanInv, Planner
<1> QED BY <1>1, <1>2, <1>3, <1>6 DEF BuildInv, StageInv, LogitsInv

\* A session serves once every tensor has its block.
LEMMA PlannedStep == ASSUME BuildInv, Planned PROVE BuildInv'
<1>1. stage = "plan" /\ stage' = "serve" /\ planning = "pick" /\ P!Planned = P!Placed
      /\ UNCHANGED <<ops, partVars, model, fusionVars, planVars, events, phase, planning>>
  BY DEF Planned, partVars, graphVars, loopVars, profVars, fusionVars, planVars
<1>2. FuseInv'
  BY <1>1, FuseKeeps
<1>3. PartInv' /\ Profiled'
  BY <1>1, PartKeeps, LenOps DEF BuildInv
<1>4. Planner'
  BY <1>1, PlanKeeps, SameList DEF BuildInv, PlanInv, Planner, planVars
<1>5. PlanInv'
  BY <1>1, <1>4, SamePlaces DEF PlanInv
<1> QED BY <1>1, <1>2, <1>3, <1>5 DEF BuildInv, StageInv, LogitsInv

\* A step of forward that leaves the op list, the plan and the model alone.
LEMMA ForwardKeeps ==
  ASSUME BuildInv, stage = "serve", Running, UNCHANGED <<stage, model, fusionVars, planVars>>
  PROVE  /\ FuseInv' /\ StageInv' /\ PartInv' /\ Profiled' /\ PlanInv'
         /\ ops' = ops /\ Serving /\ Len(ops) \in Nat
<1>1. PartInv' /\ Profiled' /\ ops' = ops
  BY PartKeeps, LenOps DEF BuildInv
<1>2. FuseInv'
  BY <1>1, FuseKeeps
<1>3. PlanInv'
  BY <1>1, PlanStays
<1>4. StageInv'
  BY DEF BuildInv, StageInv
<1>5. Serving
  BY ListServable DEF BuildInv, PlanInv, Serving
<1> QED BY <1>1, <1>2, <1>3, <1>4, <1>5, LenOps

\* A forward starts at the first op, with its tokens in the arena.
LEMMA EnterStep == ASSUME BuildInv, NEW called \in Phases, Enter(called) PROVE BuildInv'
<1>1. stage = "serve" /\ stage' = "serve" /\ Begin(called) /\ phase = "ready" /\ phase' = "run"
      /\ value' = Written({0}, [t \in {0} |-> <<"leaf", 0>>])
      /\ UNCHANGED <<stage, model, fusionVars, planVars>>
  BY DEF Enter, Begin, fusionVars
<1>2. FuseInv' /\ StageInv' /\ PartInv' /\ Profiled' /\ PlanInv' /\ ops' = ops /\ Serving
  BY <1>1, ForwardKeeps DEF Running, Phases
<1>3. op' = 0
  <2>1. N \in Nat /\ (N = 0 <=> parts = <<>>) /\ (N > 0 => parts[1].begin = 0)
    BY PartTypes DEF BuildInv, PartInv, Tiled
  <2> QED BY <1>1, <2>1 DEF Begin
<1>4. \A t \in Activations : Live(t, 0) => value'[t] = M[t]
  BY <1>1, <1>2, EnterHolds
<1>5. Holds(op)'
  BY <1>1, <1>2, <1>3, <1>4, SameList DEF Holds
<1> QED BY <1>1, <1>2, <1>5 DEF BuildInv, LogitsInv

\* An op runs.
LEMMA ExecuteStep == ASSUME BuildInv, Execute PROVE BuildInv'
<1>1. stage = "serve" /\ stage' = "serve" /\ RunOp /\ phase = "run" /\ phase' = "run" /\ op' = op + 1
      /\ UNCHANGED <<stage, model, fusionVars, planVars>>
  BY DEF Execute, RunOp, fusionVars
<1>2. FuseInv' /\ StageInv' /\ PartInv' /\ Profiled' /\ PlanInv' /\ ops' = ops /\ Serving /\ Len(ops) \in Nat
  BY <1>1, ForwardKeeps DEF Running
<1>3. op \in 0..Len(ops)-1
  <2>1. N \in Nat /\ part \in 1..N /\ op \in Nat /\ op < parts[part].end
    BY <1>1, PartTypes DEF RunOp, N, BuildInv, PartInv, Ordered
  <2>2. parts[part].end \in Nat /\ parts[part].end <= i /\ i = Len(ops)
    BY <1>1, <2>1, PartTypes DEF BuildInv, PartInv, Stages
  <2> QED BY <1>2, <2>1, <2>2
<1>4. Holds(op)
  BY <1>1 DEF BuildInv, LogitsInv
<1>5. LET o == ops[op + 1]
          new == F!Values(o, [m \in DOMAIN o.in |-> Operand(o.in[m], ToSet(o.out))])
      IN  value' = Written(ToSet(o.out), [t \in ToSet(o.out) |-> new[CHOOSE m \in DOMAIN o.out : o.out[m] = t]])
  BY DEF Execute
<1>6. \A t \in Activations : Live(t, op + 1) => value'[t] = M[t]
  BY <1>2, <1>3, <1>4, <1>5, ExecuteHolds
<1>7. Holds(op)'
  BY <1>1, <1>2, <1>6, SameList DEF Holds
<1> QED BY <1>1, <1>2, <1>7 DEF BuildInv, LogitsInv

\* The loops end a partition, or the forward: then every op has run.
LEMMA LoopStep == ASSUME BuildInv, Loop PROVE BuildInv'
<1>1. stage = "serve" /\ stage' = "serve" /\ (NextPart \/ Return) /\ phase = "run" /\ value' = value
      /\ UNCHANGED <<stage, model, fusionVars, planVars>>
  BY DEF Loop, NextPart, Return, fusionVars
<1>2. FuseInv' /\ StageInv' /\ PartInv' /\ Profiled' /\ PlanInv' /\ ops' = ops /\ Serving /\ Len(ops) \in Nat
  BY <1>1, ForwardKeeps DEF Running
<1>3. Holds(op)
  BY <1>1 DEF BuildInv, LogitsInv
<1>4. CASE NextPart
  <2>1. phase' = "run" /\ ran' = ran
    BY <1>1, <1>4 DEF NextPart
  <2>2. op = Len(ran) /\ op' = Len(ran')
    BY <1>1, <1>2, <2>1 DEF BuildInv, PartInv, Ordered
  <2>3. Holds(op)'
    BY <1>1, <1>2, <1>3, <2>1, <2>2, SameList DEF Holds
  <2> QED BY <1>1, <1>2, <2>1, <2>3 DEF BuildInv, LogitsInv
<1>5. CASE Return
  <2>1. phase' = "ready" /\ part > N /\ N \in Nat
    BY <1>5, PartTypes DEF Return, N, BuildInv, PartInv
  <2>2. op = Len(ops)
    BY <1>1, <2>1 DEF BuildInv, PartInv, Ordered
  <2>3. value[Output] = M[Output]
    BY <1>2, <1>3, <2>2, LogitsLive
  <2> QED BY <1>1, <1>2, <2>1, <2>3, SameList DEF BuildInv, LogitsInv
<1> QED BY <1>1, <1>4, <1>5

\* A session that has ended stays as it is.
LEMMA StutterStep == ASSUME BuildInv, UNCHANGED vars PROVE BuildInv'
<1>1. UNCHANGED <<stage, ops, partVars, model, fusionVars, planVars, planning, value, phase, op, events>>
  BY DEF vars, partVars, graphVars, loopVars, profVars, fusionVars, planVars
<1>2. FuseInv'
  BY <1>1, FuseKeeps DEF BuildInv, FuseInv
<1>3. PartInv' /\ Profiled'
  BY <1>1, PartKeeps, LenOps DEF BuildInv
<1>4. PlanInv'
  BY <1>1, PlanStays
<1>5. LogitsInv'
  BY <1>1, SameList DEF BuildInv, LogitsInv, Holds
<1>6. StageInv'
  BY <1>1 DEF BuildInv, StageInv
<1> QED BY <1>2, <1>3, <1>4, <1>5, <1>6 DEF BuildInv

\* The invariant holds of a model that has not been loaded yet,
LEMMA BuildInit == Init => BuildInv
<1> SUFFICES ASSUME Init PROVE BuildInv
  OBVIOUS
<1>1. model \in Models /\ FP!IsGraph(model) /\ ops = model
  BY ModelsFit DEF Init
<1>2. FP!FusInv
  BY ModelsFit, FP!InitInv DEF Init, FP!Init
<1>3. FP!Used
  <2>1. FP!Left = DOMAIN model /\ FP!Output = model[Len(model)].out[1]
    BY <1>1 DEF Init, FP!Left, FP!Output
  <2> QED BY <1>1, <2>1, BuildAssumption DEF FP!Used, FP!Reads, FP!Writes, FP!Range, Range
<1>4. Len(ops) \in Nat
  BY <1>1 DEF FP!IsGraph
<1>5. PartInv /\ Profiled
  BY <1>4, MakingInv DEF Init, NoDelegates, Making, Phases
<1> QED BY <1>2, <1>3, <1>5 DEF Init, NoDelegates, BuildInv, FuseInv, StageInv, PlanInv, Unplanned, LogitsInv

\* and in every state.
LEMMA BuildInvariant == Spec => []BuildInv
<1>1. BuildInv /\ [Next]_vars => BuildInv'
  BY LoadStep, ConstructStep, OptimizeStep, OptimizedStep, DelegateStep, PlanStep, PlannedStep, EnterStep,
     ExecuteStep, LoopStep, StutterStep DEF Next, Ended, Phases
<1> QED BY <1>1, BuildInit, PTL DEF Spec

-----------------------------------------------------------------------------
(* The weights that load_model hands on                                    *)

\* What a division leaves.
LEMMA Division ==
  ASSUME NEW a \in Nat, NEW b \in Nat \ {0}
  PROVE  a \div b \in Nat /\ a % b \in 0..b-1 /\ a = (a \div b) * b + (a % b)
<1>1. a \div b \in Nat
  OBVIOUS
<1>2. a % b \in 0..b-1
  OBVIOUS
<1>3. a = (a \div b) * b + (a % b)
  OBVIOUS
<1> QED BY <1>1, <1>2, <1>3

\* A product and less than its factor are taken apart again by dividing.
LEMMA DivisionUnique ==
  ASSUME NEW b \in Nat \ {0}, NEW q \in Nat, NEW r \in 0..b-1
  PROVE  (q * b + r) \div b = q /\ (q * b + r) % b = r
<1> DEFINE a == q * b + r
           d == a \div b
           m == a % b
<1>1. a \in Nat /\ d \in Nat /\ m \in 0..b-1 /\ a = d * b + m
  <2> a \in Nat
    OBVIOUS
  <2> HIDE DEF a
  <2> QED BY Division
<1> HIDE DEF d, m
<1>2. d = q
  <2>1. (d - q) * b = r - m
    BY <1>1
  <2>2. CASE d - q >= 1
    <3>1. (d - q) * b >= b
      BY <1>1, <2>2
    <3> QED BY <2>1, <3>1, <1>1
  <2>3. CASE d - q <= -1
    <3>1. (d - q) * b <= -b
      BY <1>1, <2>3
    <3> QED BY <2>1, <3>1, <1>1
  <2> QED BY <2>2, <2>3, <1>1
<1> QED BY <1>1, <1>2 DEF d, m

\* RoundAway is within a half of the quotient, and of its sign.
LEMMA Rounded ==
  ASSUME NEW p \in Int, NEW q \in Int, q # 0
  PROVE  LET n == W!RoundAway(p, q) IN
           /\ n \in Int /\ 2 * W!Abs(n * q - p) <= W!Abs(q)
           /\ n > 0 => (p < 0 <=> q < 0)
           /\ n < 0 => (p < 0 <=> ~(q < 0))
<1> DEFINE P1 == W!Abs(p)
           Q1 == W!Abs(q)
           a == 2 * P1 + Q1
           b == 2 * Q1
           n == a \div b
           m == a % b
<1>1. P1 \in Nat /\ Q1 \in Nat \ {0}
  BY DEF W!Abs
<1>2. n \in Nat /\ m \in 0..b-1 /\ a = n * b + m
  <2> a \in Nat /\ b \in Nat \ {0}
    BY <1>1
  <2> HIDE DEF a, b
  <2> QED BY Division
<1>3. W!RoundAway(p, q) = IF (p < 0) = (q < 0) THEN n ELSE -n
  BY DEF W!RoundAway
<1> HIDE DEF n, m
<1>4. n * b = 2 * (n * Q1)
  BY <1>1, <1>2
<1> DEFINE x == n * Q1
<1>5. x \in Int
  BY <1>1, <1>2
<1>6. 2 * x <= 2 * P1 + Q1 /\ 2 * P1 - Q1 < 2 * x
  <2> HIDE DEF x
  <2> QED BY <1>1, <1>2, <1>4, <1>5 DEF x
<1>7. n * q = (IF q < 0 THEN -x ELSE x) /\ (-n) * q = (IF q < 0 THEN x ELSE -x)
  BY <1>2 DEF W!Abs
<1> HIDE DEF x
<1>8. CASE (p < 0) = (q < 0)
  <2>1. W!RoundAway(p, q) = n
    BY <1>3, <1>8
  <2> QED BY <2>1, <1>8, <1>2, <1>5, <1>6, <1>7 DEF W!Abs
<1>9. CASE (p < 0) # (q < 0)
  <2>1. W!RoundAway(p, q) = -n
    BY <1>3, <1>9
  <2> QED BY <2>1, <1>9, <1>2, <1>5, <1>6, <1>7 DEF W!Abs
<1> QED BY <1>8, <1>9

\* Of a row's magnitudes one is the first of the greatest.
LEMMA GreatestExists ==
  ASSUME NEW lo \in Int, NEW hi \in Int, lo <= hi, NEW A \in [lo..hi -> Nat]
  PROVE  \E k \in lo..hi : \A l \in lo..hi : A[k] > A[l] \/ (A[k] = A[l] /\ k <= l)
<1> DEFINE IsBest(k, n) == k \in lo..n /\ \A l \in lo..n : A[k] > A[l] \/ (A[k] = A[l] /\ k <= l)
           Has(n) == \E k \in lo..n : IsBest(k, n)
           Bad == {n \in Nat : lo + n <= hi /\ ~Has(lo + n)}
<1>1. Has(lo)
  <2>1. lo..lo = {lo} /\ lo \in lo..hi
    OBVIOUS
  <2> QED BY <2>1
<1>2. ASSUME NEW n \in lo..hi-1, Has(n) PROVE Has(n + 1)
  <2>1. PICK k \in lo..n : IsBest(k, n)
    BY <1>2
  <2>2. lo..n+1 = (lo..n) \cup {n + 1} /\ lo..n+1 \subseteq lo..hi /\ n + 1 \in lo..n+1 /\ k \in lo..n+1
    OBVIOUS
  <2>3. A[n + 1] \in Nat /\ \A l \in lo..n : A[l] \in Nat
    BY <2>2
  <2>4. CASE A[n + 1] > A[k]
    <3>1. \A l \in lo..n : A[n + 1] > A[l]
      BY <2>1, <2>3, <2>4
    <3>2. IsBest(n + 1, n + 1)
      BY <3>1, <2>2
    <3> QED BY <3>2, <2>2
  <2>5. CASE ~(A[n + 1] > A[k])
    <3>1. IsBest(k, n + 1)
      BY <2>1, <2>2, <2>3, <2>5
    <3> QED BY <3>1, <2>2
  <2> QED BY <2>4, <2>5
<1> HIDE DEF Has
<1>3. Bad = {}
  <2> SUFFICES ASSUME Bad # {} PROVE FALSE
    OBVIOUS
  <2>1. PICK n \in Bad : \A m \in Bad : n <= m
    BY LeastExists
  <2>2. n # 0
    BY <2>1, <1>1
  <2>3. n - 1 \in Nat /\ lo + (n - 1) \in lo..hi-1 /\ (lo + (n - 1)) + 1 = lo + n
    BY <2>1, <2>2
  <2>4. Has(lo + (n - 1))
    BY <2>1, <2>3
  <2>5. Has((lo + (n - 1)) + 1)
    BY <2>3, <2>4, <1>2
  <2> QED BY <2>1, <2>3, <2>5
<1>4. Has(hi)
  <2> DEFINE d == hi - lo
  <2>1. d \in Nat /\ lo + d = hi
    OBVIOUS
  <2>2. d \notin Bad
    BY <1>3
  <2>3. Has(lo + d)
    <3> HIDE DEF d
    <3> QED BY <2>1, <2>2
  <2> QED BY <2>1, <2>3
<1> QED BY <1>4 DEF Has

\* The one that the quantizers choose: no element of the row is greater in magnitude.
LEMMA BestIsGreatest ==
  ASSUME NEW x, NEW lo \in Int, NEW hi \in Int, lo <= hi, \A k \in lo..hi : x[k] \in Int
  PROVE  LET b == W!Best(x, lo..hi) IN b \in lo..hi /\ \A l \in lo..hi : W!Abs(x[l]) <= W!Abs(x[b])
<1> DEFINE K == lo..hi
           A == [k \in K |-> W!Abs(x[k])]
           Q(k) == \A l \in K : A[k] > A[l] \/ (A[k] = A[l] /\ k <= l)
           b == W!Best(x, K)
<1>1. A \in [lo..hi -> Nat]
  BY DEF W!Abs
<1>2. \E k \in K : Q(k)
  <2> HIDE DEF A
  <2> QED BY <1>1, GreatestExists
<1>3. \A k \in K : Q(k) <=> \A l \in K : W!Abs(x[k]) > W!Abs(x[l]) \/ (W!Abs(x[k]) = W!Abs(x[l]) /\ k <= l)
  OBVIOUS
<1>4. b \in K /\ \A l \in K : W!Abs(x[b]) > W!Abs(x[l]) \/ (W!Abs(x[b]) = W!Abs(x[l]) /\ b <= l)
  <2> HIDE DEF K, Q
  <2> QED BY <1>2, <1>3, Zenon DEF W!Best
<1>5. \A k \in K : W!Abs(x[k]) \in Nat
  BY DEF W!Abs
<1>6. \A l \in K : W!Abs(x[l]) <= W!Abs(x[b])
  <2> HIDE DEF K, b
  <2> QED BY <1>4, <1>5
<1> HIDE DEF b
<1> QED BY <1>4, <1>6 DEF b

\* A multiple of m that is within a half of m of an n-th of it is the product of no more than n.
LEMMA MultipleBounded ==
  ASSUME NEW R \in Int, NEW m \in Int, m # 0, NEW n \in Nat, 2 * W!Abs(R * m) <= (2 * n + 1) * W!Abs(m)
  PROVE  R \in -n..n
<1> DEFINE a == W!Abs(m)
           x == R * a
           y == n * a
<1>1. a \in Nat \ {0} /\ x \in Int /\ y \in Int /\ (2 * n + 1) * a = 2 * y + a
  BY DEF W!Abs
<1>2. W!Abs(R * m) = W!Abs(x)
  BY DEF W!Abs
<1>3. CASE R >= n + 1
  <2>1. R * a >= (n + 1) * a /\ (n + 1) * a = y + a
    BY <1>1, <1>3
  <2> HIDE DEF a, x, y
  <2> QED BY <1>1, <1>2, <2>1 DEF W!Abs, x, a
<1>4. CASE R <= -(n + 1)
  <2>1. R * a <= (-(n + 1)) * a /\ (-(n + 1)) * a = -y - a
    BY <1>1, <1>4
  <2> QED BY <1>1, <1>2, <2>1 DEF W!Abs
<1> QED BY <1>3, <1>4

\* q8: half a step of the row's scale, and the clamp never bites.
LEMMA Q8Near ==
  ASSUME NEW v \in Int, NEW m \in Nat, W!Abs(v) <= m
  PROVE  LET c == W!Clamped(W!RoundAway(127 * v, m), -127, 127)
         IN  c \in Int /\ 2 * W!Abs(c * m - 127 * v) <= m
<1> DEFINE R == W!RoundAway(127 * v, m)
<1>1. CASE m = 0
  <2>1. v = 0 /\ R = 0
    BY <1>1 DEF W!Abs, W!RoundAway
  <2> QED BY <1>1, <2>1 DEF W!Abs, W!Clamped
<1>2. CASE m # 0
  <2>1. R \in Int /\ 2 * W!Abs(R * m - 127 * v) <= W!Abs(m)
    <3> DEFINE p == 127 * v
    <3>1. p \in Int /\ m \in Int
      OBVIOUS
    <3> HIDE DEF p
    <3>2. W!RoundAway(p, m) \in Int /\ 2 * W!Abs(W!RoundAway(p, m) * m - p) <= W!Abs(m)
      BY <1>2, <3>1, Rounded
    <3> QED BY <3>2 DEF p
  <2> HIDE DEF R
  <2>2. 2 * W!Abs(R * m) <= (2 * 127 + 1) * W!Abs(m)
    <3> DEFINE x == R * m
    <3>1. x \in Int
      BY <2>1
    <3> HIDE DEF x
    <3>2. 2 * W!Abs(x - 127 * v) <= W!Abs(m)
      BY <2>1 DEF x
    <3>3. 2 * W!Abs(x) <= (2 * 127 + 1) * W!Abs(m)
      BY <3>1, <3>2 DEF W!Abs
    <3> QED BY <3>3 DEF x
  <2>3. R \in -127..127
    <3> DEFINE n == 127
    <3>1. n \in Nat /\ m \in Int /\ 2 * W!Abs(R * m) <= (2 * n + 1) * W!Abs(m)
      BY <2>2
    <3> HIDE DEF n
    <3>2. R \in -n..n
      BY <1>2, <2>1, <3>1, MultipleBounded
    <3> QED BY <3>2 DEF n
  <2> QED BY <2>1, <2>3 DEF W!Clamped, W!Abs, R
<1> QED BY <1>1, <1>2

\* q4: half a step of the group's scale, or a step where the clamp at 7 bites.
LEMMA Q4Near ==
  ASSUME NEW v \in Int, NEW m \in Int, W!Abs(v) <= W!Abs(m)
  PROVE  LET c == W!Nibble(v, m)
             error == W!Abs((c - 8) * m + 8 * v)
         IN  c \in 0..15 /\ (2 * error <= W!Abs(m) \/ (error <= W!Abs(m) /\ (v < 0) # (m < 0)))
<1> DEFINE R == W!RoundAway(-8 * v, m)
           C == W!Clamped(R, -8, 7)
<1>1. CASE m = 0
  <2>1. v = 0 /\ R = 0
    BY <1>1 DEF W!Abs, W!RoundAway
  <2> QED BY <1>1, <2>1 DEF W!Abs, W!Clamped, W!Nibble
<1>2. CASE m # 0
  <2> DEFINE x == R * m
  <2>1. /\ R \in Int /\ 2 * W!Abs(R * m - (-8 * v)) <= W!Abs(m)
        /\ R > 0 => (-8 * v < 0 <=> m < 0)
    <3>1. -8 * v \in Int
      OBVIOUS
    <3> QED BY <1>2, <3>1, Rounded
  <2> HIDE DEF R
  <2>2. x \in Int
    BY <2>1
  <2> HIDE DEF x
  <2>3. 2 * W!Abs(x + 8 * v) <= W!Abs(m)
    BY <2>1, <2>2 DEF x, W!Abs
  <2>4. 2 * W!Abs(x) <= (2 * 8 + 1) * W!Abs(m)
    BY <2>2, <2>3 DEF W!Abs
  <2>5. R \in -8..8
    BY <1>2, <2>1, <2>4, MultipleBounded DEF x
  <2>6. W!Nibble(v, m) = C + 8
    BY DEF W!Nibble, R
  <2>7. CASE R # 8
    <3>1. C = R
      BY <2>5, <2>7 DEF W!Clamped
    <3>2. W!Nibble(v, m) - 8 = R /\ W!Nibble(v, m) \in 0..15
      BY <2>5, <2>6, <2>7, <3>1
    <3> QED BY <2>3, <3>2 DEF x
  <2>8. CASE R = 8
    <3>1. C = 7
      BY <2>8 DEF W!Clamped
    <3>2. W!Nibble(v, m) - 8 = 7 /\ W!Nibble(v, m) \in 0..15
      BY <2>6, <3>1
    <3>3. x = 8 * m
      BY <2>8 DEF x
    <3>4. W!Abs(7 * m + 8 * v) <= W!Abs(m) /\ (v < 0) # (m < 0)
      BY <1>2, <2>1, <2>3, <2>8, <3>3 DEF W!Abs
    <3> QED BY <3>2, <3>4
  <2> QED BY <2>7, <2>8
<1> QED BY <1>1, <1>2

\* The code's G, and the bytes of a group.
G == GroupSize
H == W!Half
Groups == G \in Nat \ {0} /\ H \in Nat \ {0} /\ G = 2 * H

\* Where the element k of a row is: the group, the byte, and the half of the group.
LEMMA Places ==
  ASSUME Groups, NEW cols \in Nat, cols % G = 0, NEW k \in 0..cols-1
  PROVE  /\ k \div G \in Nat /\ k \div G \in 0 .. (cols \div G) - 1 /\ k % G \in 0..G-1
         /\ W!GroupAt(k \div G) = (k \div G) * G .. ((k \div G) * G + G) - 1
         /\ k = (k \div G) * G + (k % G)
         /\ W!GroupAt(k \div G) \subseteq 0..cols-1 /\ k \in W!GroupAt(k \div G)
         /\ k % H \in 0..H-1 /\ k % H = (IF k % G < H THEN k % G ELSE (k % G) - H)
         /\ LET n == (k \div G) * H + (k % H)
            IN  n \in 0 .. (cols \div 2) - 1 /\ n \div H = k \div G /\ n % H = k % H
<1> DEFINE g == k \div G
           p == k % G
           c == cols \div G
           h == k % H
           n == g * H + h
<1> USE DEF Groups
<1>1. g \in Nat /\ p \in 0..G-1 /\ k = g * G + p
  <2> HIDE DEF G, H
  <2>1. k \in Nat /\ G \in Nat \ {0}
    OBVIOUS
  <2> QED BY <2>1, Division
<1>2. c \in Nat /\ cols = c * G
  <2>1. c \in Nat /\ cols = c * G + (cols % G)
    <3> HIDE DEF G, H
    <3> QED BY Division
  <2> HIDE DEF c, G, H
  <2> QED BY <2>1
<1> HIDE DEF G, H, g, p, c
<1>3. g <= c - 1
  <2>1. g >= c => g * G >= c * G
    BY <1>1, <1>2
  <2> DEFINE y == g * G
             z == c * G
  <2>2. y \in Int /\ z \in Int
    BY <1>1, <1>2
  <2>3. y <= k /\ k < z
    BY <1>1, <1>2
  <2> HIDE DEF y, z
  <2>4. ~(y >= z)
    BY <2>2, <2>3
  <2> QED BY <2>1, <2>4, <1>1, <1>2 DEF y, z
<1>4. h \in 0..H-1 /\ h = (IF p < H THEN p ELSE p - H)
  <2>1. CASE p < H
    <3>1. k = (2 * g) * H + p /\ 2 * g \in Nat /\ p \in 0..H-1
      BY <1>1, <2>1
    <3>2. k % H = p
      BY <3>1, DivisionUnique
    <3> QED BY <3>1, <3>2, <2>1
  <2>2. CASE ~(p < H)
    <3>1. k = (2 * g + 1) * H + (p - H) /\ 2 * g + 1 \in Nat /\ p - H \in 0..H-1
      BY <1>1, <2>2
    <3>2. k % H = p - H
      BY <3>1, DivisionUnique
    <3> QED BY <3>1, <3>2, <2>2
  <2> QED BY <2>1, <2>2
<1> HIDE DEF h
<1>5. n \div H = g /\ n % H = h
  BY <1>1, <1>4, DivisionUnique
<1>6. (g + 1) * G <= c * G /\ (g + 1) * H <= c * H /\ (g + 1) * G = g * G + G /\ (g + 1) * H = g * H + H
  <2>1. g + 1 \in Nat /\ c - (g + 1) \in Nat
    BY <1>1, <1>2, <1>3
  <2>2. (c - (g + 1)) * G >= 0 /\ (c - (g + 1)) * H >= 0
    BY <2>1
  <2> QED BY <2>1, <2>2, <1>1, <1>2
<1>7. cols \div 2 = c * H
  <2>1. cols = (c * H) * 2 + 0 /\ c * H \in Nat
    BY <1>2
  <2> DEFINE q == c * H
  <2> HIDE DEF q
  <2>2. (q * 2 + 0) \div 2 = q
    BY <2>1 DEF q
  <2> QED BY <2>1, <2>2 DEF q
<1>8. n \in 0 .. (cols \div 2) - 1
  <2> DEFINE q == c * H
             y == g * H
  <2>1. q \in Nat /\ y \in Nat /\ y + H <= q /\ cols \div 2 = q
    BY <1>1, <1>2, <1>6, <1>7
  <2> HIDE DEF q, y
  <2>2. y + h \in 0..q-1
    BY <2>1, <1>4
  <2> QED BY <2>1, <2>2 DEF y
<1>9. W!GroupAt(g) \subseteq 0..cols-1 /\ k \in W!GroupAt(g) /\ W!GroupAt(g) = g * G .. (g * G + G) - 1
  <2> DEFINE y == g * G
  <2>1. y \in Nat /\ y + G <= cols /\ k = y + p
    BY <1>1, <1>2, <1>6
  <2>2. W!GroupAt(g) = y .. (y + G) - 1
    BY <1>6 DEF W!GroupAt, G
  <2> HIDE DEF y
  <2> QED BY <2>1, <2>2, <1>1
<1> QED BY <1>1, <1>3, <1>4, <1>5, <1>8, <1>9, <1>2 DEF g, p, c, h

\* An element of a q4 row comes out of its byte as it went in.
LEMMA Q4Unpacked ==
  ASSUME Groups, NEW cols \in Nat, cols % G = 0, NEW x \in [0..cols-1 -> Int], NEW k \in 0..cols-1
  PROVE  LET m == W!Q4Scales(x, cols)[k \div G]
         IN  /\ m = x[W!Best(x, W!GroupAt(k \div G))] /\ m \in Int /\ W!Abs(x[k]) <= W!Abs(m)
             /\ W!Unpacked(W!Q4Data(x, cols), k) = W!Nibble(x[k], m) - 8
<1> DEFINE g == k \div G
           p == k % G
           h == k % H
           n == g * H + h
           m == W!Q4Scales(x, cols)[g]
           Near(v) == v \in Int /\ W!Abs(v) <= W!Abs(m)
           lo == W!Nibble(x[g * G + h], m)
           hi == W!Nibble(x[g * G + h + H], m)
<1>1. /\ g \in Nat /\ g \in 0 .. (cols \div G) - 1 /\ p \in 0..G-1 /\ k = g * G + p
      /\ W!GroupAt(g) \subseteq 0..cols-1 /\ k \in W!GroupAt(g) /\ W!GroupAt(g) = g * G .. (g * G + G) - 1
      /\ h \in 0..H-1 /\ h = (IF p < H THEN p ELSE p - H)
      /\ n \in 0 .. (cols \div 2) - 1 /\ n \div H = g /\ n % H = h
  BY Places
<1>2. m = x[W!Best(x, W!GroupAt(g))]
  BY <1>1 DEF W!Q4Scales, G
<1>3. m \in Int /\ \A l \in W!GroupAt(g) : Near(x[l])
  <2> DEFINE a == g * G
             b == (a + G) - 1
  <2>1. a \in Int /\ b \in Int /\ a <= b
    <3>1. a \in Int /\ G \in Nat \ {0}
      BY <1>1 DEF Groups
    <3> HIDE DEF a
    <3> QED BY <3>1
  <2>2. W!GroupAt(g) = a..b
    BY <1>1
  <2> HIDE DEF a, b, g, m
  <2>3. \A l \in a..b : x[l] \in Int
    BY <1>1, <2>2
  <2>4. W!Best(x, a..b) \in a..b /\ \A l \in a..b : W!Abs(x[l]) <= W!Abs(x[W!Best(x, a..b)])
    BY <2>1, <2>3, BestIsGreatest
  <2> QED BY <2>2, <2>3, <2>4, <1>2
<1>4. g * G + h \in W!GroupAt(g) /\ g * G + h + H \in W!GroupAt(g)
  <2> DEFINE a == g * G
  <2>1. a \in Int /\ h \in 0..H-1
    BY <1>1 DEF Groups
  <2>2. W!GroupAt(g) = a .. (a + G) - 1
    BY <1>1
  <2> HIDE DEF a, g, h
  <2>3. a + h \in a .. (a + G) - 1 /\ a + h + H \in a .. (a + G) - 1
    BY <2>1 DEF Groups
  <2> QED BY <2>2, <2>3 DEF a
<1>5. lo \in 0..15 /\ hi \in 0..15
  <2>1. \A v : Near(v) => W!Nibble(v, m) \in 0..15
    BY <1>3, Q4Near
  <2> HIDE DEF g, h, m
  <2> QED BY <1>3, <1>4, <2>1
<1>6. W!Q4Data(x, cols)[n] = lo + 16 * hi
  <2>1. W!Q4Data(x, cols)[n] =
          W!Nibble(x[(n \div H) * G + (n % H)], W!Q4Scales(x, cols)[n \div H])
            + 16 * W!Nibble(x[(n \div H) * G + (n % H) + H], W!Q4Scales(x, cols)[n \div H])
    BY <1>1 DEF W!Q4Data, G, H
  <2> QED BY <1>1, <2>1
<1>7. W!Unpacked(W!Q4Data(x, cols), k) = (IF p < H THEN (lo + 16 * hi) % 16 ELSE (lo + 16 * hi) \div 16) - 8
  BY <1>6 DEF W!Unpacked, G, H
<1>8. (lo + 16 * hi) % 16 = lo /\ (lo + 16 * hi) \div 16 = hi
  <2> HIDE DEF lo, hi
  <2> QED BY <1>5
<1>9. W!Nibble(x[k], m) = IF p < H THEN lo ELSE hi
  <2>1. IF p < H THEN k = g * G + h ELSE k = g * G + h + H
    <3> DEFINE a == g * G
    <3>1. a \in Int
      BY <1>1 DEF Groups
    <3> HIDE DEF a, g, p, h
    <3> QED BY <1>1, <3>1 DEF a, Groups
  <2> HIDE DEF g, p, h, m
  <2> QED BY <2>1
<1> HIDE DEF lo, hi, p, m
<1> QED BY <1>1, <1>2, <1>3, <1>7, <1>8, <1>9 DEF m

\* What stays true of a weight: it is as its file says, or as the quantizers have made it of that.
Faithful(w, e) ==
  /\ w.rows = e.rows /\ w.cols = e.cols
  /\ w.type = "f32" => w.data = e.val
  /\ w.rows = 1 => w.type = "f32"
  /\ \A r \in 0..e.rows-1, k \in 0..e.cols-1 : W!WithinStep(w, e.val[r], r, k)
WeightsInv ==
  /\ file \in Files /\ target \in Targets
  /\ loading = "converting" => target \in {"q8", "q4"}
  /\ DOMAIN weights = DOMAIN file.weights
  /\ \A n \in DOMAIN weights : Faithful(weights[n], file.weights[n])

\* A matrix that is not quantized is exact.
LEMMA PlainFaithful ==
  ASSUME NEW e, NEW w, W!IsWeight(e), w.type = "f32", w.rows = e.rows, w.cols = e.cols, w.data = e.val
  PROVE  Faithful(w, e)
<1> SUFFICES ASSUME NEW r \in 0..e.rows-1, NEW k \in 0..e.cols-1 PROVE W!WithinStep(w, e.val[r], r, k)
  BY DEF Faithful
<1>1. e.val[r][k] \in Int
  BY DEF W!IsWeight
<1>2. W!Dequantized(w, r, k) = e.val[r][k] /\ W!Unit(w) = 1
  BY DEF W!Dequantized, W!Unit
<1> QED BY <1>1, <1>2 DEF W!WithinStep, W!Abs

\* The quantizers keep a matrix within the step.
LEMMA QuantizedFaithful ==
  ASSUME Groups, NEW e, NEW w, W!IsWeight(e), w.rows = e.rows, w.cols = e.cols, w.data = e.val,
         NEW type \in {"q8", "q4"}, e.rows # 1, type = "q4" => e.cols % G = 0
  PROVE  Faithful(W!Quantized(w, type), e)
<1> DEFINE q == W!Quantized(w, type)
<1>1. q.type = type /\ q.rows = e.rows /\ q.cols = e.cols
  BY DEF W!Quantized
<1>2. SUFFICES ASSUME NEW r \in 0..e.rows-1, NEW k \in 0..e.cols-1 PROVE W!WithinStep(q, e.val[r], r, k)
  BY <1>1 DEF Faithful
<1> DEFINE x == e.val[r]
<1>3. e.cols \in Nat /\ x \in [0..e.cols-1 -> Int] /\ DOMAIN x = 0..e.cols-1 /\ x[k] \in Int
  BY DEF W!IsWeight
<1>4. CASE type = "q8"
  <2> DEFINE m == x[W!Best(x, DOMAIN x)]
             s == W!Abs(m)
             c == W!Clamped(W!RoundAway(127 * x[k], s), -127, 127)
  <2>1. q.data[r] = W!Q8Data(x) /\ q.scales[r] = W!Q8Scales(x)
    BY <1>4 DEF W!Quantized
  <2>2. q.scales[r][0] = s /\ q.data[r][k] = c
    BY <2>1, <1>3 DEF W!Q8Data, W!Q8Scales
  <2>3. m \in Int /\ W!Abs(x[k]) <= s
    <3> DEFINE hi == e.cols - 1
    <3>1. hi \in Int /\ 0 <= hi /\ k \in 0..hi
      BY <1>3
    <3> HIDE DEF x, hi
    <3>2. \A l \in 0..hi : x[l] \in Int
      BY <1>3 DEF hi
    <3>3. W!Best(x, 0..hi) \in 0..hi /\ \A l \in 0..hi : W!Abs(x[l]) <= W!Abs(x[W!Best(x, 0..hi)])
      BY <3>1, <3>2, BestIsGreatest
    <3> QED BY <1>3, <3>1, <3>2, <3>3 DEF hi
  <2>4. s \in Nat
    BY <2>3 DEF W!Abs
  <2>5. 2 * W!Abs(c * s - 127 * x[k]) <= s
    <3> HIDE DEF x, s
    <3> QED BY <1>3, <2>3, <2>4, Q8Near
  <2>6. W!Dequantized(q, r, k) = c * s /\ W!Unit(q) = 127
    BY <1>1, <1>4, <2>2 DEF W!Dequantized, W!Unit
  <2> HIDE DEF c, q
  <2> QED BY <1>1, <1>4, <2>5, <2>6 DEF W!WithinStep
<1>5. CASE type = "q4"
  <2> DEFINE g == k \div G
             m == W!Q4Scales(x, e.cols)[g]
             c == W!Nibble(x[k], m)
  <2>1. q.data[r] = W!Q4Data(x, e.cols) /\ q.scales[r] = W!Q4Scales(x, e.cols)
    BY <1>5, <1>3 DEF W!Quantized
  <2>2. /\ m = x[W!Best(x, W!GroupAt(g))] /\ m \in Int /\ W!Abs(x[k]) <= W!Abs(m)
        /\ W!Unpacked(W!Q4Data(x, e.cols), k) = c - 8
    <3> HIDE DEF x
    <3> QED BY <1>3, <1>5, Q4Unpacked
  <2> DEFINE error == W!Abs((c - 8) * m + 8 * x[k])
  <2>3. c \in 0..15 /\ (2 * error <= W!Abs(m) \/ (error <= W!Abs(m) /\ (x[k] < 0) # (m < 0)))
    <3> HIDE DEF x, m
    <3> QED BY <1>3, <2>2, Q4Near
  <2>4. W!Dequantized(q, r, k) = (c - 8) * m /\ W!Unit(q) = -8
    BY <1>1, <1>5, <2>1, <2>2 DEF W!Dequantized, W!Unit, G
  <2>5. W!Dequantized(q, r, k) - W!Unit(q) * x[k] = (c - 8) * m + 8 * x[k]
    <3>1. c \in Int
      BY <2>3
    <3> DEFINE y == (c - 8) * m
    <3>2. y \in Int
      BY <3>1, <2>2
    <3> HIDE DEF y, c, x
    <3> QED BY <3>2, <2>4, <1>3 DEF y
  <2> HIDE DEF c, q
  <2> QED BY <1>1, <1>5, <2>2, <2>3, <2>5 DEF W!WithinStep, G
<1> QED BY <1>4, <1>5

\* The code's group has 32 elements in 16 bytes.
LEMMA GroupsHalve == Groups
  BY WeightsAssumption DEF Groups, G, H, W!Half

\* load_model keeps every weight faithful.
LEMMA WeightsInit == Init => WeightsInv
<1> SUFFICES ASSUME Init PROVE WeightsInv
  OBVIOUS
<1>1. PICK f \in Files : W!Load(f)
  BY DEF Init
<1>2. W!IsFile(f) /\ file = f /\ target \in Targets /\ loading = "loaded"
  BY <1>1, WeightsAssumption DEF Init, W!Load
<1>3. weights = [n \in DOMAIN f.weights |-> W!Mapped(f.weights[n])]
  BY <1>1 DEF W!Load
<1>4. ASSUME NEW n \in DOMAIN f.weights PROVE Faithful(W!Mapped(f.weights[n]), f.weights[n])
  <2> DEFINE e == f.weights[n]
             plain == [type |-> "f32", rows |-> e.rows, cols |-> e.cols, data |-> e.val, scales |-> <<>>]
  <2>1. W!IsWeight(e)
    BY <1>2 DEF W!IsFile
  <2>2. plain.type = "f32" /\ plain.rows = e.rows /\ plain.cols = e.cols /\ plain.data = e.val
    OBVIOUS
  <2>3. W!Mapped(e) = IF e.type = "f32" THEN plain ELSE W!Quantized(plain, e.type)
    BY DEF W!Mapped
  <2> HIDE DEF e, plain
  <2>4. CASE e.type = "f32"
    BY <2>1, <2>2, <2>3, <2>4, PlainFaithful DEF e
  <2>5. CASE e.type # "f32"
    <3>1. e.type \in {"q8", "q4"} /\ e.rows # 1 /\ (e.type = "q4" => e.cols % G = 0)
      BY <2>1, <2>5 DEF W!IsWeight, G
    <3>2. Faithful(W!Quantized(plain, e.type), e)
      BY <2>1, <2>2, <3>1, GroupsHalve, QuantizedFaithful
    <3> QED BY <2>3, <2>5, <3>2 DEF e
  <2> QED BY <2>4, <2>5
<1> QED BY <1>2, <1>3, <1>4 DEF WeightsInv

\* A turn of convert_weights' loop, over a weight that is as its file says.
LEMMA ConvertKeeps == ASSUME WeightsInv, W!ConvertNext PROVE WeightsInv'
<1> DEFINE w == weights[turn]
<1>1. UNCHANGED <<file, target>> /\ loading = "converting"
  BY DEF W!ConvertNext
<1>2. CASE W!Convertible(w) /\ target = "q4" /\ w.cols % GroupSize # 0
  BY <1>1, <1>2 DEF W!ConvertNext, WeightsInv
<1>3. CASE ~(W!Convertible(w) /\ target = "q4" /\ w.cols % GroupSize # 0)
  <2>1. /\ loading' = loading
        /\ weights' = IF W!Convertible(w) THEN [weights EXCEPT ![turn] = W!Quantized(w, target)] ELSE weights
    BY <1>3 DEF W!ConvertNext
  <2>2. CASE ~W!Convertible(w)
    BY <1>1, <2>1, <2>2 DEF WeightsInv
  <2>3. CASE W!Convertible(w)
    <3>1. DOMAIN weights' = DOMAIN weights /\ \A n \in DOMAIN weights : n # turn => weights'[n] = weights[n]
      BY <2>1, <2>3
    <3>2. ASSUME turn \in DOMAIN weights PROVE Faithful(weights'[turn], file.weights[turn])
      <4> DEFINE e == file.weights[turn]
      <4>1. weights'[turn] = W!Quantized(w, target)
        BY <2>1, <2>3, <3>2
      <4>2. W!IsWeight(e)
        BY <3>2, WeightsAssumption DEF WeightsInv, W!IsFile
      <4>3. Faithful(w, e) /\ w.type = "f32" /\ w.rows > 1
        BY <2>3, <3>2 DEF WeightsInv, W!Convertible
      <4>4. w.rows = e.rows /\ w.cols = e.cols /\ w.data = e.val
        BY <4>3 DEF Faithful
      <4>5. target \in {"q8", "q4"} /\ e.rows # 1 /\ (target = "q4" => e.cols % G = 0)
        BY <1>1, <1>3, <2>3, <4>3, <4>4 DEF WeightsInv, G
      <4> HIDE DEF e, w
      <4> QED BY <4>1, <4>2, <4>4, <4>5, GroupsHalve, QuantizedFaithful DEF e
    <3> QED BY <1>1, <2>1, <3>1, <3>2 DEF WeightsInv
  <2> QED BY <2>2, <2>3
<1> QED BY <1>2, <1>3

\* Nothing but load_model touches a weight.
LEMMA WeightsStep == ASSUME WeightsInv, [Next]_vars PROVE WeightsInv'
<1>1. CASE Load
  <2>1. CASE W!Keep
    BY <2>1 DEF W!Keep, WeightsInv
  <2>2. CASE W!Convert
    BY <2>2, WeightsAssumption DEF W!Convert, WeightsInv
  <2>3. CASE W!ConvertNext
    BY <2>3, ConvertKeeps
  <2>4. CASE W!Converted
    BY <2>4 DEF W!Converted, WeightsInv
  <2> QED BY <1>1, <2>1, <2>2, <2>3, <2>4 DEF Load, W!LoadModel
<1>2. CASE ~Load
  <2>1. UNCHANGED weightVars
    BY <1>2 DEF Next, vars, Construct, Optimize, Optimized, Delegate, Plan, Planned, Enter, Execute, Loop, Ended
  <2> QED BY <2>1 DEF weightVars, WeightsInv
<1> QED BY <1>1, <1>2

-----------------------------------------------------------------------------
(* Theorems                                                                *)

\* RunsEveryOpOnce for any model and preferences: a forward leaves no op out, runs none twice or out of
\* order, and gives each to the first backend that claims it, fused or not.
THEOREM EveryOpRunsOnce == Spec => []RunsEveryOpOnce
<1>1. BuildInv => RunsEveryOpOnce
  BY PartSafe, LenOps DEF BuildInv
<1> QED BY <1>1, BuildInvariant, PTL

\* NarrowBackendIsSpared for any model and weights: of all of an op's weights, not only the first.
THEOREM NarrowBackendAlwaysSpared == Spec => []NarrowBackendIsSpared
<1>1. BuildInv => NarrowBackendIsSpared
  BY PartSafe, LenOps DEF BuildInv
<1> QED BY <1>1, BuildInvariant, PTL

\* PartitionsAreMaximal for any model and preferences: neighbours differ and meet, none is empty.
THEOREM PartitionsStayMaximal == Spec => []PartitionsAreMaximal
<1>1. BuildInv => PartitionsAreMaximal
  BY PartSafe, LenOps DEF BuildInv
<1> QED BY <1>1, BuildInvariant, PTL

\* ProfileAddsUp for any model and preferences: the events of an op type on a backend are as many as the ops
\* of that type which it runs, times the forwards of the phase.
THEOREM ProfileAlwaysAddsUp == Spec => []ProfileAddsUp
<1>1. BuildInv => ProfileAddsUp
  BY ProfiledSafe, LenOps DEF BuildInv
<1> QED BY <1>1, BuildInvariant, PTL

\* LogitsAreTheModels for any model, with and without fusion, whatever its tensors' sizes are and however its
\* ops are partitioned: a forward gives its caller what the model's own ops compute, the first and every later
\* one, out of an arena in which tensors lie over each other.
THEOREM LogitsAlwaysTheModels == Spec => []LogitsAreTheModels
<1>1. BuildInv => LogitsAreTheModels
  BY SameMeaning DEF BuildInv, LogitsInv, LogitsAreTheModels, M
<1> QED BY <1>1, BuildInvariant, PTL

\* QuantizedWithinStep for any file, any size of a group and any --dtype: what the kernels will read of each
\* element of a weight is as near to what the file was made from as its type allows, and vectors are as they were.
THEOREM WeightsAlwaysWithinStep == Spec => []QuantizedWithinStep
<1>1. WeightsInv => QuantizedWithinStep
  BY WeightsAssumption DEF WeightsInv, QuantizedWithinStep, W!QuantizedWithinStep, Faithful
<1> QED BY <1>1, WeightsInit, WeightsStep, PTL DEF Spec
=============================================================================
