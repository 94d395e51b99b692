------------------------ MODULE MemoryPlanner_proofs ------------------------
(* The plan is valid for every graph: any number of tensors, ops and bytes. *)
EXTENDS MemoryPlanner, WellFoundedInduction, TLAPS

USE DEF kAlign

\* The placed tensors that the one being placed must not share bytes with.
Rivals == {u \in Placed : Together(tensor, u)}
Size == Bytes(tensor)

Types ==
  /\ IsGraph(graph)
  /\ phase \in {"pick", "scan", "run"}
  /\ offset \in [Tensors -> Nat \cup {-1}] /\ arena \in Nat
  /\ tensor \in Tensors \cup {-1}
  /\ best \in Nat \cup {-1} /\ gap \in Int /\ cur \in Nat

\* What the walk over busy knows: the blocks behind it begin no later than those ahead and end before cur,
\* and the gap at best is clear of both.
Walk ==
  /\ tensor \in Planned \ Placed
  /\ busy \subseteq Rivals
  /\ cur % kAlign = 0
  /\ \A u \in Rivals \ busy : End(u) <= cur /\ \A v \in busy : offset[u] <= offset[v]
  /\ best >= 0 =>
       /\ best % kAlign = 0
       /\ \A u \in Rivals : best + Size <= offset[u] \/ (u \notin busy /\ End(u) <= best)

PlanInv == Types /\ PlanIsValid /\ (phase = "scan" => Walk)

\* Sizes are multiples of the alignment.
LEMMA TensorNat == ASSUME Types, NEW t \in Tensors PROVE
  /\ Bytes(t) \in Nat /\ Bytes(t) % kAlign = 0
  /\ offset[t] \in Nat \cup {-1}
  /\ End(t) = offset[t] + Bytes(t)
<1> graph.size[t] \in Nat
  BY DEF Types, IsGraph
<1> DEFINE k == (graph.size[t] + kAlign - 1) \div kAlign
<1> k \in Nat
  OBVIOUS
<1> HIDE DEF k
<1> k * 64 \in Nat /\ (k * 64) % 64 = 0
  OBVIOUS
<1> QED BY DEF Bytes, End, Types, k

\* Before anything has been placed, the invariant holds of any graph.
LEMMA FreshPlan ==
  /\ IsGraph(graph) /\ phase = "pick" /\ offset = [t \in Tensors |-> -1] /\ arena = 0
  /\ tensor = -1 /\ best = -1 /\ gap = 0 /\ cur = 0
  => PlanInv
  BY DEF PlanInv, Types, PlanIsValid, Placed, Planned

\* The invariant holds at the start.
LEMMA PlanInvInit == Init => PlanInv
  BY PlannerAssumption, FreshPlan DEF PlannerAssumption, Init

\* A step that leaves the graph alone leaves the live ranges and the sizes alone.
LEMMA SameGraph ==
  ASSUME graph' = graph
  PROVE  /\ Planned' = Planned
         /\ \A t, u : Together(t, u)' = Together(t, u)
         /\ \A t : Bytes(t)' = Bytes(t)
  BY DEF Planned, Together, First, Last, WrittenBy, ReadBy, Bytes

\* Every step of the planner, and of the pass over the plan, keeps the invariant.
LEMMA PlanInvNext == PlanInv /\ [Next]_vars => PlanInv'
<1> SUFFICES ASSUME PlanInv, [Next]_vars PROVE PlanInv'
  OBVIOUS
<1> USE DEF PlanInv
<1> Placed \subseteq Planned /\ Planned \subseteq Tensors /\ Tensors \subseteq Nat
  BY PlannerAssumption DEF Placed, Planned, PlannerAssumption
<1>0. ASSUME graph' = graph, offset' = offset, arena' = arena PROVE PlanIsValid' /\ Placed' = Placed
  BY <1>0, SameGraph DEF PlanIsValid, Placed, Overlap, End
<1>1. ASSUME NEW t \in Tensors, Pick(t) PROVE PlanInv'
  <2>1. Types'
    BY <1>1 DEF Pick, planVars, runVars, Types
  <2>2. PlanIsValid' /\ Placed' = Placed
    BY <1>0, <1>1 DEF Pick, planVars
  <2>3. Walk'
    <3>1. t \in Planned' \ Placed'
      BY <1>1, <2>2, SameGraph DEF Pick
    <3>2. busy' = Rivals'
      BY <1>1, <2>2, SameGraph DEF Pick, Rivals
    <3> QED BY <1>1, <3>1, <3>2 DEF Pick, Walk
  <2> QED BY <2>1, <2>2, <2>3
<1>2. ASSUME NEW u \in Tensors, Scan(u) PROVE PlanInv'
  <2>1. /\ graph' = graph /\ offset' = offset /\ arena' = arena /\ tensor' = tensor
        /\ phase = "scan" /\ phase' = "scan" /\ u \in busy /\ busy' = busy \ {u}
        /\ cur' = Larger(cur, End(u))
        /\ Fits(u) => best' = cur /\ gap' = offset[u] - cur
        /\ ~Fits(u) => best' = best /\ gap' = gap
        /\ \A v \in busy : offset[u] <= offset[v]
    BY <1>2 DEF Scan, Advance, planVars, runVars, Types, Rivals, Walk
  <2>2. PlanIsValid' /\ Placed' = Placed
    BY <1>0, <2>1
  <2>3. /\ Rivals' = Rivals /\ Size' = Size /\ \A v : End(v)' = End(v)
    BY <2>1, <2>2, SameGraph DEF Rivals, Size, End
  <2>4. /\ \A v \in Placed : offset[v] \in Nat /\ offset[v] % kAlign = 0 /\ End(v) \in Nat /\ End(v) % kAlign = 0
        /\ Size \in Nat /\ u \in Rivals /\ Rivals \subseteq Placed
    <3>1. ASSUME NEW v \in Placed PROVE offset[v] \in Nat /\ End(v) \in Nat /\ End(v) % kAlign = 0
      <4>1. offset[v] \in Nat /\ offset[v] % 64 = 0 /\ Bytes(v) \in Nat /\ Bytes(v) % 64 = 0
        BY TensorNat DEF PlanIsValid, Placed
      <4> QED BY <4>1 DEF End
    <3>2. Size \in Nat
      BY <2>1, TensorNat DEF Walk, Size
    <3> QED BY <2>1, <3>1, <3>2 DEF PlanIsValid, Walk, Rivals
  <2>5. Types'
    BY <2>1, <2>4, SameGraph DEF Types, Fits, Larger, Rivals
  <2>6. cur' % kAlign = 0 /\ cur <= cur' /\ End(u) <= cur'
    BY <2>1, <2>4 DEF Larger, Walk, Types
  <2>7. \A x \in Rivals \ busy' : End(x) <= cur' /\ \A v \in busy' : offset[x] <= offset[v]
    <3> TAKE x \in Rivals \ busy'
    <3>1. CASE x = u
      BY <2>1, <2>6, <3>1
    <3>2. CASE x # u
      <4>1. x \in Rivals \ busy /\ End(x) \in Nat /\ cur \in Nat /\ cur' \in Nat
        BY <2>1, <2>4, <2>5, <3>2 DEF Types
      <4>2. End(x) <= cur /\ \A v \in busy : offset[x] <= offset[v]
        BY <2>1, <4>1 DEF Walk, PlanInv
      <4> QED BY <2>1, <2>6, <4>1, <4>2
    <3> QED BY <3>1, <3>2
  <2>8. ASSUME best' >= 0
        PROVE  /\ best' % kAlign = 0
               /\ \A x \in Rivals : best' + Size <= offset[x] \/ (x \notin busy' /\ End(x) <= best')
    <3>1. CASE Fits(u)
      <4>1. best' = cur /\ offset[u] - cur >= Size /\ cur \in Nat
        BY <2>1, <3>1 DEF Fits, Size, Types
      <4>2. \A x \in busy : offset[u] <= offset[x] /\ x \in Rivals
        BY <2>1 DEF Walk
      <4> QED BY <2>1, <2>4, <4>1, <4>2 DEF Walk
    <3>2. CASE ~Fits(u)
      BY <2>1, <2>8, <3>2 DEF Walk
    <3> QED BY <3>1, <3>2
  <2>9. Walk'
    BY <2>1, <2>2, <2>3, <2>6, <2>7, <2>8, SameGraph DEF Walk
  <2> QED BY <2>2, <2>5, <2>9
<1>3. CASE Place
  <2> DEFINE p == IF best >= 0 THEN best ELSE cur
  <2>1. /\ graph' = graph /\ offset' = [offset EXCEPT ![tensor] = p] /\ phase' = "pick"
        /\ arena' = Larger(arena, p + Size) /\ busy = {} /\ Walk
        /\ tensor' = tensor /\ best' = best /\ gap' = gap /\ cur' = cur
    BY <1>3 DEF Place, scanVars, Types, Walk, Size, Planned
  <2>2. tensor \in Tensors /\ p \in Nat /\ p % kAlign = 0 /\ Size \in Nat
    BY <2>1, TensorNat DEF Walk, Types, Size
  <2>3. \A u \in Rivals : p + Size <= offset[u] \/ End(u) <= p
    BY <2>1, <2>2 DEF Walk, Types
  <2> HIDE DEF p
  <2>4. Types'
    BY <2>1, <2>2 DEF Types, Larger
  <2>5. /\ offset'[tensor] = p /\ \A u \in Tensors : u # tensor => offset'[u] = offset[u]
        /\ Placed' = Placed \cup {tensor} /\ tensor \notin Placed
    BY <2>1, <2>2, SameGraph DEF Types, Placed, Walk
  <2>6. /\ \A t : t = tensor => End(t)' = p + Size
        /\ \A u \in Placed : End(u)' = End(u)
    BY <2>1, <2>5, SameGraph DEF End, Size
  <2>7. \A u \in Placed : offset[u] \in Nat /\ End(u) \in Nat
    BY TensorNat DEF Placed
  <2>8. \A t \in Placed' : offset'[t] % kAlign = 0 /\ End(t)' <= arena'
    <3> TAKE t \in Placed'
    <3>1. CASE t = tensor
      BY <2>1, <2>2, <2>5, <2>6, <3>1 DEF Types, Larger
    <3>2. CASE t \in Placed
      BY <2>1, <2>2, <2>5, <2>6, <2>7, <3>2 DEF Types, Larger, PlanIsValid
    <3> QED BY <2>5, <3>1, <3>2
  <2>9. ASSUME NEW t \in Placed', NEW u \in Placed', t # u, Together(t, u)'
        PROVE  ~Overlap(t, u)'
    <3>0. Together(t, u) /\ (t = tensor => u \in Rivals) /\ (u = tensor => t \in Rivals)
      BY <2>1, <2>5, <2>9, SameGraph DEF Rivals, Together
    <3>1. CASE t = tensor
      BY <2>2, <2>3, <2>5, <2>6, <2>7, <2>9, <3>0, <3>1 DEF Overlap
    <3>2. CASE u = tensor
      BY <2>2, <2>3, <2>5, <2>6, <2>7, <2>9, <3>0, <3>2 DEF Overlap
    <3>3. CASE t # tensor /\ u # tensor
      BY <2>5, <2>6, <2>9, <3>0, <3>3 DEF Overlap, PlanIsValid
    <3> QED BY <3>1, <3>2, <3>3
  <2> QED BY <2>1, <2>4, <2>8, <2>9 DEF PlanIsValid
<1>4. CASE Start \/ Exec \/ Return
  <2>1. Types' /\ phase' # "scan"
    BY <1>4 DEF Start, Exec, Return, planVars, scanVars, Types
  <2>2. PlanIsValid'
    BY <1>0, <1>4 DEF Start, Exec, Return, planVars
  <2> QED BY <2>1, <2>2
<1>5. CASE UNCHANGED vars
  <2>1. Types' /\ PlanIsValid' /\ Placed' = Placed
    BY <1>0, <1>5 DEF vars, planVars, scanVars, Types
  <2>2. ASSUME phase = "scan" PROVE Walk'
    BY <1>5, <2>1, <2>2, SameGraph DEF vars, planVars, scanVars, Walk, Rivals, Size, End
  <2> QED BY <1>5, <2>1, <2>2 DEF vars
<1> QED BY <1>1, <1>2, <1>3, <1>4, <1>5 DEF Next, Finished

\* PlanIsValid at every point of plan_memory, for every graph: whatever the order of the tensors and the
\* gaps chosen, no two tensors that are live together share a byte of the arena.
THEOREM PlanAlwaysValid == Spec => []PlanIsValid
<1>1. PlanInv => PlanIsValid
  BY DEF PlanInv
<1> QED BY <1>1, PlanInvInit, PlanInvNext, PTL DEF Spec

\* The plan is valid in every state of every behaviour.
LEMMA PlanInvariant == Spec => []PlanInv
  BY PlanInvInit, PlanInvNext, PTL DEF Spec

-----------------------------------------------------------------------------
(* Types, and where blocks stand                                           *)

Counters ==
  /\ busy \subseteq Placed
  /\ gap \in Nat
  /\ op \in -1..graph.nops
  /\ intact \subseteq Tensors

\* The counters keep to their ranges.
LEMMA CountersInvariant == Spec => []Counters
<1>1. Init => Counters
  BY PlannerAssumption DEF PlannerAssumption, IsGraph, Init, Counters
<1>2. PlanInv /\ Counters /\ [Next]_vars => Counters'
  <2> SUFFICES ASSUME PlanInv, Counters, [Next]_vars PROVE Counters'
    OBVIOUS
  <2> USE DEF PlanInv
  <2>0. graph.nops \in Nat /\ \A i \in 0..graph.nops-1 : graph.out[i] \subseteq Tensors
    BY DEF Types, IsGraph
  <2>1. ASSUME graph' = graph, offset' = offset PROVE Placed' = Placed
    BY <2>1, SameGraph DEF Placed
  <2>2. ASSUME NEW t \in Tensors, Pick(t) PROVE Counters'
    BY <2>1, <2>2 DEF Pick, planVars, runVars, Counters
  <2>3. ASSUME NEW u \in Tensors, Scan(u) PROVE Counters'
    <3>1. Fits(u) => offset[u] - cur \in Nat
      <4>1. tensor \in Tensors
        BY <2>3 DEF Scan, Walk, Planned
      <4> QED BY <4>1, TensorNat DEF Fits, Types
    <3> QED BY <2>1, <2>3, <3>1 DEF Scan, planVars, runVars, Counters
  <2>4. CASE Place
    BY <2>4 DEF Place, scanVars, runVars, Counters
  <2>5. CASE Start \/ Exec \/ Return
    BY <2>0, <2>1, <2>5 DEF Start, Exec, Return, planVars, scanVars, Counters, Written
  <2>6. CASE UNCHANGED vars
    BY <2>1, <2>6 DEF vars, planVars, scanVars, runVars, Counters
  <2> QED BY <2>2, <2>3, <2>4, <2>5, <2>6 DEF Next, Finished
<1> QED BY <1>1, <1>2, PlanInvariant, PTL DEF Spec

\* TypeOK for every graph: gaps and cursors are never negative.
THEOREM PlannerTypesHold == Spec => []TypeOK
<1>1. PlanInv /\ Counters => TypeOK
  BY DEF PlanInv, Types, Counters, TypeOK
<1> QED BY <1>1, CountersInvariant, PlanInvariant, PTL

\* The bytes a block may begin at: 0, or the end of a tensor that t must not share with.
Ground(t, p) == p = 0 \/ \E u \in Placed : Together(t, u) /\ End(u) = p
Grounded ==
  /\ NoFloatingBlock
  /\ phase = "scan" => Ground(tensor, cur) /\ (best >= 0 => Ground(tensor, best))

\* NoFloatingBlock for every graph: the walk's cursor never stops but where a block ends.
THEOREM NoBlockFloats == Spec => []NoFloatingBlock
<1>1. Init => Grounded
  BY DEF Init, Grounded, NoFloatingBlock, Placed, Planned
<1>2. PlanInv /\ Grounded /\ [Next]_vars => Grounded'
  <2> SUFFICES ASSUME PlanInv, Grounded, [Next]_vars PROVE Grounded'
    OBVIOUS
  <2> USE DEF PlanInv
  <2>1. ASSUME graph' = graph, offset' = offset
        PROVE  /\ NoFloatingBlock' /\ Placed' = Placed
               /\ \A t, p : Ground(t, p)' <=> Ground(t, p)
    BY <2>1, SameGraph DEF Placed, Grounded, NoFloatingBlock, Ground, End
  <2>2. ASSUME NEW t \in Tensors, Pick(t) PROVE Grounded'
    BY <2>1, <2>2 DEF Pick, planVars, Grounded, Ground
  <2>3. ASSUME NEW u \in Tensors, Scan(u) PROVE Grounded'
    <3>1. /\ graph' = graph /\ offset' = offset /\ tensor' = tensor /\ phase = "scan"
          /\ u \in Placed /\ Together(tensor, u)
          /\ cur' \in {cur, End(u)} /\ best' \in {best, cur}
      BY <2>3 DEF Scan, Walk, Rivals, Advance, Larger, planVars
    <3>2. Ground(tensor, cur) /\ (best >= 0 => Ground(tensor, best)) /\ Ground(tensor, End(u))
      BY <3>1 DEF Grounded, Ground
    <3> QED BY <2>1, <3>1, <3>2 DEF Grounded
  <2>4. CASE Place
    <3> DEFINE p == IF best >= 0 THEN best ELSE cur
    <3>1. /\ graph' = graph /\ phase' = "pick" /\ offset' = [offset EXCEPT ![tensor] = p]
          /\ tensor \in Planned \ Placed /\ tensor \in Tensors /\ Ground(tensor, p) /\ p \in Nat
      BY <2>4 DEF Place, Walk, Planned, Grounded, Types
    <3> HIDE DEF p
    <3>2. /\ offset'[tensor] = p /\ \A u \in Tensors : u # tensor => offset'[u] = offset[u]
          /\ Placed' = Placed \cup {tensor}
      BY <3>1, SameGraph DEF Types, Placed, Planned
    <3>3. \A u \in Placed : u \in Tensors /\ u # tensor /\ End(u)' = End(u) /\ u \in Placed'
      BY <3>1, <3>2, SameGraph DEF End, Placed, Planned
    <3>4. \A t, q : Ground(t, q) => Ground(t, q)'
      BY <3>1, <3>3, SameGraph DEF Ground
    <3>5. ASSUME NEW t \in Placed' PROVE Ground(t, offset[t])'
      <4>1. CASE t = tensor
        BY <3>1, <3>2, <3>4, <4>1
      <4>2. CASE t \in Placed
        <5>1. Ground(t, offset[t])
          BY <4>2 DEF Grounded, NoFloatingBlock, Ground
        <5> QED BY <3>2, <3>3, <3>4, <4>2, <5>1
      <4> QED BY <3>2, <4>1, <4>2
    <3> QED BY <3>1, <3>5 DEF Grounded, NoFloatingBlock, Ground
  <2>5. CASE Start \/ Exec \/ Return
    BY <2>1, <2>5 DEF Start, Exec, Return, planVars, scanVars, Grounded
  <2>6. CASE UNCHANGED vars
    BY <2>1, <2>6 DEF vars, planVars, scanVars, Grounded
  <2> QED BY <2>2, <2>3, <2>4, <2>5, <2>6 DEF Next, Finished
<1>3. Grounded => NoFloatingBlock
  BY DEF Grounded
<1> QED BY <1>1, <1>2, <1>3, PlanInvariant, PTL DEF Spec

-----------------------------------------------------------------------------
(* A pass over the plan                                                    *)

\* The tensors that ops 0 .. op have to have written, and that op, a later one or the caller reads.
Live(t) ==
  /\ graph.kind[t] = "input" \/ \E j \in WrittenBy(t) : j <= op
  /\ graph.kind[t] = "output" \/ \E k \in ReadBy(t) : k >= op

Kept ==
  /\ phase # "run" => op = -1
  /\ phase = "run" =>
       /\ Planned = Placed
       /\ \A t \in Tensors : graph.kind[t] # "weight" /\ Live(t) => t \in intact

\* A set of natural numbers has a least one.
LEMMA LeastExists ==
  ASSUME NEW S \in SUBSET Nat, S # {}
  PROVE  \E i \in S : \A j \in S : i <= j
<1> DEFINE R == OpToRel(<, Nat)
<1>1. \A i, j \in Nat : i < j => <<i, j>> \in R
  BY DEF OpToRel
<1>2. IsWellFoundedOn(R, Nat)
  BY NatLessThanWellFounded
<1> HIDE DEF R
<1>3. PICK i \in S : \A j \in S : <<j, i>> \notin R
  BY <1>2, WFMin
<1>4. \A j \in S : ~(j < i)
  BY <1>1, <1>3
<1> QED BY <1>4

\* The least and the greatest of a set of op indices.
LEMMA Extrema ==
  ASSUME NEW n \in Nat, NEW S \in SUBSET (0..n-1), S # {}
  PROVE  /\ Least(S) \in S /\ \A i \in S : Least(S) <= i
         /\ Greatest(S) \in S /\ \A i \in S : i <= Greatest(S)
<1>1. \E i \in S : \A j \in S : i <= j
  BY LeastExists
<1>2. \E i \in S : \A j \in S : i >= j
  <2> DEFINE R == {n - i : i \in S}
  <2>1. PICK m \in R : \A x \in R : m <= x
    <3>1. R # {}
      OBVIOUS
    <3>2. ASSUME NEW i \in S PROVE n - i \in Nat
      <4> i \in 0..n-1
        OBVIOUS
      <4> QED OBVIOUS
    <3>3. R \in SUBSET Nat
      BY <3>2
    <3> HIDE DEF R
    <3> QED BY <3>1, <3>3, LeastExists
  <2>2. PICK i \in S : m = n - i
    OBVIOUS
  <2>3. \A j \in S : n - i <= n - j
    BY <2>1, <2>2
  <2> QED BY <2>3
<1> QED BY <1>1, <1>2 DEF Least, Greatest

\* A tensor's live range reaches from its first writer to its last reader.
LEMMA LiveRange ==
  ASSUME Types, NEW t \in Tensors, graph.kind[t] # "weight"
  PROVE  /\ First(t) \in Int /\ Last(t) \in Int
         /\ graph.kind[t] = "input" => First(t) = 0
         /\ \A j \in WrittenBy(t) : First(t) >= 0 /\ First(t) <= j
         /\ graph.kind[t] = "output" => Last(t) = graph.nops
         /\ \A k \in ReadBy(t) : graph.kind[t] # "output" => k <= Last(t)
<1>1. graph.nops \in Nat /\ WrittenBy(t) \in SUBSET (0..graph.nops-1) /\ ReadBy(t) \in SUBSET (0..graph.nops-1)
  BY DEF Types, IsGraph, WrittenBy, ReadBy
<1>2. First(t) \in Int /\ \A j \in WrittenBy(t) : First(t) >= 0 /\ First(t) <= j
  <2>1. CASE WrittenBy(t) = {}
    BY <2>1 DEF First
  <2>2. CASE WrittenBy(t) # {}
    <3>1. Least(WrittenBy(t)) \in WrittenBy(t) /\ \A i \in WrittenBy(t) : Least(WrittenBy(t)) <= i
      BY <1>1, <2>2, Extrema
    <3> QED BY <1>1, <2>2, <3>1 DEF First
  <2> QED BY <2>1, <2>2
<1>3. Last(t) \in Int /\ \A k \in ReadBy(t) : graph.kind[t] # "output" => k <= Last(t)
  <2>1. CASE ReadBy(t) = {}
    BY <1>1, <2>1 DEF Last
  <2>2. CASE ReadBy(t) # {}
    <3>1. Greatest(ReadBy(t)) \in ReadBy(t) /\ \A i \in ReadBy(t) : i <= Greatest(ReadBy(t))
      BY <1>1, <2>2, Extrema
    <3> QED BY <1>1, <2>2, <3>1 DEF Last
  <2> QED BY <2>1, <2>2
<1> QED BY <1>2, <1>3 DEF First, Last

\* A tensor that is live at an op, or is written there, has a block and is live together with any other
\* such tensor.
LEMMA LiveTogether ==
  ASSUME Types, InOrder(graph), NEW i \in 0..graph.nops-1,
         NEW t \in graph.out[i], NEW u \in Tensors, graph.kind[u] # "weight",
         graph.kind[u] = "input" \/ \E j \in WrittenBy(u) : j <= i,
         graph.kind[u] = "output" \/ \E k \in ReadBy(u) : k >= i
  PROVE  t \in Planned /\ u \in Planned /\ Together(t, u)
<1>0. /\ graph.nops \in Nat /\ t \in Tensors
      /\ \A x : WrittenBy(x) \subseteq 0..graph.nops-1 /\ ReadBy(x) \subseteq 0..graph.nops-1
  BY DEF Types, IsGraph, WrittenBy, ReadBy
<1>1. First(u) \in Int /\ Last(u) \in Int /\ 0 <= First(u) /\ First(u) <= i /\ i <= Last(u)
  <2>1. 0 <= First(u) /\ First(u) <= i
    BY <1>0, LiveRange
  <2>2. i <= Last(u)
    BY <1>0, LiveRange
  <2> QED BY <2>1, <2>2, LiveRange
<1>2. graph.kind[t] # "weight" /\ i \in WrittenBy(t)
  BY <1>0 DEF InOrder, WrittenBy
<1>3. graph.kind[t] = "output" \/ \E k \in ReadBy(t) : k >= i
  BY <1>0 DEF InOrder, ReadBy
<1>4. First(t) \in Int /\ Last(t) \in Int /\ 0 <= First(t) /\ First(t) <= i /\ i <= Last(t)
  <2>1. 0 <= First(t) /\ First(t) <= i
    BY <1>0, <1>2, LiveRange
  <2>2. i <= Last(t)
    BY <1>0, <1>2, <1>3, LiveRange
  <2> QED BY <1>0, <1>2, <2>1, <2>2, LiveRange
<1> QED BY <1>0, <1>1, <1>2, <1>4 DEF Planned, Together

\* A step of plan_memory, or of the pass over the plan, keeps what is live intact.
LEMMA KeptNext == PlanInv /\ Counters /\ Kept /\ InOrder(graph) /\ [Next]_vars => Kept' /\ InOrder(graph)'
<1> SUFFICES ASSUME PlanInv, Counters, Kept, InOrder(graph), [Next]_vars PROVE Kept' /\ InOrder(graph)'
  OBVIOUS
<1>0. graph' = graph
  BY DEF Next, Pick, Scan, Place, Start, Exec, Return, Finished, vars
<1>1. /\ Types /\ graph.nops \in Nat /\ op \in Int
      /\ \A t : WrittenBy(t) \subseteq 0..graph.nops-1 /\ ReadBy(t) \subseteq 0..graph.nops-1
      /\ \A t : WrittenBy(t)' = WrittenBy(t) /\ ReadBy(t)' = ReadBy(t)
  BY <1>0 DEF PlanInv, Types, IsGraph, Counters, WrittenBy, ReadBy
<1>2. offset' = offset => Planned' = Planned /\ Placed' = Placed
  BY <1>0, SameGraph DEF Placed
<1>3. ASSUME phase' # "run" PROVE Kept'
  BY <1>3 DEF Kept, Next, Pick, Scan, Place, Start, Exec, Return, Finished, vars, planVars, runVars
<1>4. CASE Start
  <2>1. \A t : ~ \E j \in WrittenBy(t) : j <= -1
    BY <1>1
  <2>2. op' = -1 /\ \A t \in Tensors : Live(t)' => t \in intact'
    BY <1>0, <1>1, <1>4, <2>1 DEF Start, Kept, Live
  <2> QED BY <1>2, <1>4, <2>2 DEF Start, Kept, planVars
<1>5. CASE Exec
  <2> DEFINE i == op + 1
  <2>1. /\ phase = "run" /\ phase' = "run" /\ offset' = offset /\ i \in 0..graph.nops-1 /\ op' = i
        /\ intact' = Written(graph.out[i]) /\ Planned = Placed
    BY <1>1, <1>5 DEF Exec, planVars, Counters, Kept
  <2> HIDE DEF i
  <2>2. ASSUME NEW u \in Tensors, graph.kind[u] # "weight", Live(u)' PROVE u \in intact'
    <3>1. /\ graph.kind[u] = "input" \/ \E j \in WrittenBy(u) : j <= i
          /\ graph.kind[u] = "output" \/ \E k \in ReadBy(u) : k >= i
      BY <1>0, <1>1, <2>1, <2>2 DEF Live
    <3>2. CASE u \in graph.out[i]
      BY <2>1, <3>2 DEF Written
    <3>3. CASE u \notin graph.out[i]
      <4>1. i \notin WrittenBy(u)
        BY <3>3 DEF WrittenBy
      <4>2. i = op + 1
        BY DEF i
      <4>3. Live(u)
        <5>1. graph.kind[u] = "input" \/ \E j \in WrittenBy(u) : j <= op
          BY <1>1, <3>1, <4>1, <4>2
        <5>2. graph.kind[u] = "output" \/ \E k \in ReadBy(u) : k >= op
          BY <1>1, <3>1, <4>2
        <5> QED BY <5>1, <5>2 DEF Live
      <4>4. u \in intact
        BY <2>1, <2>2, <4>3 DEF Kept
      <4>5. ASSUME NEW t \in graph.out[i] PROVE ~Overlap(t, u)
        <5>1. t \in Planned /\ u \in Planned /\ Together(t, u)
          BY <1>1, <2>1, <2>2, <3>1, LiveTogether
        <5> QED BY <2>1, <3>3, <5>1 DEF PlanInv, PlanIsValid
      <4> QED BY <2>1, <2>2, <4>4, <4>5 DEF Written
    <3> QED BY <3>2, <3>3
  <2> QED BY <1>0, <1>2, <2>1, <2>2 DEF Kept
<1>6. CASE Return
  <2>1. /\ phase = "run" /\ phase' = "run" /\ offset' = offset /\ op' = op + 1 /\ op' = graph.nops
        /\ intact' = intact
    BY <1>6 DEF Return, planVars
  <2>2. ASSUME NEW u \in Tensors, Live(u)' PROVE Live(u)
    <3>1. /\ graph.kind[u] = "input" \/ \E j \in WrittenBy(u) : j <= op + 1
          /\ graph.kind[u] = "output" \/ \E k \in ReadBy(u) : k >= op + 1
      BY <1>0, <1>1, <2>1, <2>2 DEF Live
    <3> QED BY <1>1, <2>1, <3>1 DEF Live
  <2> QED BY <1>0, <1>2, <2>1, <2>2 DEF Kept
<1>7. CASE UNCHANGED vars
  BY <1>0, <1>1, <1>2, <1>7 DEF vars, planVars, runVars, Kept, Live
<1>8. phase' = "run" => Start \/ Exec \/ Return \/ UNCHANGED vars
  BY DEF Next, Pick, Scan, Place, Finished
<1> QED BY <1>0, <1>3, <1>4, <1>5, <1>6, <1>7, <1>8

\* OperandsIntact for every graph whose ops are in order: each op finds what it reads as it was written,
\* and the caller the logits.
THEOREM OperandsSurvive ==
  ASSUME \A G \in Graphs : InOrder(G)
  PROVE  Spec => []OperandsIntact
<1>1. Init => Kept /\ InOrder(graph)
  BY DEF Init, Kept
<1>2. PlanInv /\ Counters /\ Kept /\ InOrder(graph) => OperandsIntact
  <2> SUFFICES ASSUME PlanInv, Counters, Kept, InOrder(graph), phase = "run", op >= 0,
                      NEW t \in Tensors, graph.kind[t] # "weight"
               PROVE  /\ op < graph.nops /\ t \in graph.in[op] => t \in Placed /\ t \in intact
                      /\ op < graph.nops /\ t \in graph.out[op] => t \in Placed
                      /\ op = graph.nops /\ graph.kind[t] = "output" => t \in Placed /\ t \in intact
    BY DEF OperandsIntact
  <2>1. /\ Types /\ Planned = Placed /\ graph.nops \in Nat /\ op \in 0..graph.nops
        /\ \A x : WrittenBy(x) \subseteq 0..graph.nops-1 /\ ReadBy(x) \subseteq 0..graph.nops-1
    BY DEF PlanInv, Types, IsGraph, Kept, Counters, WrittenBy, ReadBy
  <2>2. /\ First(t) \in Int /\ Last(t) \in Int
        /\ graph.kind[t] = "input" \/ WrittenBy(t) # {} => First(t) >= 0
        /\ graph.kind[t] = "output" \/ ReadBy(t) # {} => Last(t) >= 0
    BY <2>1, LiveRange
  <2>3. ASSUME op < graph.nops, t \in graph.in[op] PROVE t \in Placed /\ t \in intact
    <3>1. op \in ReadBy(t) /\ (graph.kind[t] = "input" \/ \E j \in WrittenBy(t) : j <= op)
      BY <2>1, <2>3 DEF ReadBy, WrittenBy, InOrder
    <3>2. Live(t)
      BY <2>1, <3>1 DEF Live
    <3>3. t \in Planned
      BY <2>2, <3>1 DEF Planned
    <3> QED BY <2>1, <3>2, <3>3 DEF Kept
  <2>4. ASSUME op < graph.nops, t \in graph.out[op] PROVE t \in Placed
    <3>1. op \in WrittenBy(t) /\ (graph.kind[t] = "output" \/ ReadBy(t) # {})
      BY <2>1, <2>4 DEF ReadBy, WrittenBy, InOrder
    <3> QED BY <2>1, <2>2, <3>1 DEF Planned
  <2>5. ASSUME op = graph.nops, graph.kind[t] = "output" PROVE t \in Placed /\ t \in intact
    <3>1. PICK j \in WrittenBy(t) : j <= op
      BY <2>1, <2>5 DEF InOrder, WrittenBy
    <3>2. Live(t)
      BY <2>5, <3>1 DEF Live
    <3>3. t \in Planned
      BY <2>2, <2>5, <3>1 DEF Planned
    <3> QED BY <2>1, <3>2, <3>3 DEF Kept
  <2> QED BY <2>3, <2>4, <2>5
<1> QED BY <1>1, <1>2, KeptNext, CountersInvariant, PlanInvariant, PTL DEF Spec
=============================================================================
