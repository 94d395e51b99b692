--------------------------- MODULE MemoryPlanner ----------------------------
(***************************************************************************)
(* plan_memory (src/passes.cpp): the arena that holds every activation of  *)
(* a graph, packed greedily by size into the best-fitting gap among the    *)
(* tensors whose live ranges overlap; then a pass of Session::forward over *)
(* the ops, which shows what the plan is for: an op finds its operands     *)
(* where they were written, and no output of its own overwrites them while *)
(* it runs.  Sorting and then walking a list is modelled as taking the     *)
(* least of what is left, so the order of the walk is the order of the     *)
(* code, ties included (stable_sort of ids; equal pairs in busy).          *)
(***************************************************************************)
EXTENDS Integers, FiniteSets

CONSTANTS
  Tensors,  \* tensor ids, the indices of g.tensors
  Graphs    \* graphs to plan: nops, in, out, kind, and size = activation_bytes at max_batch

kAlign == 64
Kinds == {"weight", "activation", "input", "output"}

IsGraph(G) ==
  /\ G.nops \in Nat
  /\ G.in \in [0..G.nops-1 -> SUBSET Tensors]
  /\ G.out \in [0..G.nops-1 -> SUBSET Tensors]
  /\ G.kind \in [Tensors -> Kinds]
  /\ G.size \in [Tensors -> Nat]

ASSUME PlannerAssumption ==
  /\ Tensors \subseteq Nat /\ IsFiniteSet(Tensors)
  /\ \A G \in Graphs : IsGraph(G)

VARIABLES
  graph,     \* the graph being planned
  phase,     \* "pick" the next tensor, "scan" the busy blocks, then "run" the ops
  offset,    \* per tensor, -1 when not in the arena
  arena,     \* arena_bytes
  tensor,    \* t of the outer loop
  busy,      \* the placed tensors that are live together with it, still to be scanned
  best, gap, cur,
  op,        \* the op that is running; its outputs have been written
  intact     \* the tensors whose block holds what this pass wrote there

planVars == <<offset, arena>>
scanVars == <<tensor, busy, best, gap, cur>>
runVars == <<op, intact>>
vars == <<graph, phase, planVars, scanVars, runVars>>

Least(S) == CHOOSE i \in S : \A j \in S : i <= j
Greatest(S) == CHOOSE i \in S : \A j \in S : i >= j
Larger(a, b) == IF a > b THEN a ELSE b

\* Live range, in op indices, inclusive; -1 when there is none.
WrittenBy(t) == {i \in 0..graph.nops-1 : t \in graph.out[i]}
ReadBy(t) == {i \in 0..graph.nops-1 : t \in graph.in[i]}
First(t) == IF graph.kind[t] = "input" THEN 0
            ELSE IF WrittenBy(t) = {} THEN -1 ELSE Least(WrittenBy(t))
Last(t) == IF graph.kind[t] = "output" THEN graph.nops
           ELSE IF ReadBy(t) = {} THEN -1 ELSE Greatest(ReadBy(t))
\* Mutant of Together: a tensor's last reader may write over it.
TogetherStrict(t, u) == First(t) < Last(u) /\ First(u) < Last(t)
Together(t, u) == First(t) <= Last(u) /\ First(u) <= Last(t)

\* The tensors that get a block: not weights, and not dead after fusion.
Planned == {t \in Tensors : graph.kind[t] # "weight" /\ First(t) >= 0 /\ Last(t) >= 0}
Bytes(t) == ((graph.size[t] + kAlign - 1) \div kAlign) * kAlign
End(t) == offset[t] + Bytes(t)
Placed == {t \in Planned : offset[t] >= 0}

Init ==
  /\ graph \in Graphs
  /\ phase = "pick" /\ offset = [t \in Tensors |-> -1] /\ arena = 0
  /\ tensor = -1 /\ busy = {} /\ best = -1 /\ gap = 0 /\ cur = 0
  /\ op = -1 /\ intact = {}
-----------------------------------------------------------------------------
(* plan_memory                                                             *)

\* The next of `order`: biggest first, in order of id among equals.  Collects its busy blocks.
Pick(t) ==
  /\ phase = "pick" /\ t \in Planned \ Placed
  /\ \A u \in Planned \ Placed : Bytes(t) > Bytes(u) \/ (Bytes(t) = Bytes(u) /\ t <= u)
  /\ phase' = "scan"
  /\ tensor' = t /\ busy' = {u \in Placed : Together(t, u)}
  /\ best' = -1 /\ gap' = 0 /\ cur' = 0
  /\ UNCHANGED <<graph, planVars, runVars>>

\* One turn of the walk over busy, in order of (begin, end): is the gap before u the best fit so far?
\* (best_gap starts at INT64_MAX: any gap beats it.)  Mutant of Fits: the smallest gap, large enough or
\* not.
FitsAny(u) == best < 0 \/ offset[u] - cur < gap
Fits(u) == offset[u] - cur >= Bytes(tensor) /\ (best < 0 \/ offset[u] - cur < gap)
\* Mutants of Advance: the end of the last block, not the greatest end; the sum of the sizes.
AdvanceLast(u) == End(u)
AdvanceSum(u) == cur + Bytes(u)
Advance(u) == Larger(cur, End(u))

Scan(u) ==
  /\ phase = "scan" /\ u \in busy
  /\ \A v \in busy : offset[u] < offset[v] \/ (offset[u] = offset[v] /\ End(u) <= End(v))
  /\ IF Fits(u) THEN best' = cur /\ gap' = offset[u] - cur ELSE UNCHANGED <<best, gap>>
  /\ cur' = Advance(u)
  /\ busy' = busy \ {u}
  /\ UNCHANGED <<graph, phase, planVars, tensor, runVars>>

Place ==
  /\ phase = "scan" /\ busy = {}
  /\ offset' = [offset EXCEPT ![tensor] = IF best >= 0 THEN best ELSE cur]
  /\ arena' = Larger(arena, offset'[tensor] + Bytes(tensor))
  /\ phase' = "pick"
  /\ UNCHANGED <<graph, scanVars, runVars>>
-----------------------------------------------------------------------------
(* Session::forward over the plan                                          *)

Overlap(t, u) == offset[t] < End(u) /\ offset[u] < End(t)

\* Writing the blocks of S destroys what else lies there.
Written(S) == (intact \ {u \in Tensors : \E t \in S : Overlap(t, u)}) \cup S

\* The tokens are copied into the input's block.
Start ==
  /\ phase = "pick" /\ Planned = Placed
  /\ phase' = "run"
  /\ intact' = {t \in Tensors : graph.kind[t] = "input"}
  /\ UNCHANGED <<graph, planVars, scanVars, op>>

Exec ==
  /\ phase = "run" /\ op + 1 < graph.nops
  /\ op' = op + 1
  /\ intact' = Written(graph.out[op + 1])
  /\ UNCHANGED <<graph, phase, planVars, scanVars>>

\* The pass is over; the caller reads the logits.
Return ==
  /\ phase = "run" /\ op + 1 = graph.nops
  /\ op' = op + 1
  /\ UNCHANGED <<graph, phase, planVars, scanVars, intact>>

Finished == phase = "run" /\ op = graph.nops /\ UNCHANGED vars

Next ==
  \/ \E t \in Tensors : Pick(t) \/ Scan(t)
  \/ Place \/ Start \/ Exec \/ Return \/ Finished

Spec == Init /\ [][Next]_vars
-----------------------------------------------------------------------------
(* Properties                                                              *)

\* Type invariant.
TypeOK ==
  /\ IsGraph(graph)
  /\ phase \in {"pick", "scan", "run"}
  /\ offset \in [Tensors -> Nat \cup {-1}] /\ arena \in Nat
  /\ tensor \in Tensors \cup {-1} /\ busy \subseteq Placed
  /\ best \in Nat \cup {-1} /\ gap \in Nat /\ cur \in Nat
  /\ op \in -1..graph.nops /\ intact \subseteq Tensors

\* plan_is_valid: "no two tensors with overlapping live ranges overlap in the arena", whatever has been
\* placed so far; every block is aligned and inside the arena.
PlanIsValid ==
  /\ \A t \in Placed : offset[t] % kAlign = 0 /\ End(t) <= arena
  /\ \A t, u \in Placed : t # u /\ Together(t, u) => ~Overlap(t, u)

\* A graph whose op list is in order, as the exporter writes it and the fusion passes leave it
\* (Fusion!ProducedBeforeRead): what an op reads has been written, and what it writes is read.
InOrder(G) ==
  /\ \A i \in 0..G.nops-1, t \in Tensors : t \in G.in[i] /\ G.kind[t] # "weight" =>
       G.kind[t] = "input" \/ \E j \in 0..i-1 : t \in G.out[j]
  /\ \A i \in 0..G.nops-1, t \in Tensors : t \in G.out[i] =>
       /\ G.kind[t] # "weight"
       /\ G.kind[t] = "output" \/ \E j \in i..G.nops-1 : t \in G.in[j]
  /\ \A t \in Tensors : G.kind[t] = "output" => \E i \in 0..G.nops-1 : t \in G.out[i]

\* While an op runs, its operands still hold what their producers wrote: neither an earlier op nor the
\* op's own outputs have overwritten them; and after the pass the logits are there for the caller.
OperandsIntact ==
  phase = "run" /\ op >= 0 =>
    \A t \in Tensors : graph.kind[t] # "weight" =>
      /\ op < graph.nops /\ t \in graph.in[op] => t \in Placed /\ t \in intact
      /\ op < graph.nops /\ t \in graph.out[op] => t \in Placed
      /\ op = graph.nops /\ graph.kind[t] = "output" => t \in Placed /\ t \in intact

\* No wasted gap: a block starts at 0 or where a tensor it must not share with ends.  So a chain of
\* distinct tensors reaches from the arena's end down to 0, and the arena is never larger than naive_bytes.
NoFloatingBlock ==
  \A t \in Placed : offset[t] = 0 \/ \E u \in Placed : Together(t, u) /\ End(u) = offset[t]
=============================================================================
