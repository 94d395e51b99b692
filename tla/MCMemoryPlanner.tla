-------------------------- MODULE MCMemoryPlanner ---------------------------
(* The graphs of up to NTensors tensors over NOps ops, each up to renaming: a tensor is the input or   *)
(* the output of an op, is read last by a later op or by the caller, is a weight, or is dead.  To these *)
(* come graphs of one tensor more.                                                                     *)
EXTENDS MemoryPlanner, Sequences

CONSTANTS NTensors, NOps, Sizes

Ids == 0..NTensors

\* <<op that writes it, last op that reads it, bytes>>; op -1 writes the input, op NOps reads the output.
Ranges == {r \in (-1..NOps-1) \X (0..NOps) : r[1] < r[2] /\ r # <<-1, NOps>>}
Weight == <<-2, 0, 4>>
Dead == <<-3, -3, 4>>
Shapes == {<<r[1], r[2], s>> : r \in Ranges, s \in Sizes} \cup {Weight, Dead}
Key(s) == 1000 * (10 * s[1] + s[2]) + s[3]

KindOf(s) == CASE s = Weight -> "weight"
               [] s[1] = -1 -> "input"
               [] s[2] = NOps -> "output"
               [] OTHER -> "activation"
GraphOf(f) ==
  [nops |-> NOps,
   in   |-> [i \in 0..NOps-1 |-> {t \in Ids : f[t][2] = i}],
   out  |-> [i \in 0..NOps-1 |-> {t \in Ids : f[t][1] = i}],
   kind |-> [t \in Ids |-> KindOf(f[t])],
   size |-> [t \in Ids |-> f[t][3]]]

\* Every multiset of k shapes, as a sequence ordered by Key.
Multisets[k \in 0..NTensors] ==
  IF k = 0 THEN {<<>>}
  ELSE UNION {{Append(m, s) : s \in {x \in Shapes : k = 1 \/ Key(m[k-1]) <= Key(x)}} : m \in Multisets[k-1]}
\* The last tensor is placed where the first and the third have been: in one of two gaps, of one size or two.
TwoGaps == {<<<<0, 1, 129>>, <<0, 2, 129>>, <<0, 1, s>>, <<0, 2, 60>>, <<2, 3, 60>>>> : s \in Sizes}
AllGraphs ==
  {GraphOf([t \in Ids |-> m[t+1]]) : m \in {Append(four, Dead) : four \in Multisets[NTensors]} \cup TwoGaps}

\* What MemoryPlanner_proofs assumes for OperandsIntact.
ASSUME OrderAssumption == \A G \in Graphs : InOrder(G)
=============================================================================
