------------------------------- MODULE Fusion -------------------------------
(***************************************************************************)
(* The fusion passes (src/passes.cpp, optimize): each walks the op list    *)
(* once, rewrites ops in place by what producers() and consumers() said at *)
(* its start, marks the ops it has absorbed as dead, and drops those at    *)
(* the end.  The passes are run a second time, which is to change nothing. *)
(* What an op computes is a term over the input and the weights; float     *)
(* addition and multiplication commute, so their operands are a set.       *)
(***************************************************************************)
EXTENDS Integers, Sequences, FiniteSets, SequencesExt

CONSTANTS
  Models   \* op lists: [type, in, out, rope]; tensor 0 is the input, t < 0 a weight, t > 0 an activation

\* What the op types take and give; the second operand of a MATMUL is its weight.
Fits(o) ==
  /\ Len(o.in) = CASE o.type \in {"SILU", "ROPE", "LAST_ROWS"} -> 1
                   [] o.type \in {"MUL", "ADD", "MATMUL", "EMBED", "RMSNORM"} -> 2
                   [] o.type \in {"FFN_SWIGLU", "MATMUL_ADD", "ATTENTION"} -> 3
                   [] o.type = "MATMUL_N" -> Len(o.out) + 1
  /\ o.type # "MATMUL_N" => Len(o.out) = 1
  /\ o.type = "MATMUL" => o.in[2] < 0
OpTypes ==
  {"EMBED", "RMSNORM", "MATMUL", "ROPE", "ATTENTION", "ADD", "SILU", "MUL", "LAST_ROWS",
   "MATMUL_N", "FFN_SWIGLU", "MATMUL_ADD"}
OpRecord == [type : OpTypes, in : Seq(Int), out : Seq(Nat \ {0}), rope : BOOLEAN]
\* A list that can run: each tensor is written once, and before it is read.
WrittenOnce(list) ==
  \A k, l \in DOMAIN list : \A p \in DOMAIN list[k].out, q \in DOMAIN list[l].out :
    list[k].out[p] = list[l].out[q] => k = l /\ p = q
InOrder(list) ==
  \A k \in DOMAIN list : \A t \in Range(list[k].in) : t > 0 => \E l \in 1..k-1 : t \in Range(list[l].out)
\* The exporter's lists (tools/elm.py:121-160).
IsGraph(m) ==
  /\ m \in Seq(OpRecord) /\ \A k \in DOMAIN m : Fits(m[k])
  /\ WrittenOnce(m) /\ InOrder(m)
  /\ m # <<>> /\ m[Len(m)].type # "MATMUL_N"
ASSUME ModelsAreGraphs == \A m \in Models : IsGraph(m)

VARIABLES
  model,   \* the op list before any pass
  ops,     \* g.ops
  pass,    \* the pass that is running, an index of Passes
  start,   \* g.ops at the start of the pass, which producers and consumers have been taken from
  i,       \* the loop's index, from 1
  dead     \* the indices of the ops that the pass has absorbed

vars == <<model, ops, pass, start, i, dead>>

Passes == <<"swiglu", "shared", "residual", "rope">>
Rounds == 2
PassName == Passes[((pass - 1) % Len(Passes)) + 1]

Init ==
  /\ model \in Models
  /\ ops = model /\ start = model
  /\ pass = 1 /\ i = 1 /\ dead = {}

\* producers: the op that writes t, 0 if none; consumers: the places where t is read.
Producer(t) ==
  LET P == {k \in DOMAIN start : \E j \in DOMAIN start[k].out : start[k].out[j] = t}
  IN  IF P = {} THEN 0 ELSE CHOOSE k \in P : \A l \in P : l <= k
Readers(t) == UNION {{k} \X {n \in DOMAIN start[k].in : start[k].in[n] = t} : k \in DOMAIN start}

\* only_consumer.  Mutant: any op that reads the tensor will do.
SomeConsumer(t, k) == \E r \in Readers(t) : r[1] = k
OnlyConsumer(t, k) == Cardinality(Readers(t)) = 1 /\ \E r \in Readers(t) : r[1] = k

Is(k, type) == k > 0 /\ ops[k].type = type
\* The numbers of S up to n, in order, as a loop from 1 to n pushes them back.
Ascending(S, n) ==
  LET upto[k \in 0..n] == IF k = 0 THEN <<>> ELSE IF k \in S THEN Append(upto[k - 1], k) ELSE upto[k - 1]
  IN  upto[n]
Pick(S) == Ascending(S, Len(ops))
\* compact: the ops that are left.
Live == LET left == Pick(DOMAIN ops \ dead) IN [n \in DOMAIN left |-> ops[left[n]]]

\* A turn of the loop that rewrites op i and absorbs others.
Walking(name) == pass <= Rounds * Len(Passes) /\ PassName = name /\ i <= Len(ops)
Rewrite(op, absorbed) ==
  /\ ops' = [ops EXCEPT ![i] = op] /\ dead' = dead \cup absorbed /\ i' = i + 1
  /\ UNCHANGED <<model, pass, start>>
-----------------------------------------------------------------------------
\* fuse_swiglu: MUL(SILU(MATMUL(x, wg)), MATMUL(x, wu)), the operands of MUL in either order.
Swiglu(s) ==
  LET a  == ops[i].in[s]
      b  == ops[i].in[3 - s]
      si == Producer(a)
      ui == Producer(b)
      gi == Producer(ops[si].in[1])
  IN  /\ Is(i, "MUL") /\ Is(si, "SILU") /\ Is(ui, "MATMUL")
      /\ Is(gi, "MATMUL") /\ ops[gi].in[1] = ops[ui].in[1]
      /\ OnlyConsumer(a, i) /\ OnlyConsumer(b, i) /\ OnlyConsumer(ops[si].in[1], si)
      /\ {si, ui, gi} \cap dead = {}
FuseSwiglu(s) ==
  LET si == Producer(ops[i].in[s])
      ui == Producer(ops[i].in[3 - s])
      gi == Producer(ops[si].in[1])
  IN  /\ Walking("swiglu") /\ Swiglu(s) /\ (s = 2 => ~Swiglu(1))
      /\ Rewrite([ops[i] EXCEPT !.type = "FFN_SWIGLU", !.in = <<ops[gi].in[1], ops[gi].in[2], ops[ui].in[2]>>],
                 {si, ui, gi})

\* fuse_shared_input: the MATMULs from i on that read the tensor that i reads.
Group == Pick({k \in i..Len(ops) : k \notin dead /\ Is(k, "MATMUL") /\ ops[k].in[1] = ops[i].in[1]})
Shared == i \notin dead /\ Is(i, "MATMUL") /\ Len(Group) >= 2
FuseShared ==
  /\ Walking("shared") /\ Shared
  /\ Rewrite([ops[i] EXCEPT !.type = "MATMUL_N",
                            !.in = <<ops[i].in[1]>> \o [n \in 1..Len(Group) |-> ops[Group[n]].in[2]],
                            !.out = [n \in 1..Len(Group) |-> ops[Group[n]].out[1]]],
             {Group[n] : n \in 2..Len(Group)})

\* fuse_residual: ADD(MATMUL(x, w), r), in either order.
Residual(s) ==
  LET y == ops[i].in[s]
  IN  Is(i, "ADD") /\ Is(Producer(y), "MATMUL") /\ Producer(y) \notin dead /\ OnlyConsumer(y, i)
FuseResidual(s) ==
  LET mi == Producer(ops[i].in[s])
  IN  /\ Walking("residual") /\ Residual(s) /\ (s = 2 => ~Residual(1))
      /\ Rewrite([ops[i] EXCEPT !.type = "MATMUL_ADD", !.in = <<ops[mi].in[1], ops[mi].in[2], ops[i].in[3 - s]>>],
                 {mi})

\* Mutant of Rope: an ATTENTION that rotates already is taken again.
RopeAgain ==
  Is(i, "ATTENTION") /\ \A n \in 1..2 : Is(Producer(ops[i].in[n]), "ROPE") /\ OnlyConsumer(ops[i].in[n], i)
\* fuse_rope_attention: ATTENTION(ROPE(q), ROPE(k), v).
Rope ==
  /\ Is(i, "ATTENTION") /\ ~ops[i].rope
  /\ \A n \in 1..2 : Is(Producer(ops[i].in[n]), "ROPE") /\ OnlyConsumer(ops[i].in[n], i)
FuseRope ==
  LET q == Producer(ops[i].in[1])
      k == Producer(ops[i].in[2])
  IN  /\ Walking("rope") /\ Rope
      /\ Rewrite([ops[i] EXCEPT !.in = <<ops[q].in[1], ops[k].in[1], @[3]>>, !.rope = TRUE], {q, k})

\* A turn that finds nothing to fuse.
Skip ==
  /\ \/ Walking("swiglu") /\ ~(Is(i, "MUL") /\ \E s \in 1..2 : Swiglu(s))
     \/ Walking("shared") /\ ~Shared
     \/ Walking("residual") /\ ~(Is(i, "ADD") /\ \E s \in 1..2 : Residual(s))
     \/ Walking("rope") /\ ~Rope
  /\ i' = i + 1 /\ UNCHANGED <<model, ops, pass, start, dead>>

\* The end of a pass: compact, and the next pass takes its producers and consumers.
EndPass ==
  /\ pass <= Rounds * Len(Passes) /\ i > Len(ops)
  /\ ops' = Live /\ start' = Live /\ dead' = {}
  /\ pass' = pass + 1 /\ i' = 1
  /\ UNCHANGED model

Done == pass > Rounds * Len(Passes) /\ UNCHANGED vars

Next ==
  \/ \E s \in 1..2 : FuseSwiglu(s) \/ FuseResidual(s)
  \/ FuseShared \/ FuseRope \/ Skip \/ EndPass \/ Done

Spec == Init /\ [][Next]_vars
-----------------------------------------------------------------------------
(* What an op list computes                                                *)

Unset == <<"unset">>
Tensors == UNION {Range(model[k].in) \cup Range(model[k].out) : k \in DOMAIN model}
Matmul(x, w) == <<"MATMUL", <<x, w>>>>
Both(name, x, y) == <<name, {x, y}>>

\* The values of the outputs of an op whose operands have values v.
Values(op, v) ==
  CASE op.type = "ADD" -> <<Both("ADD", v[1], v[2])>>
    [] op.type = "MUL" -> <<Both("MUL", v[1], v[2])>>
    [] op.type = "FFN_SWIGLU" -> <<Both("MUL", <<"SILU", <<Matmul(v[1], v[2])>>>>, Matmul(v[1], v[3]))>>
    [] op.type = "MATMUL_ADD" -> <<Both("ADD", v[3], Matmul(v[1], v[2]))>>
    [] op.type = "MATMUL_N" -> [n \in DOMAIN op.out |-> Matmul(v[1], v[n + 1])]
    [] op.type = "ATTENTION" /\ op.rope -> <<<<"ATTENTION", <<<<"ROPE", <<v[1]>>>>, <<"ROPE", <<v[2]>>>>, v[3]>>>>>>
    [] OTHER -> <<<<op.type, v>>>>

\* One op of a run: env gives every tensor its value, Unset before it has been written.
RunOp(env, op) ==
  LET new == Values(op, [n \in DOMAIN op.in |-> env[op.in[n]]])
  IN  [t \in DOMAIN env |-> IF \E n \in DOMAIN op.out : op.out[n] = t
                            THEN new[CHOOSE n \in DOMAIN op.out : op.out[n] = t] ELSE env[t]]
Leaves == [t \in Tensors |-> IF t <= 0 THEN <<"leaf", t>> ELSE Unset]
Meaning(list) ==
  LET after[k \in 0..Len(list)] == IF k = 0 THEN Leaves ELSE RunOp(after[k - 1], list[k]) IN after[Len(list)]
-----------------------------------------------------------------------------
(* Properties                                                              *)

Output == model[Len(model)].out[1]

\* The passes keep what the graph computes: after every turn the ops that are left give the graph's
\* output the value it had, although a pass works on producers and consumers taken at its start.
ComputesTheSame == Meaning(Live)[Output] = Meaning(model)[Output]

\* "keep a valid topological order": "every input is produced before it is read" (test_graph.cpp), the
\* absorbed ops' readers included.
ProducedBeforeRead == InOrder(Live)

\* "idempotent" (test_graph.cpp): passes that run again on the optimized graph find nothing, also where
\* an earlier fusion has changed who reads a tensor.
Idempotent == [][pass > Len(Passes) => ops' = ops]_vars

\* "Fused ops take the position of the op that consumed the last fused result" (passes.hpp:11): what an
\* op absorbs stands before it.
FusedStandsLast == [][\A k \in dead' \ dead : k < i]_vars
=============================================================================
