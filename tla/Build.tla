------------------------------- MODULE Build --------------------------------
(***************************************************************************)
(* A Session from its model file to its logits: load_model, the            *)
(* constructor (optimize, the delegates and partition_graph, plan_memory,  *)
(* the pointers into the arena), and forwards that run the partitions over *)
(* the arena.  Each part is the module of that name; here they work on the *)
(* same graph, one after the other.  What a block of the arena holds is    *)
(* the term that was written there last.                                   *)
(***************************************************************************)
EXTENDS Partition

CONSTANTS
  Models,      \* op lists, as in Fusion; weight -n is the n-th of its file
  GroupSize, Files, Targets,  \* as in Weights
  HasWeights(_, _),  \* whether a file has the weights of a model
  MaxTensor,   \* the greatest tensor id
  Size(_)      \* activation_bytes of a tensor, at max_batch

VARIABLES
  stage,       \* "load", "fuse", "delegate", "plan", "serve", "refused"
  file, target, loading, turn, weights, reported,  \* Weights
  fuse,        \* opt_.fuse
  model, pass, start, j, dead,                     \* Fusion
  graph, planning, offset, arena, tensor, busy, best, gap, cur,  \* MemoryPlanner
  value        \* per tensor in the arena: what its block holds

weightVars == <<file, target, loading, turn, weights, reported>>
fusionVars == <<model, pass, start, j, dead>>
planVars == <<graph, planning, offset, arena, tensor, busy, best, gap, cur>>
vars == <<stage, fuse, weightVars, partVars, fusionVars, planVars, value>>

Junk == <<"junk">>
Activations == 0..MaxTensor
Output == model[Len(model)].out[1]

W == INSTANCE Weights
F == INSTANCE Fusion WITH i <- j
\* Groups can be halved, and the command line refuses any other --dtype.
ASSUME WeightsAssumption ==
  /\ GroupSize \in Nat \ {0} /\ GroupSize % 2 = 0
  /\ Targets \subseteq {"none", "f32", "q8", "q4"} /\ \A f \in Files : W!IsFile(f)
\* Every tensor that an op writes has an id, and is read or is the logits.
ASSUME BuildAssumption ==
  /\ MaxTensor \in Nat /\ \A t \in Activations : Size(t) \in Nat
  /\ \A m \in Models :
       /\ F!IsGraph(m)
       /\ \A k \in DOMAIN m : \A t \in Range(m[k].out) :
            t \in Activations /\ (t = m[Len(m)].out[1] \/ \E l \in DOMAIN m : t \in Range(m[l].in))

\* The graph as plan_memory sees it.
Kind(t) == IF t = 0 THEN "input" ELSE IF t = Output THEN "output" ELSE "activation"
PlannedGraph ==
  [nops |-> Len(ops),
   in   |-> [k \in 0..Len(ops)-1 |-> {t \in Activations : t \in ToSet(ops[k+1].in)}],
   out  |-> [k \in 0..Len(ops)-1 |-> ToSet(ops[k+1].out)],
   kind |-> [t \in Activations |-> Kind(t)],
   size |-> [t \in Activations |-> Size(t)]]
P == INSTANCE MemoryPlanner WITH
       Tensors <- Activations, Graphs <- {}, phase <- planning, op <- -1, intact <- {}

Init ==
  /\ stage = "load" /\ fuse \in BOOLEAN
  /\ model \in Models /\ \E f \in Files : HasWeights(f, model) /\ W!Load(f)
  /\ target \in Targets
  /\ ops = model /\ types = <<>> /\ NoDelegates
  /\ pass = 1 /\ start = model /\ j = 1 /\ dead = {}
  /\ graph = <<>> /\ planning = "pick" /\ offset = [t \in Activations |-> -1] /\ arena = 0
  /\ tensor = -1 /\ busy = {} /\ best = -1 /\ gap = 0 /\ cur = 0
  /\ value = [t \in Activations |-> Junk]
-----------------------------------------------------------------------------
(* load_model and the constructor                                          *)

Load ==
  /\ stage = "load" /\ W!LoadModel
  /\ UNCHANGED <<stage, fuse, partVars, fusionVars, planVars, value>>
\* The constructor copies the graph, tensors and all.
Construct ==
  /\ stage = "load" /\ loading = "ready"
  /\ types' = [w \in {-n : n \in DOMAIN weights} |-> weights[-w].type]
  /\ stage' = IF fuse THEN "fuse" ELSE "delegate"
  /\ UNCHANGED <<fuse, weightVars, ops, pref, phase, asked, parts, i, loopVars, fusionVars, planVars, value>>
Optimize ==
  /\ stage = "fuse" /\ pass <= Len(F!Passes) /\ F!Next
  /\ UNCHANGED <<stage, fuse, weightVars, types, pref, phase, asked, parts, i, loopVars, planVars, value>>
Optimized ==
  /\ stage = "fuse" /\ pass > Len(F!Passes) /\ stage' = "delegate"
  /\ UNCHANGED <<fuse, weightVars, partVars, fusionVars, planVars, value>>
Delegate ==
  /\ stage = "delegate" /\ Constructing
  /\ stage' = CASE phase' = "ready" -> "plan" [] phase' = "refused" -> "refused" [] OTHER -> stage
  /\ graph' = IF phase' = "ready" THEN PlannedGraph ELSE graph
  /\ UNCHANGED <<fuse, weightVars, fusionVars, planning, offset, arena, tensor, busy, best, gap, cur, value>>
Plan ==
  /\ stage = "plan"
  /\ UNCHANGED <<stage, fuse, weightVars, partVars, fusionVars, value>>
  /\ (\E t \in Activations : P!Pick(t) \/ P!Scan(t)) \/ P!Place
Planned ==
  /\ stage = "plan" /\ planning = "pick" /\ P!Planned = P!Placed /\ stage' = "serve"
  /\ UNCHANGED <<fuse, weightVars, partVars, fusionVars, planVars, value>>
-----------------------------------------------------------------------------
(* forward                                                                 *)

\* Writing the blocks of the tensors S destroys what else lies there.
Written(S, new) ==
  [t \in Activations |-> IF t \in S THEN new[t]
                         ELSE IF \E s \in S : P!Overlap(s, t) /\ t \in P!Placed THEN Junk ELSE value[t]]
\* The tokens are copied into the input's block.
Enter(called) ==
  /\ stage = "serve" /\ Begin(called)
  /\ value' = Written({0}, [t \in {0} |-> <<"leaf", 0>>])
  /\ UNCHANGED <<stage, fuse, weightVars, fusionVars, planVars>>
\* An op reads its operands while it writes its outputs.
Operand(t, outs) ==
  IF t < 0 THEN <<"leaf", t>> ELSE IF \E s \in outs : P!Overlap(s, t) THEN Junk ELSE value[t]
Execute ==
  /\ stage = "serve" /\ RunOp
  /\ LET o == ops[op + 1]
         new == F!Values(o, [n \in DOMAIN o.in |-> Operand(o.in[n], ToSet(o.out))])
     IN  value' = Written(ToSet(o.out), [t \in ToSet(o.out) |-> new[CHOOSE n \in DOMAIN o.out : o.out[n] = t]])
  /\ UNCHANGED <<stage, fuse, weightVars, fusionVars, planVars>>
Loop ==
  /\ stage = "serve" /\ (NextPart \/ Return)
  /\ UNCHANGED <<stage, fuse, weightVars, fusionVars, planVars, value>>
Ended == (stage = "refused" \/ loading = "refused" \/ Forwards = MaxForwards) /\ UNCHANGED vars

Next ==
  \/ Load \/ Construct \/ Optimize \/ Optimized \/ Delegate \/ Plan \/ Planned
  \/ \E called \in {"prefill", "decode"} : Enter(called)
  \/ Execute \/ Loop \/ Ended
Spec == Init /\ [][Next]_vars
-----------------------------------------------------------------------------
(* Properties                                                              *)

\* From the file to the caller: when a forward returns, the block it points to holds what the model's own
\* ops compute from the tokens and the weights, whether ops have been fused or not, however they have been
\* partitioned, with the tensors that fusion left dead out of the plan and the others packed over each
\* other, on a first forward and on the next.
LogitsAreTheModels ==
  stage = "serve" /\ phase = "ready" /\ events # <<>> => value[Output] = F!Meaning(model)[Output]

\* Weights!QuantizedWithinStep, while load_model runs, and for what the session is given or the refusal leaves.
QuantizedWithinStep == stage = "load" => W!QuantizedWithinStep
=============================================================================
