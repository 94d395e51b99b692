----------------------------- MODULE Partition ------------------------------
(***************************************************************************)
(* The delegates of a Session: the backends its constructor makes from the *)
(* options, partition_graph (src/backends.cpp), which hands each op to the *)
(* first of them that claims it and groups neighbours, the two nested      *)
(* loops of forward, which run the partitions, and the profiler's events   *)
(* of them.  Build puts it after the model and the passes, and before the  *)
(* planner.                                                                *)
(***************************************************************************)
EXTENDS Integers, Sequences, FiniteSets, SequencesExt

CONSTANTS
  Names,       \* what the user may give as backends, in order of preference
  MaxForwards  \* bound on the forwards of a session

VARIABLES
  ops,     \* graph_.ops: records type, in, out; operands below 0 are weights
  types,   \* the data types of the weights
  pref,    \* the backends, in order of preference
  phase,   \* "make" the backends, "assign" the ops, "ready", "run"; "refused" when the constructor threw
  asked,   \* the names that are still to be made
  parts,   \* parts_: records backend, begin, end; ops begin .. end - 1, from 0
  i,       \* the op that is assigned next
  part, op,\* forward's two loops
  ran,     \* what this forward has run: op and backend
  name,    \* forward's phase: "prefill" or "decode"
  events   \* prof_.events: phase and op, with its backend, "none" for a phase's span

profVars == <<name, events>>
loopVars == <<part, op, ran, profVars>>
graphVars == <<ops, types>>
partVars == <<graphVars, pref, phase, asked, parts, i, loopVars>>

NoDelegates ==
  /\ asked \in Names
  /\ pref = <<>> /\ phase = "make" /\ parts = <<>> /\ i = 0
  /\ part = 1 /\ op = 0 /\ ran = <<>> /\ name = "prefill" /\ events = <<>>

Matmuls == {"MATMUL", "MATMUL_N", "MATMUL_ADD"}
WeightTypes(o) == LET weight(t) == t < 0 IN {types[t] : t \in ToSet(SelectSeq(o.in, weight))}
\* supports: the op's weights matter to matmul-only, all of them.  Mutant: only the first is looked at.
SupportsFirst(b, o) ==
  CASE b = "reference" -> TRUE
    [] b = "cpu" -> o.type \notin {"EMBED", "LAST_ROWS"}
    [] b = "matmul-only" -> o.type \in Matmuls /\ types[o.in[2]] \in {"f32", "q8"}
Supports(b, o) ==
  CASE b = "reference" -> TRUE
    [] b = "cpu" -> o.type \notin {"EMBED", "LAST_ROWS"}
    [] b = "matmul-only" -> o.type \in Matmuls /\ WeightTypes(o) \subseteq {"f32", "q8"}

\* One turn of the constructor's loop over the options; the reference backend comes last, always.
Make ==
  /\ phase = "make" /\ asked # <<>>
  /\ LET b == asked[1] IN
       \/ b \in {"reference", "ref"} /\ UNCHANGED <<pref, phase>>
       \/ b \in {"cpu", "matmul-only"} /\ pref' = Append(pref, b) /\ UNCHANGED phase
       \/ b \notin {"reference", "ref", "cpu", "matmul-only"} /\ phase' = "refused" /\ UNCHANGED pref
  /\ asked' = Tail(asked)
  /\ UNCHANGED <<graphVars, parts, i, loopVars>>
MakeReference ==
  /\ phase = "make" /\ asked = <<>>
  /\ pref' = Append(pref, "reference") /\ phase' = "assign"
  /\ UNCHANGED <<graphVars, asked, parts, i, loopVars>>

\* partition_graph: the first backend that claims op i.
Chosen(o) ==
  LET K == {k \in DOMAIN pref : Supports(pref[k], o)}
  IN  IF K = {} THEN "none" ELSE pref[CHOOSE k \in K : \A l \in K : k <= l]
Joins(b) == parts # <<>> /\ parts[Len(parts)].backend = b
\* Mutants of Extended: off by one, either way.
ExtendedShort == i
ExtendedLong == i + 2
Extended == i + 1
Assign ==
  /\ phase = "assign" /\ i < Len(ops)
  /\ LET b == Chosen(ops[i+1]) IN
       IF b = "none" THEN phase' = "refused" /\ UNCHANGED parts
       ELSE /\ parts' = IF Joins(b) THEN [parts EXCEPT ![Len(parts)].end = Extended]
                        ELSE Append(parts, [backend |-> b, begin |-> i, end |-> i + 1])
            /\ UNCHANGED phase
  /\ i' = i + 1
  /\ UNCHANGED <<graphVars, pref, asked, loopVars>>
Assigned ==
  /\ phase = "assign" /\ i = Len(ops) /\ phase' = "ready"
  /\ UNCHANGED <<graphVars, pref, asked, parts, i, loopVars>>

\* forward: for each partition, for each op in it; with a profiler, an event for each op.
Forwards == Cardinality({k \in DOMAIN events : events[k].backend = "none"})
Begin(called) ==
  /\ phase = "ready" /\ Forwards < MaxForwards /\ phase' = "run"
  /\ part' = 1 /\ op' = (IF parts = <<>> THEN 0 ELSE parts[1].begin) /\ ran' = <<>>
  /\ name' = called
  /\ UNCHANGED <<graphVars, pref, asked, parts, i, events>>
\* Mutant of Event: the op is counted for the first partition's backend.
EventFirst == [phase |-> name, type |-> ops[op+1].type, backend |-> parts[1].backend]
Event == [phase |-> name, type |-> ops[op+1].type, backend |-> parts[part].backend]
RunOp ==
  /\ phase = "run" /\ part <= Len(parts) /\ op < parts[part].end
  /\ ran' = Append(ran, <<op, parts[part].backend>>) /\ op' = op + 1
  /\ events' = Append(events, Event)
  /\ UNCHANGED <<graphVars, pref, phase, asked, parts, i, part, name>>
NextPart ==
  /\ phase = "run" /\ part <= Len(parts) /\ op >= parts[part].end
  /\ part' = part + 1
  /\ op' = IF part < Len(parts) THEN parts[part+1].begin ELSE op
  /\ UNCHANGED <<graphVars, pref, phase, asked, parts, i, ran, profVars>>
\* The span of the whole forward.
Return ==
  /\ phase = "run" /\ part > Len(parts) /\ phase' = "ready"
  /\ events' = Append(events, [phase |-> name, type |-> "COUNT", backend |-> "none"])
  /\ UNCHANGED <<graphVars, pref, asked, parts, i, part, op, ran, name>>

Constructing == Make \/ MakeReference \/ Assign \/ Assigned

\* Profiler::stats: how often an op type has run on a backend in a phase, and how many spans the phase has.
Calls(p, type, b) == Cardinality({k \in DOMAIN events : events[k] = [phase |-> p, type |-> type, backend |-> b]})
Spans(p) == Calls(p, "COUNT", "none")
-----------------------------------------------------------------------------
(* Properties                                                              *)

Backends == {"cpu", "matmul-only", "reference"}

\* A forward runs every op of the graph once and in order, each on a backend that supports it and that no
\* preferred backend of the user's list claims: "the first backend in preference order that claims it",
\* "anything unclaimed falls back to reference" (backend.hpp).
Preferred(o, b) ==
  /\ Supports(b, o)
  /\ \A k \in DOMAIN pref : Supports(pref[k], o) => \E l \in 1..k : pref[l] = b
RunsEveryOpOnce ==
  /\ \A k \in DOMAIN ran : ran[k][1] = k - 1 /\ k <= Len(ops) /\ Preferred(ops[k], ran[k][2])
  /\ phase = "run" /\ part > Len(parts) => Len(ran) = Len(ops)

\* A matmul-only backend, which has the code path of no other op or weight, is never given one.
NarrowBackendIsSpared ==
  \A k \in DOMAIN ran : ran[k][2] = "matmul-only" =>
    /\ ops[k].type \in Matmuls
    /\ "q4" \notin WeightTypes(ops[k])

\* Partitions are as long as they can be: neighbours have different backends, none is empty.
PartitionsAreMaximal ==
  /\ \A k \in DOMAIN parts : parts[k].begin < parts[k].end
  /\ \A k \in 1..Len(parts)-1 : parts[k].backend # parts[k+1].backend /\ parts[k].end = parts[k+1].begin

\* "one span per executed op per step" (test_e2e.cpp): in every phase, what stats says of an op type and a
\* backend is the number of such ops in the graph, times the runs of the phase.
ProfileAddsUp ==
  phase = "ready" =>
    \A p \in {"prefill", "decode"}, b \in Backends, type \in {ops[k].type : k \in DOMAIN ops} :
      Calls(p, type, b) =
        Spans(p) * Cardinality({k \in DOMAIN ops : ops[k].type = type /\ Preferred(ops[k], b)})
=============================================================================
