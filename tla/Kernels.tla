------------------------------ MODULE Kernels -------------------------------
(***************************************************************************)
(* One call of a threaded kernel of src/kernels_cpu.cpp, as run_cpu_matmuls*)
(* and CpuBackend::run make them: matmul over blocks of kRowBlock output   *)
(* rows, swiglu over the same blocks of two weights, attention over one    *)
(* task per token and head, rmsnorm over rows.  parallel_for is what       *)
(* ParallelFor promises: each item goes to one thread, in any order, and   *)
(* the call returns when all are done.  Memory is a function from          *)
(* addresses, in floats, to values; a value is the term that was computed, *)
(* and Stale is what earlier calls have left.                              *)
(***************************************************************************)
EXTENDS Integers, Sequences

CONSTANTS
  RowBlock,    \* kRowBlock, 16 in the code
  ActBlock,    \* kActBlock, 32
  Lanes,       \* tokens and rows of a register block, 4
  SerialRows,  \* up to so many rows are quantized by the caller, 8
  Slack,       \* spare floats of a thread's scratch, 16
  Threads,     \* pool_->size()
  MaxBatch, MaxK, MaxCtx, HeadDim,  \* what the session's constructor sizes its buffers by
  Calls,       \* kernel calls: see IsCall
  Stale

Least(a, b) == IF a < b THEN a ELSE b
Greatest(a, b) == IF a > b THEN a ELSE b

IsWeight(w) == w.type \in {"f32", "q8", "q4"} /\ w.rows \in Nat \ {0}
\* T tokens; K columns; act: act_quant; simd: use_neon(); pool: the backend passes its pool.
IsCall(c) ==
  /\ c.kernel \in {"matmul", "swiglu", "attention", "rmsnorm"}
  /\ c.T \in 1..MaxBatch /\ {c.pool, c.act, c.simd} \subseteq BOOLEAN
  /\ c.kernel # "attention" => c.K \in 1..MaxK
  /\ c.kernel = "matmul" => /\ DOMAIN c.w = 1..Len(c.w) /\ Len(c.w) \in Nat \ {0}
                            /\ \A i \in 1..Len(c.w) : IsWeight(c.w[i]) /\ c.res[i] \in BOOLEAN
  /\ c.kernel = "swiglu" => /\ DOMAIN c.w = 1..2 /\ IsWeight(c.w[1]) /\ IsWeight(c.w[2])
                            /\ c.w[1].rows = c.w[2].rows
  /\ c.kernel = "attention" => /\ c.pos0 \in Nat /\ c.pos0 + c.T <= MaxCtx /\ c.rope \in BOOLEAN
                               /\ {c.heads, c.grp} \subseteq Nat \ {0}

ASSUME KernelsAssumption ==
  /\ {RowBlock, ActBlock, Lanes, Threads, MaxBatch, MaxK, HeadDim} \subseteq Nat \ {0}
  /\ {SerialRows, Slack, MaxCtx} \subseteq Nat
  /\ \A c \in Calls : IsCall(c)

VARIABLES
  call,     \* the arguments
  phase,    \* "enter", "quantize" the rows, "blocks", "returned"
  left,     \* the rows, then the blocks, that no thread has taken
  task,     \* per thread: its block and the step it is at, "idle" when it has none
  scratch,  \* scratch_, all threads'
  actq, actd,  \* act_q_ and act_scales_
  y         \* the outputs: <<target, index>>

vars == <<call, phase, left, task, scratch, actq, actd, y>>
-----------------------------------------------------------------------------
(* The layout of the buffers, and of the work                              *)

\* Mutant of ScratchFloats: room for one of swiglu's two blocks.
ScratchFloatsOne(T, k, ctx, hd) == Greatest(RowBlock * k + T * RowBlock, ctx + hd) + Slack
ScratchFloats(T, k, ctx, hd) == Greatest(RowBlock * k + 2 * T * RowBlock, ctx + hd) + Slack
PerThread == ScratchFloats(MaxBatch, MaxK, MaxCtx, HeadDim)
Own(p) == p * PerThread .. (p + 1) * PerThread - 1

Deq(p) == p * PerThread
G(p) == Deq(p) + RowBlock * call.K
\* Mutant of U: the block of G is taken for one of a single token.
UShort(p) == G(p) + RowBlock
U(p) == G(p) + call.T * RowBlock
Scores(p) == Deq(p) + HeadDim

Targets == IF call.kernel = "matmul" THEN 1..Len(call.w) ELSE {1}
\* The columns of a target's output.
Width(i) ==
  CASE call.kernel \in {"matmul", "swiglu"} -> call.w[i].rows
    [] call.kernel = "attention" -> call.heads
    [] call.kernel = "rmsnorm" -> 1

\* Mutant of Height: the last block of a weight is not cut.
HeightFull(i, r0) == RowBlock
Height(i, r0) == Least(RowBlock, Width(i) - r0)
RowBlocks(i) ==
  {[target |-> i, r0 |-> RowBlock * b, nr |-> Height(i, RowBlock * b)] :
     b \in 0 .. (Width(i) + RowBlock - 1) \div RowBlock - 1}
Tiled == call.kernel \in {"matmul", "swiglu"}
Blocks ==
  IF Tiled THEN UNION {RowBlocks(i) : i \in Targets}
  ELSE {[target |-> 1, r0 |-> n, nr |-> 1] : n \in 0 .. call.T * Width(1) - 1}

\* The elements of the outputs that a block is for.
Cells(b) ==
  IF Tiled THEN {<<b.target, t * Width(b.target) + b.r0 + j>> : t \in 0..call.T-1, j \in 0..b.nr-1}
  ELSE {<<1, b.r0>>}

Applies(i) == call.w[i].type # "f32" /\ call.K % ActBlock = 0
\* Whether the call quantizes its rows, and whether target i reads them so.
Quantizes ==
  /\ call.act
  /\ \/ call.kernel = "matmul" /\ \E i \in Targets : Applies(i)
     \/ call.kernel = "swiglu" /\ Applies(1) /\ Applies(2)
Int8(i) == Quantizes /\ Applies(i)

Outputs == UNION {{i} \X (0 .. call.T * Width(i) - 1) : i \in Targets}
Idle == [step |-> "idle"]

Init ==
  /\ call \in Calls /\ phase = "enter" /\ left = {}
  /\ task = [p \in 0..Threads-1 |-> Idle]
  /\ scratch = [a \in 0 .. Threads * PerThread - 1 |-> Stale]
  /\ actq = [a \in 0 .. MaxBatch * MaxK - 1 |-> Stale]
  /\ actd = [a \in 0 .. MaxBatch * (MaxK \div ActBlock + 1) - 1 |-> Stale]
  /\ y = [o \in Outputs |-> Stale]
-----------------------------------------------------------------------------
(* Terms                                                                   *)

Stored(mem, f) == [a \in DOMAIN mem |-> IF a \in DOMAIN f THEN f[a] ELSE mem[a]]
Peek(mem, a) == IF a \in DOMAIN mem THEN mem[a] ELSE Stale

\* A row of x as floats, as quantized by quantize_act_row, and as read back from the buffers.
X(t) == [k \in 0..call.K-1 |-> <<"x", t, k>>]
Quants(t, k) == <<"q", t, k>>
ScaleOf(t, b) == <<"d", t, b>>
Rounded(t) == [k \in 0..call.K-1 |-> <<Quants(t, k), ScaleOf(t, k \div ActBlock)>>]
Fetched(t) ==
  [k \in 0..call.K-1 |-> <<Peek(actq, t * call.K + k),
                           Peek(actd, t * (call.K \div ActBlock) + k \div ActBlock)>>]
\* A row of a weight, dequantized.
WeightRow(i, r) == [k \in 0..call.K-1 |-> <<"w", i, r, k>>]
\* Row j of the weight tile: in the weight itself when it is f32, else in the scratch.
TileRow(p, i, r0, j) ==
  IF call.w[i].type = "f32" THEN WeightRow(i, r0 + j)
  ELSE [k \in 0..call.K-1 |-> Peek(scratch, Deq(p) + j * call.K + k)]
Dot(xs, ws) == <<"dot", xs, ws>>
Plus(v, i, o) == IF call.res[i] THEN <<"+", v, <<i, o>>>> ELSE v
Gated(g, u) == <<"swiglu", g, u>>
\* What attention computes from the scores of the rows up to a token's own, which are not read twice.
Attended(scores, kvhead) == [j \in DOMAIN scores |-> <<scores[j], <<"v", kvhead, j>>>>]
Score(q, kvhead, j) == <<"dot", q, <<"k", kvhead, j>>>>
Query(t, h, rotated) == [i \in 0..HeadDim-1 |-> <<IF rotated THEN "rope" ELSE "q", t, h, i>>]

\* What ref::matmul, swiglu, attention and rmsnorm put there: each weight by itself.
RefDot(i, t, r) == Dot(IF call.act /\ Applies(i) THEN Rounded(t) ELSE X(t), WeightRow(i, r))
Ref(i, o) ==
  LET t == o \div Width(i)
      r == o % Width(i)
  IN  CASE call.kernel = "matmul" -> Plus(RefDot(i, t, r), i, o)
        [] call.kernel = "swiglu" -> Gated(RefDot(1, t, r), RefDot(2, t, r))
        [] call.kernel = "attention" ->
             Attended([j \in 0..call.pos0+t |-> Score(Query(t, r, call.rope), r \div call.grp, j)], r \div call.grp)
        [] call.kernel = "rmsnorm" -> <<"rmsnorm", X(t)>>
-----------------------------------------------------------------------------
(* The caller                                                              *)

\* Mutant of Enter: rows are never quantized.
EnterUnquantized ==
  /\ phase = "enter" /\ phase' = "blocks" /\ left' = Blocks
  /\ UNCHANGED <<call, task, scratch, actq, actd, y>>
Enter ==
  /\ phase = "enter"
  /\ IF Quantizes THEN phase' = "quantize" /\ left' = 0..call.T-1
     ELSE phase' = "blocks" /\ left' = Blocks
  /\ UNCHANGED <<call, task, scratch, actq, actd, y>>

\* quantize_rows: many rows are shared out among the threads, few are the caller's.
QuantizeRow(p, t) ==
  /\ phase = "quantize" /\ t \in left /\ left' = left \ {t}
  /\ p > 0 => call.pool /\ call.T > SerialRows
  /\ actq' = Stored(actq, [a \in t * call.K .. (t + 1) * call.K - 1 |-> Quants(t, a - t * call.K)])
  /\ LET nb == call.K \div ActBlock IN
       actd' = Stored(actd, [a \in t * nb .. (t + 1) * nb - 1 |-> ScaleOf(t, a - t * nb)])
  /\ UNCHANGED <<call, phase, task, scratch, y>>
\* Mutant of Quantized: the blocks begin when the caller is done with its rows.
QuantizedEarly ==
  /\ phase = "quantize" /\ left # 0..call.T-1 /\ phase' = "blocks" /\ left' = Blocks
  /\ UNCHANGED <<call, task, scratch, actq, actd, y>>
Quantized ==
  /\ phase = "quantize" /\ left = {} /\ phase' = "blocks" /\ left' = Blocks
  /\ UNCHANGED <<call, task, scratch, actq, actd, y>>

Return ==
  /\ phase = "blocks" /\ left = {} /\ \A p \in DOMAIN task : task[p] = Idle
  /\ phase' = "returned"
  /\ UNCHANGED <<call, left, task, scratch, actq, actd, y>>
Returned == phase = "returned" /\ UNCHANGED vars
-----------------------------------------------------------------------------
(* The body of parallel_for, on thread p                                   *)

Way(b) ==
  CASE Tiled /\ Int8(b.target) -> "int8"
    [] Tiled /\ ~Int8(b.target) -> IF call.T = 1 THEN "rows" ELSE "tile"
    [] call.kernel = "attention" -> IF call.rope THEN "rotate" ELSE "score"
    [] call.kernel = "rmsnorm" -> "norm"
Take(p, b) ==
  /\ phase = "blocks" /\ b \in left /\ task[p] = Idle /\ (p > 0 => call.pool)
  /\ left' = left \ {b}
  /\ task' = [task EXCEPT ![p] = [step |-> Way(b), block |-> b, w |-> b.target]]
  /\ UNCHANGED <<call, phase, scratch, actq, actd, y>>

At(p, kernel, step) == call.kernel = kernel /\ task[p].step = step
Go(p, step) == task' = [task EXCEPT ![p].step = step]
Done(p) == task' = [task EXCEPT ![p] = Idle]
Block(p) == task[p].block
\* Element <<i, o>> of an output is row o % Width(i) of the weight, for token o div Width(i).
Write(p, S, value(_, _, _)) ==
  /\ y' = [o \in DOMAIN y |-> IF o \in S THEN value(o[1], o[2] \div Width(o[1]), o[2] % Width(o[1])) ELSE y[o]]
  /\ UNCHANGED <<call, phase, left, scratch, actq, actd>>
\* Blocks of [T, kRowBlock] floats from address a on, a column per row of the block.
Columns(b, a) == {a + t * RowBlock + j : t \in 0..call.T-1, j \in 0..b.nr-1}
\* The addresses of the scratch that a step writes.
Room(p) ==
  LET b == Block(p) IN
  CASE task[p].step = "tile" -> Deq(p) .. Deq(p) + b.nr * call.K - 1
    [] At(p, "swiglu", "gemm") -> Columns(b, IF task[p].w = 1 THEN G(p) ELSE U(p))
    [] At(p, "swiglu", "int8") -> Columns(b, G(p)) \cup Columns(b, U(p))
    [] task[p].step = "rotate" -> Deq(p) .. Deq(p) + HeadDim - 1
    [] task[p].step = "score" -> Scores(p) .. Scores(p) + call.pos0 + b.r0 \div call.heads
    [] OTHER -> {}
Fill(p, value(_)) ==
  /\ scratch' = Stored(scratch, [a \in Room(p) |-> value(a)])
  /\ UNCHANGED <<call, phase, left, actq, actd, y>>

\* T = 1: one row of a weight at a time, dequantized in registers.
Rows(p) ==
  /\ task[p].step = "rows" /\ Done(p)
  /\ LET product(i, t, r) == Dot(X(t), WeightRow(i, r))
         element(i, t, r) == IF call.kernel = "matmul" THEN Plus(product(i, t, r), i, t * Width(i) + r)
                             ELSE Gated(product(1, t, r), product(2, t, r))
     IN  Write(p, Cells(Block(p)), element)

\* weight_tile, then gemm_f32 over it.
Tile(p) ==
  /\ task[p].step = "tile" /\ Go(p, "gemm")
  /\ LET i == task[p].w
         cell(a) == IF call.w[i].type = "f32" THEN Peek(scratch, a)
                    ELSE WeightRow(i, Block(p).r0 + (a - Deq(p)) \div call.K)[(a - Deq(p)) % call.K]
     IN  Fill(p, cell)

\* Mutant of Gemm: the rows that fill no register block are left out.
GemmWhole(nr) ==
  IF call.simd THEN {c \in (0..call.T-1) \X (0..nr-1) :
                       c[1] < (call.T \div Lanes) * Lanes => c[2] < (nr \div Lanes) * Lanes}
  ELSE (0..call.T-1) \X (0..nr-1)
\* The elements gemm_f32 computes: register blocks, the rows that are left of these tokens, the tokens left.
Gemm(nr) ==
  LET tokens == IF call.simd THEN (call.T \div Lanes) * Lanes ELSE 0
      rows == (nr \div Lanes) * Lanes
  IN  ((0..tokens-1) \X (0..rows-1)) \cup ((0..tokens-1) \X (rows..nr-1)) \cup ((tokens..call.T-1) \X (0..nr-1))
GemmOut(p) ==
  /\ At(p, "matmul", "gemm") /\ Done(p)
  /\ LET b == Block(p)
         element(i, t, r) == Plus(Dot(X(t), TileRow(p, i, b.r0, r - b.r0)), i, t * Width(i) + r)
     IN  Write(p, {<<b.target, c[1] * Width(b.target) + b.r0 + c[2]>> : c \in Gemm(b.nr)}, element)
GemmGate(p) ==
  /\ At(p, "swiglu", "gemm")
  /\ task' = [task EXCEPT ![p] = IF @.w = 1 THEN [@ EXCEPT !.step = "tile", !.w = 2] ELSE [@ EXCEPT !.step = "combine"]]
  /\ LET a0 == IF task[p].w = 1 THEN G(p) ELSE U(p)
         cell(a) == IF <<(a - a0) \div RowBlock, (a - a0) % RowBlock>> \in Gemm(Block(p).nr)
                    THEN Dot(X((a - a0) \div RowBlock), TileRow(p, task[p].w, Block(p).r0, (a - a0) % RowBlock))
                    ELSE Peek(scratch, a)
     IN  Fill(p, cell)

\* row_a8, and the residual that is added to what it has written.
Int8Out(p) ==
  /\ At(p, "matmul", "int8")
  /\ IF call.res[Block(p).target] THEN Go(p, "residual") ELSE Done(p)
  /\ LET element(i, t, r) == Dot(Fetched(t), WeightRow(i, r)) IN Write(p, Cells(Block(p)), element)
Residual(p) ==
  /\ At(p, "matmul", "residual") /\ Done(p)
  /\ LET element(i, t, r) == Plus(y[<<i, t * Width(i) + r>>], i, t * Width(i) + r)
     IN  Write(p, Cells(Block(p)), element)
Int8Gates(p) ==
  /\ At(p, "swiglu", "int8") /\ Go(p, "combine")
  /\ LET b == Block(p)
         column(i, a) == Dot(Fetched(a \div RowBlock), WeightRow(i, b.r0 + (a % RowBlock)))
         cell(a) == IF a < U(p) THEN column(1, a - G(p)) ELSE column(2, a - U(p))
     IN  Fill(p, cell)
Combine(p) ==
  /\ At(p, "swiglu", "combine") /\ Done(p)
  /\ LET column(a, t, r) == Peek(scratch, a + t * RowBlock + r - Block(p).r0)
         element(i, t, r) == Gated(column(G(p), t, r), column(U(p), t, r))
     IN  Write(p, Cells(Block(p)), element)

\* attention's task for a token and a head, over a cache that holds the rows of this call already.
Rotate(p) ==
  /\ task[p].step = "rotate" /\ Go(p, "score")
  /\ LET b == Block(p)
         cell(a) == Query(b.r0 \div call.heads, b.r0 % call.heads, TRUE)[a - Deq(p)]
     IN  Fill(p, cell)
ScoreRows(p) ==
  /\ task[p].step = "score" /\ Go(p, "attend")
  /\ LET b == Block(p)
         q == IF call.rope THEN [i \in 0..HeadDim-1 |-> Peek(scratch, Deq(p) + i)]
              ELSE Query(b.r0 \div call.heads, b.r0 % call.heads, FALSE)
         cell(a) == Score(q, (b.r0 % call.heads) \div call.grp, a - Scores(p))
     IN  Fill(p, cell)
Attend(p) ==
  /\ task[p].step = "attend" /\ Done(p)
  /\ LET element(i, t, h) ==
           Attended([j \in 0..call.pos0+t |-> Peek(scratch, Scores(p) + j)], h \div call.grp)
     IN  Write(p, Cells(Block(p)), element)

Norm(p) ==
  /\ task[p].step = "norm" /\ Done(p)
  /\ LET element(i, t, r) == <<"rmsnorm", X(t)>> IN Write(p, Cells(Block(p)), element)

Step(p) ==
  \/ \E t \in 0..MaxBatch-1 : QuantizeRow(p, t)
  \/ \E b \in left : Take(p, b)
  \/ Rows(p) \/ Tile(p) \/ GemmOut(p) \/ GemmGate(p) \/ Int8Out(p) \/ Residual(p) \/ Int8Gates(p)
  \/ Combine(p) \/ Rotate(p) \/ ScoreRows(p) \/ Attend(p) \/ Norm(p)
Next == Enter \/ Quantized \/ Return \/ Returned \/ \E p \in DOMAIN task : Step(p)
Spec == Init /\ [][Next]_vars
-----------------------------------------------------------------------------
(* Properties                                                              *)

\* What a step writes of the scratch lies in the part of its thread, which the constructor has sized by
\* the longest batch, the widest weight and the longest context, whichever kernel runs and however short
\* its last block is.
StaysInOwnScratch == \A p \in DOMAIN task : task[p] # Idle => Room(p) \subseteq Own(p)

\* Two threads never have blocks with an element in common: no element is written twice, none is read for
\* a residual while another thread writes it, and no block reaches into the next token's row.
BlocksAreDisjoint ==
  \A p, q \in DOMAIN task : p # q /\ task[p] # Idle /\ task[q] # Idle =>
    Cells(Block(p)) \cap Cells(Block(q)) = {}

\* "`ref` is the scalar, serial, obviously-correct oracle for every op and dtype" (kernels.hpp): when the
\* kernel returns, every element of every output is the reference's, for any number of threads and in any
\* order, whether rows were quantized or not, and for blocks, tokens and rows that fill nothing evenly.
MatchesReference == phase = "returned" => \A o \in DOMAIN y : y[o] = Ref(o[1], o[2])
=============================================================================
