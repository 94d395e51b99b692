--------------------------- MODULE Kernels_proofs ---------------------------
(***************************************************************************)
(* Proofs about Kernels, for every tile size, number of threads, size of   *)
(* the session and kernel call: no thread writes outside its part of the   *)
(* scratch, no two threads ever have an element of an output in common, and*)
(* what a call returns is what the reference kernels compute.              *)
(***************************************************************************)
EXTENDS Kernels, TLAPS

StepsOf ==
  IF Tiled THEN {"int8", "rows", "tile", "gemm", "residual", "combine"}
  ELSE IF call.kernel = "attention" THEN {"rotate", "score", "attend"} ELSE {"norm"}
Busy == [step : StepsOf, block : Blocks, w : Nat]

TypeInv ==
  /\ call \in Calls
  /\ phase \in {"enter", "quantize", "blocks", "returned"}
  /\ task \in [0..Threads-1 -> {Idle} \cup Busy]
  /\ phase = "blocks" => left \subseteq Blocks

\* A block is left, or one thread has it.
Shared ==
  /\ \A p \in 0..Threads-1 : task[p] # Idle => phase = "blocks" /\ task[p].block \notin left
  /\ \A p, q \in 0..Threads-1 : p # q /\ task[p] # Idle /\ task[q] # Idle => task[p].block # task[q].block

Working(p) ==
  Rows(p) \/ Tile(p) \/ GemmOut(p) \/ GemmGate(p) \/ Int8Out(p) \/ Residual(p) \/ Int8Gates(p)
    \/ Combine(p) \/ Rotate(p) \/ ScoreRows(p) \/ Attend(p) \/ Norm(p)
-----------------------------------------------------------------------------
(* Arithmetic                                                              *)

\* The factors of a product may grow.
LEMMA TimesGrows ==
  ASSUME NEW a \in Nat, NEW b \in Nat, NEW c \in Nat, NEW d \in Nat, a <= c, b <= d
  PROVE  a * b \in Nat /\ a * b <= c * d
<1>1. PICK e \in Nat, f \in Nat : c = a + e /\ d = b + f
  <2>1. c - a \in Nat /\ d - b \in Nat /\ c = a + (c - a) /\ d = b + (d - b)
    OBVIOUS
  <2> QED  BY <2>1
<1>2. c * d = a * b + (a * f + e * b + e * f)
  BY <1>1
<1>3. a * b \in Nat /\ a * f \in Nat /\ e * b \in Nat /\ e * f \in Nat
  BY <1>1
<1> QED  BY <1>2, <1>3

\* A multiple of w and a rest below w determine each other.
LEMMA RestIsUnique ==
  ASSUME NEW w \in Nat, NEW s \in Nat, NEW t \in Nat, NEW a \in 0..w-1, NEW b \in 0..w-1,
         s * w + a = t * w + b
  PROVE  s = t /\ a = b
<1>1. ASSUME NEW u \in Nat, NEW v \in Nat, NEW c \in 0..w-1, NEW d \in 0..w-1, u < v
      PROVE  u * w + c < v * w + d
  <2>1. (u + 1) * w <= v * w
    BY <1>1, TimesGrows
  <2>2. (u + 1) * w = u * w + w
    OBVIOUS
  <2>3. u * w \in Nat /\ v * w \in Nat
    BY TimesGrows
  <2> QED  BY <2>1, <2>2, <2>3
<1>2. ~(s < t) /\ ~(t < s)
  BY <1>1
<1>3. s = t
  BY <1>2
<1>4. s * w \in Nat
  BY TimesGrows
<1> QED  BY <1>3, <1>4

\* The token of an item of attention.
LEMMA TokenOfItem ==
  ASSUME NEW T \in Nat, NEW h \in Nat \ {0}, NEW n \in 0 .. T * h - 1
  PROVE  n \div h \in 0 .. T - 1
<1> DEFINE q == n \div h
<1>1. q \in Nat /\ n = q * h + (n % h) /\ n % h \in 0..h-1
  OBVIOUS
<1>2. ASSUME q >= T PROVE FALSE
  <2>1. T * h <= q * h
    BY <1>1, <1>2, TimesGrows
  <2> QED  BY <1>1, <2>1
<1> QED  BY <1>1, <1>2
-----------------------------------------------------------------------------
(* The blocks of a call                                                    *)

\* What is known of the arguments.
LEMMA Arguments ==
  ASSUME call \in Calls
  PROVE  /\ call.kernel \in {"matmul", "swiglu", "attention", "rmsnorm"}
         /\ call.T \in Nat \ {0} /\ call.T <= MaxBatch
         /\ call.kernel # "attention" => call.K \in Nat \ {0} /\ call.K <= MaxK
         /\ call.kernel = "attention" =>
              call.pos0 \in Nat /\ call.pos0 + call.T <= MaxCtx /\ call.heads \in Nat \ {0}
         /\ \A i \in Targets : Width(i) \in Nat \ {0}
<1>1. IsCall(call)
  BY KernelsAssumption DEF KernelsAssumption
<1>2. MaxBatch \in Nat /\ MaxK \in Nat
  BY KernelsAssumption DEF KernelsAssumption
<1>3. ASSUME NEW i \in Targets PROVE Width(i) \in Nat \ {0}
  <2>1. CASE call.kernel = "matmul"
    BY <1>1, <1>3, <2>1 DEF IsCall, IsWeight, Targets, Width
  <2>2. CASE call.kernel = "swiglu"
    BY <1>1, <1>3, <2>2 DEF IsCall, IsWeight, Targets, Width
  <2>3. CASE call.kernel = "attention"
    BY <1>1, <1>3, <2>3 DEF IsCall, Targets, Width
  <2>4. CASE call.kernel = "rmsnorm"
    BY <2>4 DEF Width
  <2> QED  BY <1>1, <2>1, <2>2, <2>3, <2>4 DEF IsCall
<1> QED  BY <1>1, <1>2, <1>3 DEF IsCall

\* A block of a tiled kernel begins at a multiple of RowBlock and is cut at the width of its target.
LEMMA TiledBlock ==
  ASSUME call \in Calls, Tiled, NEW b \in Blocks
  PROVE  /\ b.target \in Targets
         /\ \E n \in Nat : b.r0 = RowBlock * n /\ b.r0 \in Nat
         /\ b.nr \in Int /\ b.nr <= RowBlock /\ b.r0 + b.nr <= Width(b.target)
         /\ b = [target |-> b.target, r0 |-> b.r0, nr |-> Least(RowBlock, Width(b.target) - b.r0)]
<1>1. PICK i \in Targets : b \in RowBlocks(i)
  BY DEF Blocks
<1>2. RowBlock \in Nat \ {0} /\ Width(i) \in Nat \ {0}
  BY Arguments, KernelsAssumption DEF KernelsAssumption
<1>3. PICK n \in 0 .. (Width(i) + RowBlock - 1) \div RowBlock - 1 :
        b = [target |-> i, r0 |-> RowBlock * n, nr |-> Height(i, RowBlock * n)]
  BY <1>1 DEF RowBlocks
<1>4. n \in Nat /\ RowBlock * n \in Nat
  BY <1>2, <1>3, TimesGrows
<1>5. b.target = i /\ b.r0 = RowBlock * n /\ b.nr = Least(RowBlock, Width(i) - RowBlock * n)
  BY <1>3 DEF Height
<1>6. b.nr \in Int /\ b.nr <= RowBlock /\ b.r0 + b.nr <= Width(i)
  BY <1>2, <1>4, <1>5 DEF Least
<1>7. b = [target |-> b.target, r0 |-> b.r0, nr |-> Least(RowBlock, Width(b.target) - b.r0)]
  BY <1>3, <1>5 DEF Height
<1> QED  BY <1>4, <1>5, <1>6, <1>7

\* Blocks of a call have no element in common.
LEMMA BlocksApart ==
  ASSUME call \in Calls, NEW b \in Blocks, NEW c \in Blocks, Cells(b) \cap Cells(c) # {}
  PROVE  b = c
<1>1. CASE Tiled
  <2>1. PICK o : o \in Cells(b) /\ o \in Cells(c)
    OBVIOUS
  <2>2. PICK s \in 0..call.T-1, j \in 0..b.nr-1 : o = <<b.target, s * Width(b.target) + b.r0 + j>>
    BY <1>1, <2>1 DEF Cells
  <2>3. PICK t \in 0..call.T-1, k \in 0..c.nr-1 : o = <<c.target, t * Width(c.target) + c.r0 + k>>
    BY <1>1, <2>1 DEF Cells
  <2> DEFINE w == Width(b.target)
  <2>4. b.target = c.target /\ s * w + b.r0 + j = t * w + c.r0 + k
    BY <2>2, <2>3
  <2>5. /\ w \in Nat /\ b.r0 \in Nat /\ c.r0 \in Nat
        /\ b.r0 + b.nr <= w /\ c.r0 + c.nr <= w /\ b.nr \in Int /\ c.nr \in Int
        /\ b.nr <= RowBlock /\ c.nr <= RowBlock
    BY <1>1, <2>4, TiledBlock, Arguments
  <2>6. PICK m \in Nat, n \in Nat : b.r0 = RowBlock * m /\ c.r0 = RowBlock * n
    BY <1>1, TiledBlock
  <2>7. b.r0 + j = c.r0 + k
    <3>1. s \in Nat /\ t \in Nat /\ s * w \in Nat /\ t * w \in Nat
      BY <2>5, Arguments, TimesGrows
    <3>2. b.r0 + j \in 0..w-1 /\ c.r0 + k \in 0..w-1
      BY <2>5
    <3>3. s * w + (b.r0 + j) = t * w + (c.r0 + k)
      BY <2>4, <2>5, <3>1
    <3> DEFINE d == b.r0 + j
               e == c.r0 + k
    <3> HIDE DEF w, d, e
    <3>4. d \in 0..w-1 /\ e \in 0..w-1 /\ s * w + d = t * w + e
      BY <3>2, <3>3 DEF d, e
    <3>5. d = e
      BY <2>5, <3>1, <3>4, RestIsUnique
    <3> QED  BY <3>5 DEF d, e
  <2>8. m = n
    <3>1. RowBlock \in Nat
      BY KernelsAssumption DEF KernelsAssumption
    <3>2. j \in 0..RowBlock-1 /\ k \in 0..RowBlock-1
      BY <2>5, <3>1
    <3>3. m * RowBlock + j = n * RowBlock + k
      BY <2>6, <2>7, <3>1
    <3> QED  BY <3>1, <3>2, <3>3, RestIsUnique
  <2> QED  BY <1>1, <2>4, <2>6, <2>8, TiledBlock
<1>2. CASE ~Tiled
  BY <1>2 DEF Cells, Blocks
<1> QED  BY <1>1, <1>2
-----------------------------------------------------------------------------
(* Types, and who has which block                                          *)

\* What a step of the body does to its thread: it goes on with the same block, or is done with it.
Onward(p) ==
  /\ task[p] # Idle /\ task[p] \in Busy
  /\ \E v \in {Idle} \cup Busy :
       task' = [task EXCEPT ![p] = v] /\ (v # Idle => v.block = task[p].block)
\* That is all a step does to it.
LEMMA WorkingGoesOn ==
  ASSUME TypeInv, NEW p \in 0..Threads-1, Working(p)
  PROVE  Onward(p) /\ UNCHANGED <<call, phase, left>>
<1>1. task[p] # Idle /\ task[p] \in Busy /\ task[p].step \in StepsOf
  <2>1. task[p].step # "idle"
    BY DEF Working, Rows, Tile, GemmOut, GemmGate, Int8Out, Residual, Int8Gates, Combine, Rotate, ScoreRows,
           Attend, Norm, At
  <2> QED  BY <2>1 DEF Idle, TypeInv, Busy
<1>2. ASSUME Done(p) PROVE Onward(p)
  BY <1>1, <1>2 DEF Done, Onward
<1>3. ASSUME NEW step \in StepsOf, Go(p, step) PROVE Onward(p)
  <2>1. [task[p] EXCEPT !.step = step] \in Busy
    BY <1>1 DEF Busy
  <2>2. [task[p] EXCEPT !.step = step].block = task[p].block
    BY <1>1 DEF Busy
  <2>3. task' = [task EXCEPT ![p] = [task[p] EXCEPT !.step = step]]
    BY <1>3 DEF Go
  <2> QED  BY <1>1, <2>1, <2>2, <2>3 DEF Onward
<1>4. CASE Rows(p)
  BY <1>2, <1>4 DEF Rows, Write
<1>5. CASE Tile(p)
  BY <1>1, <1>3, <1>5 DEF Tile, Fill, StepsOf
<1>6. CASE GemmOut(p)
  BY <1>2, <1>6 DEF GemmOut, Write
<1>7. CASE GemmGate(p)
  <2>1. Tiled /\ UNCHANGED <<call, phase, left>>
    BY <1>7 DEF GemmGate, Fill, At, Tiled
  <2> DEFINE v == IF task[p].w = 1 THEN [task[p] EXCEPT !.step = "tile", !.w = 2]
                                   ELSE [task[p] EXCEPT !.step = "combine"]
  <2>2. task' = [task EXCEPT ![p] = v]
    BY <1>7 DEF GemmGate
  <2>3. v \in Busy /\ v.block = task[p].block
    BY <1>1, <2>1 DEF Busy, StepsOf
  <2> QED  BY <1>1, <2>1, <2>2, <2>3 DEF Onward
<1>8. CASE Int8Out(p)
  <2>1. Tiled /\ UNCHANGED <<call, phase, left>>
    BY <1>8 DEF Int8Out, Write, At, Tiled
  <2> QED  BY <1>2, <1>3, <1>8, <2>1 DEF Int8Out, StepsOf
<1>9. CASE Residual(p)
  BY <1>2, <1>9 DEF Residual, Write
<1>10. CASE Int8Gates(p)
  BY <1>3, <1>10 DEF Int8Gates, Fill, At, Tiled, StepsOf
<1>11. CASE Combine(p)
  BY <1>2, <1>11 DEF Combine, Write
<1>12. CASE Rotate(p)
  BY <1>1, <1>3, <1>12 DEF Rotate, Fill, StepsOf
<1>13. CASE ScoreRows(p)
  BY <1>1, <1>3, <1>13 DEF ScoreRows, Fill, StepsOf
<1>14. CASE Attend(p)
  BY <1>2, <1>14 DEF Attend, Write
<1>15. CASE Norm(p)
  BY <1>2, <1>15 DEF Norm, Write
<1> QED  BY <1>4, <1>5, <1>6, <1>7, <1>8, <1>9, <1>10, <1>11, <1>12, <1>13, <1>14, <1>15 DEF Working

\* The invariant holds at the start.
LEMMA InvInit == Init => TypeInv /\ Shared
  BY DEF Init, TypeInv, Shared

\* Blocks and steps are of the arguments, which do not change.
LEMMA SameCall == ASSUME call' = call PROVE Blocks' = Blocks /\ Busy' = Busy
  BY DEF Blocks, Busy, StepsOf, RowBlocks, Height, Width, Targets, Tiled

\* Every step keeps the invariant.
LEMMA InvNext == TypeInv /\ Shared /\ [Next]_vars => (TypeInv /\ Shared)'
<1> SUFFICES ASSUME TypeInv, Shared, [Next]_vars PROVE (TypeInv /\ Shared)'
  OBVIOUS
<1>1. ASSUME task' = task, call' = call, phase' \in {"quantize", "blocks", "returned"}, phase # "blocks" \/ phase' = phase,
             phase' = "blocks" => left' \subseteq Blocks, phase = "blocks" => left' = left
      PROVE  (TypeInv /\ Shared)'
  BY <1>1, SameCall DEF TypeInv, Shared
<1>2. CASE Enter
  BY <1>1, <1>2 DEF Enter
<1>3. CASE Quantized
  BY <1>1, <1>3 DEF Quantized
<1>4. CASE Return
  BY <1>4, SameCall DEF Return, TypeInv, Shared
<1>5. CASE UNCHANGED vars
  BY <1>5, SameCall DEF vars, TypeInv, Shared
<1>6. ASSUME NEW p \in 0..Threads-1, NEW t \in 0..MaxBatch-1, QuantizeRow(p, t) PROVE (TypeInv /\ Shared)'
  BY <1>1, <1>6 DEF QuantizeRow
<1>7. ASSUME NEW p \in 0..Threads-1, NEW b \in left, Take(p, b) PROVE (TypeInv /\ Shared)'
  <2> DEFINE v == [step |-> Way(b), block |-> b, w |-> b.target]
  <2>1. b \in Blocks /\ phase = "blocks" /\ left' = left \ {b} /\ UNCHANGED <<call, phase>>
    BY <1>7 DEF Take, TypeInv
  <2>2. task[p] = Idle /\ task' = [task EXCEPT ![p] = v]
    BY <1>7 DEF Take
  <2>3. v \in Busy
    <3>1. Way(b) \in StepsOf
      BY Arguments DEF Way, StepsOf, Tiled, TypeInv
    <3>2. b.target \in Nat
      <4>1. CASE Tiled
        <5>1. b.target \in Targets
          BY <2>1, <4>1, TiledBlock DEF TypeInv
        <5>2. IsCall(call)
          BY KernelsAssumption DEF KernelsAssumption, TypeInv
        <5> QED  BY <5>1, <5>2 DEF Targets, IsCall
      <4>2. CASE ~Tiled
        BY <2>1, <4>2 DEF Blocks
      <4> QED  BY <4>1, <4>2
    <3> QED  BY <2>1, <3>1, <3>2 DEF Busy
  <2>4. TypeInv'
    BY <2>1, <2>2, <2>3, SameCall DEF TypeInv
  <2>5. Shared'
    <3>1. ASSUME NEW q \in 0..Threads-1, task[q] # Idle PROVE task[q].block # b
      BY <1>7, <3>1 DEF Shared
    <3>2. v.block = b /\ task'[p] = v
      BY <2>2 DEF TypeInv
    <3>3. \A q \in 0..Threads-1 : q # p => task'[q] = task[q]
      BY <2>2 DEF TypeInv
    <3> QED  BY <2>1, <3>1, <3>2, <3>3 DEF Shared
  <2> QED  BY <2>4, <2>5
<1>8. ASSUME NEW p \in 0..Threads-1, Working(p) PROVE (TypeInv /\ Shared)'
  <2>1. Onward(p) /\ UNCHANGED <<call, phase, left>>
    BY <1>8, WorkingGoesOn
  <2>2. PICK v \in {Idle} \cup Busy : task' = [task EXCEPT ![p] = v] /\ (v # Idle => v.block = task[p].block)
    BY <2>1 DEF Onward
  <2>3. TypeInv'
    BY <2>1, <2>2, SameCall DEF TypeInv
  <2>4. Shared'
    BY <2>1, <2>2 DEF Shared, TypeInv, Onward
  <2> QED  BY <2>3, <2>4
<1>9. ASSUME NEW p \in DOMAIN task, Step(p) PROVE (TypeInv /\ Shared)'
  <2>1. p \in 0..Threads-1
    BY <1>9 DEF TypeInv
  <2> QED  BY <1>6, <1>7, <1>8, <1>9, <2>1 DEF Step, Working
<1>10. CASE Returned
  BY <1>5, <1>10 DEF Returned
<1>11. Enter \/ Quantized \/ Return \/ Returned \/ (\E p \in DOMAIN task : Step(p)) \/ UNCHANGED vars
  BY DEF Next
<1> QED  BY <1>2, <1>3, <1>4, <1>5, <1>9, <1>10, <1>11

\* In every state of a call, the variables are of their types, and a block has one owner.
LEMMA Invariant == Spec => [](TypeInv /\ Shared)
<1>1. Init => TypeInv /\ Shared
  BY InvInit
<1>2. TypeInv /\ Shared /\ [Next]_vars => (TypeInv /\ Shared)'
  BY InvNext
<1> QED  BY <1>1, <1>2, PTL DEF Spec

\* Threads never work at the same element of an output, with any number of threads and any tiling.
THEOREM ThreadsApart == Spec => []BlocksAreDisjoint
<1>1. TypeInv /\ Shared => BlocksAreDisjoint
  <2> SUFFICES ASSUME TypeInv, Shared, NEW p \in DOMAIN task, NEW q \in DOMAIN task,
                      p # q, task[p] # Idle, task[q] # Idle
               PROVE  Cells(Block(p)) \cap Cells(Block(q)) = {}
    BY DEF BlocksAreDisjoint
  <2>1. p \in 0..Threads-1 /\ q \in 0..Threads-1
    BY DEF TypeInv
  <2>2. Block(p) \in Blocks /\ Block(q) \in Blocks
    BY <2>1 DEF TypeInv, Busy, Block
  <2>3. Block(p) # Block(q)
    BY <2>1 DEF Shared, Block
  <2> QED  BY <2>2, <2>3, BlocksApart DEF TypeInv
<1> QED  BY <1>1, Invariant, PTL
-----------------------------------------------------------------------------
(* The scratch                                                             *)

\* A thread's part is as long as the largest thing a kernel lays out in it.
LEMMA Sizes ==
  /\ PerThread \in Nat /\ HeadDim \in Nat
  /\ RowBlock * MaxK + 2 * (MaxBatch * RowBlock) <= PerThread
  /\ MaxCtx + HeadDim <= PerThread
<1>1. /\ RowBlock \in Nat /\ MaxK \in Nat /\ MaxBatch \in Nat /\ MaxCtx \in Nat /\ HeadDim \in Nat
      /\ Slack \in Nat
  BY KernelsAssumption DEF KernelsAssumption
<1>2. RowBlock * MaxK \in Nat /\ MaxBatch * RowBlock \in Nat
  BY <1>1, TimesGrows
<1>3. 2 * MaxBatch * RowBlock = 2 * (MaxBatch * RowBlock)
  BY <1>1
<1> QED  BY <1>1, <1>2, <1>3 DEF PerThread, ScratchFloats, Greatest

\* An offset into a thread's part, below its length, is an address of the part.
LEMMA InPart ==
  ASSUME NEW p \in Nat, NEW S, \A a \in S : a \in Int /\ Deq(p) <= a /\ a < Deq(p) + PerThread
  PROVE  S \subseteq Own(p) /\ Deq(p) \in Nat
<1>1. PerThread \in Nat /\ p * PerThread \in Nat
  BY Sizes, TimesGrows
<1>2. (p + 1) * PerThread = p * PerThread + PerThread
  BY <1>1
<1> QED  BY <1>1, <1>2 DEF Own, Deq

\* What a step writes of the scratch is its thread's, for any sizes of the session.
LEMMA RoomIsOwn == TypeInv => StaysInOwnScratch
<1> SUFFICES ASSUME TypeInv, NEW p \in DOMAIN task, task[p] # Idle
             PROVE  Room(p) \subseteq Own(p)
  BY DEF StaysInOwnScratch
<1>1. p \in Nat /\ task[p] \in Busy
  BY DEF TypeInv
<1>2. Block(p) \in Blocks /\ task[p].step \in StepsOf /\ call \in Calls
  BY <1>1 DEF Busy, Block, TypeInv
<1>3. Deq(p) \in Nat
  BY <1>1, Sizes, TimesGrows DEF Deq
<1> DEFINE b == Block(p)
           cols == call.T * RowBlock
           rows == RowBlock * call.K
<1>4. ASSUME Tiled
      PROVE  /\ rows \in Nat /\ cols \in Nat /\ rows + 2 * cols <= PerThread
             /\ call.K \in Nat /\ call.T \in Nat /\ RowBlock \in Nat
  <2>1. call.K \in Nat /\ call.K <= MaxK /\ call.T \in Nat /\ call.T <= MaxBatch
    BY <1>2, <1>4, Arguments DEF Tiled
  <2>2. RowBlock \in Nat /\ MaxK \in Nat /\ MaxBatch \in Nat
    BY KernelsAssumption DEF KernelsAssumption
  <2>3. rows \in Nat /\ rows <= RowBlock * MaxK /\ RowBlock * MaxK \in Nat
    BY <2>1, <2>2, TimesGrows
  <2>4. cols \in Nat /\ cols <= MaxBatch * RowBlock /\ MaxBatch * RowBlock \in Nat
    BY <2>1, <2>2, TimesGrows
  <2> QED  BY <2>1, <2>2, <2>3, <2>4, Sizes
<1>5. CASE task[p].step = "tile"
  <2>1. Tiled
    BY <1>2, <1>5 DEF StepsOf
  <2>2. b.nr \in Int /\ b.nr <= RowBlock
    BY <1>2, <2>1, TiledBlock
  <2>3. ASSUME NEW a \in Room(p) PROVE a \in Int /\ Deq(p) <= a /\ a < Deq(p) + PerThread
    <3>1. a \in Deq(p) .. Deq(p) + b.nr * call.K - 1
      BY <1>5, <2>3 DEF Room, At
    <3>2. b.nr * call.K <= rows
      <4>1. CASE b.nr \in Nat
        BY <1>4, <2>1, <2>2, <4>1, TimesGrows
      <4>2. CASE b.nr < 0
        <5>1. PICK n \in Nat : b.nr = -n
          <6>1. -b.nr \in Nat /\ b.nr = -(-b.nr)
            BY <2>2, <4>2
          <6> QED  BY <6>1
        <5>2. n * call.K \in Nat /\ b.nr * call.K = -(n * call.K)
          BY <1>4, <2>1, <5>1, TimesGrows
        <5> QED  BY <1>4, <2>1, <5>2
      <4> QED  BY <2>2, <4>1, <4>2
    <3>3. b.nr * call.K \in Int
      BY <1>4, <2>1, <2>2
    <3> HIDE DEF b, rows, cols
    <3> QED  BY <1>3, <1>4, <2>1, <3>1, <3>2, <3>3, Sizes
  <2> QED  BY <1>1, <2>3, InPart
<1>6. ASSUME Tiled, NEW a \in Columns(b, G(p)) \cup Columns(b, U(p))
      PROVE  a \in Int /\ Deq(p) <= a /\ a < Deq(p) + PerThread
  <2>1. PICK g \in {G(p), U(p)}, t \in 0..call.T-1, j \in 0..b.nr-1 : a = g + t * RowBlock + j
    BY <1>6 DEF Columns
  <2>2. b.nr \in Int /\ b.nr <= RowBlock
    BY <1>2, <1>6, TiledBlock
  <2>3. t \in Nat /\ t * RowBlock \in Nat /\ t * RowBlock + RowBlock <= cols
    <3>1. (t + 1) * RowBlock <= cols
      BY <1>4, <1>6, TimesGrows
    <3>2. (t + 1) * RowBlock = t * RowBlock + RowBlock /\ t * RowBlock \in Nat
      BY <1>4, <1>6, TimesGrows
    <3> QED  BY <1>4, <1>6, <3>1, <3>2
  <2>4. g \in {Deq(p) + rows, Deq(p) + rows + cols}
    BY <2>1 DEF G, U
  <2> HIDE DEF rows, cols
  <2> QED  BY <1>3, <1>4, <1>6, <2>1, <2>2, <2>3, <2>4, Sizes
<1>7. CASE At(p, "swiglu", "gemm") \/ At(p, "swiglu", "int8")
  <2>1. Tiled /\ Room(p) \subseteq Columns(b, G(p)) \cup Columns(b, U(p))
    BY <1>7 DEF At, Tiled, Room
  <2> QED  BY <1>1, <1>6, <2>1, InPart
<1>8. CASE task[p].step = "rotate"
  <2>1. Room(p) = Deq(p) .. Deq(p) + HeadDim - 1
    BY <1>8 DEF Room, At
  <2>2. HeadDim <= PerThread /\ PerThread \in Nat /\ HeadDim \in Nat
    BY Sizes, KernelsAssumption DEF KernelsAssumption
  <2>3. \A a \in Room(p) : a \in Int /\ Deq(p) <= a /\ a < Deq(p) + PerThread
    BY <1>3, <2>1, <2>2
  <2> QED  BY <1>1, <2>3, InPart
<1>9. CASE task[p].step = "score"
  <2>1. call.kernel = "attention" /\ ~Tiled
    BY <1>2, <1>9 DEF StepsOf, Tiled
  <2>2. /\ call.T \in Nat /\ call.pos0 \in Nat /\ call.pos0 + call.T <= MaxCtx
        /\ call.heads \in Nat \ {0}
    BY <1>2, <2>1, Arguments
  <2>3. b.r0 \in 0 .. call.T * call.heads - 1
    BY <1>2, <2>1 DEF Blocks, Width
  <2>4. b.r0 \div call.heads \in 0 .. call.T - 1
    BY <2>2, <2>3, TokenOfItem
  <2>5. Room(p) = Deq(p) + HeadDim .. Deq(p) + HeadDim + call.pos0 + b.r0 \div call.heads
    BY <1>9, <2>1 DEF Room, At, Scores
  <2> DEFINE d == b.r0 \div call.heads
  <2>6. \A a \in Room(p) : a \in Int /\ Deq(p) <= a /\ a < Deq(p) + PerThread
    <3>1. d \in 0 .. call.T - 1 /\ Room(p) = Deq(p) + HeadDim .. Deq(p) + HeadDim + call.pos0 + d
      BY <2>4, <2>5
    <3>2. MaxCtx \in Nat
      BY KernelsAssumption DEF KernelsAssumption
    <3> HIDE DEF d
    <3> QED  BY <1>3, <2>2, <3>1, <3>2, Sizes, SMTT(40)
  <2> QED  BY <1>1, <2>6, InPart
<1>10. CASE ~(\/ task[p].step \in {"tile", "rotate", "score"}
             \/ At(p, "swiglu", "gemm") \/ At(p, "swiglu", "int8"))
  BY <1>10 DEF Room
<1> QED  BY <1>5, <1>7, <1>8, <1>9, <1>10

\* No kernel ever writes another thread's part of the scratch, for any sizes of the session.
THEOREM ScratchIsEnough == Spec => []StaysInOwnScratch
  BY RoomIsOwn, Invariant, PTL
-----------------------------------------------------------------------------
(* What the buffers hold while a block is worked at                        *)

\* The gate and up weights of a file are both quantized or both not, as the exporter writes them.
GatesAlike ==
  \A c \in Calls : c.kernel = "swiglu" => (c.w[1].type = "f32" <=> c.w[2].type = "f32")

\* Row t of x can be read back from the buffers.
RowRead(t) == Fetched(t) = Rounded(t)
\* The rows of weight i from r0 on are in the scratch of thread p, unless they need not be.
TileIn(p, i, r0, nr) ==
  call.w[i].type # "f32" =>
    \A j \in 0..nr-1, k \in 0..call.K-1 : Peek(scratch, Deq(p) + (j * call.K + k)) = WeightRow(i, r0 + j)[k]
\* The products with those rows are in the scratch, from address a on.
ProductsIn(a, i, r0, nr) ==
  \A t \in 0..call.T-1, j \in 0..nr-1 : Peek(scratch, a + (t * RowBlock + j)) = RefDot(i, t, r0 + j)
\* The outputs of block b are the products, to which no residual is added yet.
ProductsOut(b) ==
  \A o \in Cells(b) \cap Outputs : y[o] = RefDot(o[1], o[2] \div Width(o[1]), o[2] % Width(o[1]))
Finished(b) == \A o \in Cells(b) \cap Outputs : y[o] = Ref(o[1], o[2])

MatmulHeld(p) ==
  LET s == task[p].step
      b == task[p].block
  IN  /\ s \in {"int8", "residual", "rows", "tile", "gemm"} /\ task[p].w = b.target
      /\ s \in {"int8", "residual"} <=> Int8(b.target)
      /\ s = "gemm" => TileIn(p, b.target, b.r0, b.nr)
      /\ s = "residual" => call.res[b.target] /\ ProductsOut(b)
SwigluHeld(p) ==
  LET s == task[p].step
      b == task[p].block
      w == task[p].w
  IN  /\ s \in {"int8", "rows", "tile", "gemm", "combine"} /\ w \in {1, 2}
      /\ s = "int8" => Int8(1)
      /\ s \in {"rows", "tile", "gemm"} => ~Int8(1)
      /\ s = "gemm" => TileIn(p, w, b.r0, b.nr)
      /\ (s \in {"tile", "gemm"} /\ w = 2) \/ s = "combine" => ProductsIn(G(p), 1, b.r0, b.nr)
      /\ s = "combine" => ProductsIn(U(p), 2, b.r0, b.nr)
AttentionHeld(p) ==
  LET s == task[p].step
      t == task[p].block.r0 \div call.heads
      h == task[p].block.r0 % call.heads
  IN  /\ s = "score" /\ call.rope =>
           \A i \in 0..HeadDim-1 : Peek(scratch, Deq(p) + i) = Query(t, h, call.rope)[i]
      /\ s = "rotate" => call.rope
      /\ s = "attend" =>
           \A j \in 0..call.pos0+t : Peek(scratch, Scores(p) + j) = Score(Query(t, h, call.rope), h \div call.grp, j)
Held(p) ==
  /\ call.kernel = "matmul" => MatmulHeld(p)
  /\ call.kernel = "swiglu" => SwigluHeld(p)
  /\ call.kernel = "attention" => AttentionHeld(p)

Sized ==
  /\ DOMAIN scratch = 0 .. Threads * PerThread - 1 /\ DOMAIN y = Outputs
  /\ DOMAIN actq = 0 .. MaxBatch * MaxK - 1 /\ DOMAIN actd = 0 .. MaxBatch * (MaxK \div ActBlock + 1) - 1
RowsRead ==
  /\ phase = "quantize" => Quantizes /\ left \subseteq 0..call.T-1 /\ \A t \in (0..call.T-1) \ left : RowRead(t)
  /\ phase \in {"blocks", "returned"} /\ Quantizes => \A t \in 0..call.T-1 : RowRead(t)
\* A block is left, or a thread is at it, or its outputs are the reference's.
NoneLost ==
  phase \in {"blocks", "returned"} =>
    \A b \in Blocks : \/ b \in left
                      \/ \E p \in 0..Threads-1 : task[p] # Idle /\ task[p].block = b
                      \/ Finished(b)
ValueInv ==
  /\ Sized /\ RowsRead /\ NoneLost
  /\ \A p \in 0..Threads-1 : task[p] # Idle => Held(p)
  /\ phase = "returned" => left = {}
-----------------------------------------------------------------------------
(* Reading what was written                                                *)

\* Storing a function stores its values where the memory has room, and nothing else.
LEMMA PeekStored ==
  ASSUME NEW mem, NEW f, NEW a
  PROVE  /\ a \in DOMAIN f /\ a \in DOMAIN mem => Peek(Stored(mem, f), a) = f[a]
         /\ a \notin DOMAIN f => Peek(Stored(mem, f), a) = Peek(mem, a)
         /\ DOMAIN Stored(mem, f) = DOMAIN mem
  BY DEF Peek, Stored

\* Division finds the two parts of a sum again.
LEMMA DivMod ==
  ASSUME NEW w \in Nat, NEW t \in Nat, NEW a \in 0..w-1
  PROVE  (t * w + a) \div w = t /\ (t * w + a) % w = a
<1> DEFINE n == t * w + a
<1>1. w \in Nat \ {0} /\ t * w \in Nat /\ n \in Nat
  BY TimesGrows
<1> HIDE DEF n
<1>2. n \div w \in Nat /\ n % w \in 0..w-1 /\ n = (n \div w) * w + (n % w)
  BY <1>1
<1>3. n = t * w + a
  BY DEF n
<1>4. (n \div w) * w + (n % w) = t * w + a
  BY <1>2, <1>3
<1>5. n \div w = t /\ n % w = a
  <2> DEFINE s == n \div w
             b == n % w
  <2>1. s \in Nat /\ b \in 0..w-1 /\ s * w + b = t * w + a
    BY <1>2, <1>4
  <2> HIDE DEF s, b
  <2>2. s = t /\ b = a
    BY <2>1, RestIsUnique
  <2> QED  BY <2>2 DEF s, b
<1> QED  BY <1>5 DEF n

\* The token and the row of an element of a block.
LEMMA CellParts ==
  ASSUME call \in Calls, Tiled, NEW b \in Blocks, NEW o \in Cells(b)
  PROVE  /\ o[1] = b.target
         /\ \E t \in 0..call.T-1, j \in 0..b.nr-1 :
              /\ o = <<b.target, t * Width(b.target) + b.r0 + j>>
              /\ o[2] \div Width(o[1]) = t /\ o[2] % Width(o[1]) = b.r0 + j
<1>1. PICK t \in 0..call.T-1, j \in 0..b.nr-1 : o = <<b.target, t * Width(b.target) + b.r0 + j>>
  BY DEF Cells
<1> DEFINE w == Width(b.target)
           r == b.r0 + j
<1>2. /\ w \in Nat \ {0} /\ b.r0 \in Nat /\ b.nr \in Int /\ b.r0 + b.nr <= w
  BY TiledBlock, Arguments
<1>3. t \in Nat /\ r \in 0..w-1 /\ t * w \in Nat
  BY <1>2, Arguments, TimesGrows
<1>4. t * w + b.r0 + j = t * w + r
  BY <1>2, <1>3
<1> HIDE DEF w, r
<1>5. (t * w + r) \div w = t /\ (t * w + r) % w = r
  BY <1>2, <1>3, DivMod
<1>6. o[1] = b.target /\ o[2] = t * w + r
  BY <1>1, <1>4 DEF w
<1>7. o[2] \div w = t /\ o[2] % w = r
  BY <1>5, <1>6
<1> QED  BY <1>1, <1>6, <1>7 DEF w, r

\* The largest multiple of l that is not above n.
LEMMA Multiple ==
  ASSUME NEW n \in Int, NEW l \in Nat \ {0}
  PROVE  (n \div l) * l \in Int /\ (n \div l) * l <= n /\ (n \in Nat => (n \div l) * l \in Nat)
<1> DEFINE q == n \div l
<1>1. q \in Int /\ n = l * q + (n % l) /\ n % l \in 0..l-1
  OBVIOUS
<1>2. l * q = q * l /\ q * l \in Int
  BY <1>1
<1>3. n \in Nat => q \in Nat
  OBVIOUS
<1>4. n \in Nat => q * l \in Nat
  BY <1>3, TimesGrows
<1> QED  BY <1>1, <1>2, <1>4

\* The blocks of r rows that begin below w.
LEMMA BlockBegins ==
  ASSUME NEW w \in Nat, NEW r \in Nat \ {0}, NEW n \in Nat
  PROVE  n \in 0 .. (w + r - 1) \div r - 1 <=> r * n < w
<1> DEFINE v == w + r - 1
           e == v \div r
           f == v % r
<1>1. v \in Nat
  OBVIOUS
<1>2. e \in Nat /\ f \in 0..r-1 /\ v = r * e + f
  <2> HIDE DEF v
  <2> QED  BY <1>1
<1> HIDE DEF e, f
<1>3. r * e \in Nat /\ r * n \in Nat
  BY <1>2, TimesGrows
<1>4. ASSUME n < e PROVE r * n < w
  <2>1. r * (n + 1) <= r * e
    BY <1>2, <1>4, TimesGrows
  <2>2. r * (n + 1) = r * n + r
    OBVIOUS
  <2> QED  BY <1>2, <1>3, <2>1, <2>2
<1>5. ASSUME e <= n PROVE ~(r * n < w)
  <2>1. r * e <= r * n
    BY <1>2, <1>5, TimesGrows
  <2> QED  BY <1>2, <1>3, <2>1
<1>6. n \in 0..e-1 <=> n < e
  BY <1>2
<1> QED  BY <1>2, <1>4, <1>5, <1>6 DEF e

\* A block is never empty.
LEMMA BlockIsThere ==
  ASSUME call \in Calls, Tiled, NEW b \in Blocks
  PROVE  b.nr \in Nat \ {0}
<1>1. PICK i \in Targets : b \in RowBlocks(i)
  BY DEF Blocks
<1>2. RowBlock \in Nat \ {0} /\ Width(i) \in Nat \ {0}
  BY Arguments, KernelsAssumption DEF KernelsAssumption
<1>3. PICK n \in 0 .. (Width(i) + RowBlock - 1) \div RowBlock - 1 :
        b = [target |-> i, r0 |-> RowBlock * n, nr |-> Height(i, RowBlock * n)]
  BY <1>1 DEF RowBlocks
<1>4. n \in Nat /\ RowBlock * n \in Nat
  BY <1>2, <1>3, TimesGrows
<1>5. RowBlock * n < Width(i)
  BY <1>2, <1>3, <1>4, BlockBegins
<1>6. b.nr = Least(RowBlock, Width(i) - RowBlock * n)
  BY <1>3 DEF Height
<1> QED  BY <1>2, <1>4, <1>5, <1>6 DEF Least

\* The three parts of a register-blocked product are all of it.
LEMMA GemmIsAll ==
  ASSUME call \in Calls, NEW nr \in Nat
  PROVE  Gemm(nr) = (0..call.T-1) \X (0..nr-1)
<1> DEFINE tokens == IF call.simd THEN (call.T \div Lanes) * Lanes ELSE 0
           rows == (nr \div Lanes) * Lanes
<1>1. Lanes \in Nat \ {0} /\ call.T \in Nat
  BY KernelsAssumption, Arguments DEF KernelsAssumption
<1>2. rows \in Nat /\ rows <= nr
  BY <1>1, Multiple
<1>3. tokens \in Nat /\ tokens <= call.T
  <2>1. (call.T \div Lanes) * Lanes \in Nat /\ (call.T \div Lanes) * Lanes <= call.T
    BY <1>1, Multiple
  <2> QED  BY <1>1, <2>1
<1>4. Gemm(nr) = ((0..tokens-1) \X (0..rows-1)) \cup ((0..tokens-1) \X (rows..nr-1)) \cup ((tokens..call.T-1) \X (0..nr-1))
  BY DEF Gemm
<1> DEFINE T == call.T
<1>5. T \in Nat /\ tokens <= T
  BY <1>1, <1>3
<1> HIDE DEF tokens, rows, T
<1>6. 0..nr-1 = (0..rows-1) \cup (rows..nr-1)
  BY <1>2
<1>7. 0..T-1 = (0..tokens-1) \cup (tokens..T-1)
  BY <1>3, <1>5
<1> DEFINE A == 0..tokens-1
           B == tokens..T-1
           C == 0..rows-1
           D == rows..nr-1
<1>8. Gemm(nr) = (A \X C) \cup (A \X D) \cup (B \X (C \cup D))
  BY <1>4, <1>6 DEF T
<1> HIDE DEF A, B, C, D
<1>9. (A \X C) \cup (A \X D) \cup (B \X (C \cup D)) = (A \cup B) \X (C \cup D)
  OBVIOUS
<1> QED  BY <1>6, <1>7, <1>8, <1>9 DEF A, B, C, D, T

\* Every element of an output is in a block.
LEMMA BlocksCover ==
  ASSUME call \in Calls, NEW o \in Outputs
  PROVE  \E b \in Blocks : o \in Cells(b)
<1>0. PICK i \in Targets : o \in {i} \X (0 .. call.T * Width(i) - 1)
  BY DEF Outputs
<1>1. PICK n \in 0 .. call.T * Width(i) - 1 : o = <<i, n>>
  BY <1>0
<1> DEFINE w == Width(i)
           t == n \div w
           r == n % w
<1>2. w \in Nat \ {0} /\ call.T \in Nat /\ RowBlock \in Nat \ {0}
  BY Arguments, KernelsAssumption DEF KernelsAssumption
<1>3. n \in Nat /\ n = t * w + r /\ r \in 0..w-1 /\ t \in 0..call.T-1
  <2>1. n \in 0 .. call.T * w - 1 /\ n \in Nat
    BY <1>1
  <2> HIDE DEF w
  <2>2. t \in 0..call.T-1
    BY <1>2, <2>1, TokenOfItem
  <2>3. n = t * w + r /\ r \in 0..w-1
    BY <1>2, <2>1
  <2> QED  BY <2>1, <2>2, <2>3
<1>4. CASE Tiled
  <2> DEFINE m == r \div RowBlock
             j == r % RowBlock
             c == [target |-> i, r0 |-> RowBlock * m, nr |-> Height(i, RowBlock * m)]
  <2>1. m \in Nat /\ j \in 0..RowBlock-1 /\ r = RowBlock * m + j /\ RowBlock * m \in Nat
    <3>1. r \in Nat
      BY <1>3
    <3> HIDE DEF r
    <3>2. m \in Nat /\ j \in 0..RowBlock-1 /\ r = RowBlock * m + j
      BY <1>2, <3>1
    <3> QED  BY <1>2, <3>2, TimesGrows
  <2>2. m \in 0 .. (w + RowBlock - 1) \div RowBlock - 1
    <3>1. RowBlock * m < w
      BY <1>2, <1>3, <2>1
    <3> HIDE DEF m, w
    <3> QED  BY <1>2, <2>1, <3>1, BlockBegins
  <2>3. c \in RowBlocks(i) /\ c \in Blocks
    <3>1. m \in 0 .. (Width(i) + RowBlock - 1) \div RowBlock - 1
      BY <2>2
    <3> HIDE DEF m
    <3>2. c \in RowBlocks(i)
      BY <3>1 DEF RowBlocks
    <3> QED  BY <1>4, <3>2 DEF Blocks
  <2>4. j \in 0..c.nr-1 /\ c.r0 = RowBlock * m /\ c.target = i
    <3> HIDE DEF m, j, w, r
    <3> QED  BY <1>2, <1>3, <2>1 DEF Height, Least, w
  <2>5. n = t * w + c.r0 + j
    <3>1. t * w \in Nat
      BY <1>2, <1>3, TimesGrows
    <3> HIDE DEF m, j, w, r, t
    <3> QED  BY <1>3, <2>1, <2>4, <3>1
  <2>6. o = <<c.target, t * Width(c.target) + c.r0 + j>>
    BY <1>1, <2>4, <2>5
  <2>7. o \in Cells(c)
    BY <1>3, <1>4, <2>4, <2>6 DEF Cells
  <2> QED  BY <2>3, <2>7
<1>5. CASE ~Tiled
  <2>1. i = 1
    BY <1>1, <1>5 DEF Targets, Tiled
  <2>2. [target |-> 1, r0 |-> n, nr |-> 1] \in Blocks
    BY <1>1, <1>5, <2>1 DEF Blocks
  <2>3. o \in Cells([target |-> 1, r0 |-> n, nr |-> 1])
    BY <1>1, <1>5, <2>1 DEF Cells
  <2> QED  BY <2>2, <2>3
<1> QED  BY <1>4, <1>5
-----------------------------------------------------------------------------
(* What is to be in the outputs                                            *)

\* What the reference kernels put at an element, kernel by kernel.
LEMMA Reference ==
  ASSUME NEW i, NEW n
  PROVE  LET t == n \div Width(i)
             r == n % Width(i)
         IN  /\ call.kernel = "matmul" => Ref(i, n) = Plus(RefDot(i, t, r), i, n)
             /\ call.kernel = "swiglu" => Ref(i, n) = Gated(RefDot(1, t, r), RefDot(2, t, r))
             /\ call.kernel = "attention" =>
                  Ref(i, n) = Attended([j \in 0..call.pos0+t |-> Score(Query(t, r, call.rope), r \div call.grp, j)],
                                       r \div call.grp)
             /\ call.kernel = "rmsnorm" => Ref(i, n) = <<"rmsnorm", X(t)>>
<1>1. CASE call.kernel = "matmul"
  BY <1>1 DEF Ref
<1>2. CASE call.kernel = "swiglu"
  BY <1>2 DEF Ref
<1>3. CASE call.kernel = "attention"
  BY <1>3 DEF Ref
<1>4. CASE call.kernel = "rmsnorm"
  BY <1>4 DEF Ref
<1> QED  BY <1>1, <1>2, <1>3, <1>4

\* The weight whose type says how a call reads its rows: swiglu's gate says it for both.
Says(i) == IF call.kernel = "swiglu" THEN 1 ELSE i
Weights == IF call.kernel = "swiglu" THEN {1, 2} ELSE Targets
\* A block's way of reading the rows is the reference's, for each of its weights.
LEMMA ProductIsRef ==
  ASSUME GatesAlike, call \in Calls, Tiled, NEW i \in Weights, NEW t, NEW r
  PROVE  /\ Int8(Says(i)) => RefDot(i, t, r) = Dot(Rounded(t), WeightRow(i, r))
         /\ ~Int8(Says(i)) => RefDot(i, t, r) = Dot(X(t), WeightRow(i, r))
<1>1. Int8(Says(i)) <=> (call.act /\ Applies(i))
  <2>1. CASE call.kernel = "matmul"
    BY <2>1 DEF Int8, Says, Quantizes, Weights
  <2>2. CASE call.kernel = "swiglu"
    <3>1. Applies(1) <=> Applies(2)
      BY <2>2 DEF Applies, GatesAlike
    <3>2. i \in {1, 2}
      BY <2>2 DEF Weights
    <3>3. Applies(i) <=> Applies(1)
      BY <3>1, <3>2
    <3> QED  BY <2>2, <3>1, <3>3 DEF Int8, Says, Quantizes
  <2> QED  BY <2>1, <2>2 DEF Tiled
<1>2. IsCall(call)
  BY KernelsAssumption DEF KernelsAssumption
<1> QED  BY <1>1, <1>2 DEF RefDot, IsCall

\* A row of a tile is a row of its weight.
LEMMA TileRowIs ==
  ASSUME NEW p, NEW i, NEW r0, NEW nr, TileIn(p, i, r0, nr), NEW j \in 0..nr-1,
         p \in 0..Threads-1, call.K \in Nat, nr \in Nat
  PROVE  TileRow(p, i, r0, j) = WeightRow(i, r0 + j)
<1>1. CASE call.w[i].type = "f32"
  BY <1>1 DEF TileRow
<1>2. CASE call.w[i].type # "f32"
  <2>1. TileRow(p, i, r0, j) = [k \in 0..call.K-1 |-> Peek(scratch, Deq(p) + j * call.K + k)]
    BY <1>2 DEF TileRow
  <2>2. ASSUME NEW k \in 0..call.K-1
        PROVE  Peek(scratch, Deq(p) + j * call.K + k) = WeightRow(i, r0 + j)[k]
    <3>1. Deq(p) \in Nat
      BY Sizes, TimesGrows DEF Deq
    <3>2. j * call.K \in Nat
      BY TimesGrows
    <3>3. Deq(p) + j * call.K + k = Deq(p) + (j * call.K + k)
      BY <3>1, <3>2
    <3> QED  BY <1>2, <3>3 DEF TileIn
  <2>3. WeightRow(i, r0 + j) = [k \in 0..call.K-1 |-> WeightRow(i, r0 + j)[k]]
    BY DEF WeightRow
  <2> QED  BY <2>1, <2>2, <2>3
<1> QED  BY <1>1, <1>2
-----------------------------------------------------------------------------
(* Where things are in the scratch                                         *)

\* Threads' parts of the scratch have no address in common.
LEMMA OwnApart ==
  ASSUME NEW p \in 0..Threads-1, NEW q \in 0..Threads-1, p # q
  PROVE  Own(p) \cap Own(q) = {}
<1>1. ASSUME NEW u \in 0..Threads-1, NEW v \in 0..Threads-1, u < v PROVE Own(u) \cap Own(v) = {}
  <2>1. PerThread \in Nat
    BY Sizes
  <2>2. (u + 1) * PerThread <= v * PerThread
    BY <1>1, <2>1, TimesGrows
  <2>3. (u + 1) * PerThread \in Nat /\ v * PerThread \in Nat
    BY <2>1, TimesGrows
  <2> QED  BY <2>2, <2>3 DEF Own
<1> QED  BY <1>1

\* The part of a thread, counted from its beginning.
LEMMA OwnIs ==
  ASSUME NEW p \in 0..Threads-1
  PROVE  /\ Own(p) = Deq(p) .. Deq(p) + PerThread - 1 /\ Deq(p) \in Nat
         /\ Own(p) \subseteq 0 .. Threads * PerThread - 1
<1> DEFINE next == (p + 1) * PerThread
           all == Threads * PerThread
           own == p * PerThread
<1>1. PerThread \in Nat /\ Threads \in Nat
  BY Sizes, KernelsAssumption DEF KernelsAssumption
<1>2. next <= all /\ own \in Nat /\ all \in Nat /\ next \in Nat
  BY <1>1, TimesGrows
<1>3. next = own + PerThread
  BY <1>1
<1>4. Own(p) = own .. next - 1 /\ Deq(p) = own
  BY DEF Own, Deq
<1> HIDE DEF next, own, all
<1>5. Own(p) = Deq(p) .. Deq(p) + PerThread - 1 /\ Deq(p) \in Nat /\ Own(p) \subseteq 0 .. all - 1
  BY <1>1, <1>2, <1>3, <1>4
<1> QED  BY <1>5 DEF all

\* The tile, the products of the first weight and those of the second follow each other.
LEMMA TiledLayout ==
  ASSUME call \in Calls, Tiled, NEW p \in 0..Threads-1
  PROVE  /\ Deq(p) \in Nat /\ G(p) \in Nat /\ U(p) \in Nat
         /\ RowBlock \in Nat \ {0} /\ call.K \in Nat \ {0} /\ call.T \in Nat \ {0}
         /\ \A j \in 0..RowBlock-1, k \in 0..call.K-1 :
              /\ j * call.K + k \in Nat
              /\ Deq(p) + (j * call.K + k) < G(p) /\ Deq(p) + (j * call.K + k) \in Own(p)
         /\ \A t \in 0..call.T-1, j \in 0..RowBlock-1 :
              /\ t * RowBlock + j \in Nat
              /\ G(p) + (t * RowBlock + j) < U(p) /\ G(p) + (t * RowBlock + j) \in Own(p)
              /\ U(p) + (t * RowBlock + j) \in Own(p)
<1> DEFINE rows == RowBlock * call.K
           cols == call.T * RowBlock
<1>1. call.K \in Nat \ {0} /\ call.K <= MaxK /\ call.T \in Nat \ {0} /\ call.T <= MaxBatch
  BY Arguments DEF Tiled
<1>2. RowBlock \in Nat \ {0} /\ MaxK \in Nat /\ MaxBatch \in Nat
  BY KernelsAssumption DEF KernelsAssumption
<1>3. rows \in Nat /\ rows <= RowBlock * MaxK /\ RowBlock * MaxK \in Nat
  BY <1>1, <1>2, TimesGrows
<1>4. cols \in Nat /\ cols <= MaxBatch * RowBlock /\ MaxBatch * RowBlock \in Nat
  BY <1>1, <1>2, TimesGrows
<1>5. Deq(p) \in Nat /\ G(p) = Deq(p) + rows /\ U(p) = Deq(p) + rows + cols
  BY <1>3, <1>4, Sizes, TimesGrows DEF Deq, G, U
<1>6. rows + 2 * cols <= PerThread /\ PerThread \in Nat
  BY <1>3, <1>4, Sizes
<1>7. Own(p) = Deq(p) .. Deq(p) + PerThread - 1
  BY OwnIs
<1>8. ASSUME NEW j \in 0..RowBlock-1, NEW k \in 0..call.K-1 PROVE j * call.K + k \in Nat /\ j * call.K + k < rows
  <2>1. (j + 1) * call.K <= rows /\ j * call.K \in Nat
    BY <1>1, <1>2, TimesGrows
  <2>2. (j + 1) * call.K = j * call.K + call.K
    BY <1>1
  <2> QED  BY <1>1, <1>3, <2>1, <2>2
<1>9. ASSUME NEW t \in 0..call.T-1, NEW j \in 0..RowBlock-1 PROVE t * RowBlock + j \in Nat /\ t * RowBlock + j < cols
  <2>1. (t + 1) * RowBlock <= cols /\ t * RowBlock \in Nat
    BY <1>1, <1>2, TimesGrows
  <2>2. (t + 1) * RowBlock = t * RowBlock + RowBlock
    BY <1>2
  <2> QED  BY <1>2, <1>4, <2>1, <2>2
<1> HIDE DEF rows, cols
<1>10. ASSUME NEW j \in 0..RowBlock-1, NEW k \in 0..call.K-1
       PROVE  Deq(p) + (j * call.K + k) < G(p) /\ Deq(p) + (j * call.K + k) \in Own(p)
  <2> DEFINE n == j * call.K + k
  <2>1. n \in Nat /\ n < rows
    BY <1>8
  <2> HIDE DEF n
  <2>2. Deq(p) + n < G(p) /\ Deq(p) + n \in Own(p)
    BY <1>3, <1>4, <1>5, <1>6, <1>7, <2>1
  <2> QED  BY <2>2 DEF n
<1>11. ASSUME NEW t \in 0..call.T-1, NEW j \in 0..RowBlock-1
       PROVE  /\ G(p) + (t * RowBlock + j) < U(p) /\ G(p) + (t * RowBlock + j) \in Own(p)
              /\ U(p) + (t * RowBlock + j) \in Own(p)
  <2> DEFINE n == t * RowBlock + j
  <2>1. n \in Nat /\ n < cols
    BY <1>9
  <2> HIDE DEF n
  <2>2. G(p) + n < U(p) /\ G(p) + n \in Own(p) /\ U(p) + n \in Own(p)
    BY <1>3, <1>4, <1>5, <1>6, <1>7, <2>1, SMTT(40)
  <2> QED  BY <2>2 DEF n
<1>12. G(p) \in Nat /\ U(p) \in Nat
  BY <1>3, <1>4, <1>5
<1> QED  BY <1>1, <1>2, <1>5, <1>8, <1>9, <1>10, <1>11, <1>12

\* The rotated query is followed by the scores.
LEMMA AttentionLayout ==
  ASSUME call \in Calls, call.kernel = "attention", NEW p \in 0..Threads-1, NEW t \in 0..call.T-1
  PROVE  /\ Deq(p) \in Nat /\ HeadDim \in Nat /\ Scores(p) = Deq(p) + HeadDim /\ call.pos0 \in Nat
         /\ \A i \in 0..HeadDim-1 : Deq(p) + i \in Own(p)
         /\ \A j \in 0..call.pos0+t : Scores(p) + j \in Own(p)
<1>1. call.T \in Nat /\ call.pos0 \in Nat /\ call.pos0 + call.T <= MaxCtx
  BY Arguments
<1>2. MaxCtx \in Nat /\ HeadDim \in Nat /\ PerThread \in Nat /\ MaxCtx + HeadDim <= PerThread
  BY Sizes, KernelsAssumption DEF KernelsAssumption
<1>3. Deq(p) \in Nat
  BY <1>2, TimesGrows DEF Deq
<1>4. Own(p) = Deq(p) .. Deq(p) + PerThread - 1
  BY OwnIs
<1>5. Scores(p) = Deq(p) + HeadDim /\ \A i \in 0..HeadDim-1 : Deq(p) + i \in Own(p)
  BY <1>1, <1>2, <1>3, <1>4 DEF Scores
<1>6. ASSUME NEW j \in 0..call.pos0+t PROVE Scores(p) + j \in Own(p)
  <2> DEFINE T == call.T
             n == call.pos0
  <2>1. t \in 0..T-1 /\ n \in Nat /\ T \in Nat /\ n + T <= MaxCtx /\ j \in 0..n+t
    BY <1>1, <1>6
  <2> HIDE DEF T, n
  <2>2. j \in Nat /\ j < MaxCtx
    BY <1>2, <2>1
  <2> QED  BY <1>2, <1>3, <1>4, <1>5, <2>2
<1> QED  BY <1>1, <1>2, <1>3, <1>5, <1>6
-----------------------------------------------------------------------------
(* What a step of a thread leaves alone                                    *)

\* The arguments alone say what the outputs are to be.
LEMMA SameTerms ==
  ASSUME call' = call
  PROVE  /\ Tiled' = Tiled /\ Outputs' = Outputs /\ Quantizes' = Quantizes
         /\ \A i : Width(i)' = Width(i) /\ Int8(i)' = Int8(i)
         /\ \A b : Cells(b)' = Cells(b)
         /\ \A i, r : WeightRow(i, r)' = WeightRow(i, r)
         /\ \A t : X(t)' = X(t) /\ Rounded(t)' = Rounded(t)
         /\ \A t, h, rot : Query(t, h, rot)' = Query(t, h, rot)
<1>1. Tiled' = Tiled /\ \A i : Width(i)' = Width(i)
  BY DEF Tiled, Width
<1>2. Targets' = Targets
  BY DEF Targets
<1>3. \A i : Applies(i)' = Applies(i)
  BY DEF Applies
<1>4. Quantizes' = Quantizes
  BY <1>2, <1>3 DEF Quantizes
<1>5. \A i : Int8(i)' = Int8(i)
  BY <1>3, <1>4 DEF Int8
<1>6. Outputs' = Outputs
  BY <1>1, <1>2 DEF Outputs
<1>7. \A b : Cells(b)' = Cells(b)
  BY <1>1 DEF Cells
<1>8. /\ \A i, r : WeightRow(i, r)' = WeightRow(i, r)
      /\ \A t : X(t)' = X(t) /\ Rounded(t)' = Rounded(t)
      /\ \A t, h, rot : Query(t, h, rot)' = Query(t, h, rot)
  BY DEF WeightRow, X, Rounded, Query
<1> QED  BY <1>1, <1>4, <1>5, <1>6, <1>7, <1>8

\* So is what the reference computes.
LEMMA SameReference ==
  ASSUME call' = call, call \in Calls
  PROVE  /\ \A i, t, r : RefDot(i, t, r)' = RefDot(i, t, r)
         /\ \A i, o : Ref(i, o)' = Ref(i, o)
<1>1. \A i : Applies(i)' = Applies(i)
  BY DEF Applies
<1>2. \A i, t, r : RefDot(i, t, r)' = RefDot(i, t, r)
  BY <1>1, SameTerms DEF RefDot
<1>3. \A v, i, o : Plus(v, i, o)' = Plus(v, i, o)
  BY DEF Plus
<1>4. ASSUME NEW i, NEW o PROVE Ref(i, o)' = Ref(i, o)
  <2>1. CASE call.kernel = "matmul"
    BY <1>2, <1>3, <2>1, SameTerms DEF Ref
  <2>2. CASE call.kernel = "swiglu"
    BY <1>2, <2>2, SameTerms DEF Ref, Gated
  <2>3. CASE call.kernel = "attention"
    BY <2>3, SameTerms DEF Ref, Attended, Score
  <2>4. CASE call.kernel = "rmsnorm"
    BY <2>4, SameTerms DEF Ref
  <2> QED  BY <2>1, <2>2, <2>3, <2>4, Arguments
<1> QED  BY <1>2, <1>4

\* What thread p may do in a step, and what it has to see to.
Sound(p) ==
  /\ UNCHANGED <<call, phase, left, actq, actd>> /\ Onward(p)
  /\ DOMAIN scratch' = DOMAIN scratch /\ DOMAIN y' = DOMAIN y
  /\ \A q \in 0..Threads-1 : q # p => \A a \in Own(q) : Peek(scratch', a) = Peek(scratch, a)
  /\ \A o \in Outputs \ Cells(task[p].block) : y'[o] = y[o]
  /\ task'[p] = Idle => \A o \in Cells(task[p].block) \cap Outputs : y'[o] = Ref(o[1], o[2])
  /\ task'[p] # Idle => Held(p)'

\* What a busy thread's task is.
LEMMA TaskIs ==
  ASSUME TypeInv, NEW p \in 0..Threads-1, task[p] # Idle
  PROVE  /\ call \in Calls /\ task[p].block \in Blocks
         /\ Tiled => task[p].block.nr \in Nat /\ task[p].block.nr <= RowBlock /\ task[p].block.target \in Targets
         /\ call.kernel = "attention" =>
              /\ task[p].block.r0 \div call.heads \in 0..call.T-1
              /\ task[p].block = [target |-> 1, r0 |-> task[p].block.r0, nr |-> 1]
<1>1. call \in Calls /\ task[p].block \in Blocks
  BY DEF TypeInv, Busy
<1>2. ASSUME Tiled
      PROVE  task[p].block.nr \in Nat /\ task[p].block.nr <= RowBlock /\ task[p].block.target \in Targets
  BY <1>1, <1>2, TiledBlock, BlockIsThere
<1>3. ASSUME call.kernel = "attention"
      PROVE  /\ task[p].block.r0 \div call.heads \in 0..call.T-1
             /\ task[p].block = [target |-> 1, r0 |-> task[p].block.r0, nr |-> 1]
  <2>1. call.T \in Nat /\ call.heads \in Nat \ {0}
    BY <1>1, <1>3, Arguments
  <2>2. PICK n \in 0 .. call.T * call.heads - 1 : task[p].block = [target |-> 1, r0 |-> n, nr |-> 1]
    BY <1>1, <1>3 DEF Blocks, Tiled, Width
  <2>3. n \div call.heads \in 0..call.T-1
    BY <2>1, TokenOfItem
  <2> QED  BY <2>2, <2>3
<1> QED  BY <1>1, <1>2, <1>3

\* What is in the scratch and in the outputs depends on nothing else.
LEMMA TileKept ==
  ASSUME call' = call, NEW q, NEW i, NEW r0, NEW nr,
         \A j \in 0..nr-1, k \in 0..call.K-1 :
           Peek(scratch', Deq(q) + (j * call.K + k)) = Peek(scratch, Deq(q) + (j * call.K + k))
  PROVE  TileIn(q, i, r0, nr)' <=> TileIn(q, i, r0, nr)
<1>1. \A j, k : (WeightRow(i, r0 + j)[k])' = WeightRow(i, r0 + j)[k]
  BY SameTerms
<1>2. \A j, k : Peek(scratch, Deq(q) + (j * call.K + k))' = Peek(scratch', Deq(q) + (j * call.K + k))
  BY DEF Peek, Deq
<1> QED  BY <1>1, <1>2 DEF TileIn
\* Products stay.
LEMMA ProductsKept ==
  ASSUME call' = call, call \in Calls, NEW a, NEW i, NEW r0, NEW nr,
         \A t \in 0..call.T-1, j \in 0..nr-1 :
           Peek(scratch', a + (t * RowBlock + j)) = Peek(scratch, a + (t * RowBlock + j))
  PROVE  ProductsIn(a, i, r0, nr)' <=> ProductsIn(a, i, r0, nr)
<1>1. \A t, j : RefDot(i, t, r0 + j)' = RefDot(i, t, r0 + j)
  BY SameReference
<1>2. \A t, j : Peek(scratch, a + (t * RowBlock + j))' = Peek(scratch', a + (t * RowBlock + j))
  BY DEF Peek
<1> QED  BY <1>1, <1>2 DEF ProductsIn
\* Outputs stay.
LEMMA OutputsKept ==
  ASSUME call' = call, call \in Calls, NEW b, \A o \in Cells(b) \cap Outputs : y'[o] = y[o]
  PROVE  ProductsOut(b)' <=> ProductsOut(b)
<1>1. \A o : RefDot(o[1], o[2] \div Width(o[1]), o[2] % Width(o[1]))'
               = RefDot(o[1], o[2] \div Width(o[1]), o[2] % Width(o[1]))
  BY SameTerms, SameReference
<1>2. Outputs' = Outputs /\ Cells(b)' = Cells(b)
  BY SameTerms
<1> QED  BY <1>1, <1>2 DEF ProductsOut

\* What a thread has in its scratch and in its outputs stays there when nobody writes there.
LEMMA HeldKept ==
  ASSUME TypeInv, call' = call, NEW q \in 0..Threads-1, task'[q] = task[q], task[q] # Idle, Held(q),
         \A a \in Own(q) : Peek(scratch', a) = Peek(scratch, a),
         \A o \in Cells(task[q].block) \cap Outputs : y'[o] = y[o]
  PROVE  Held(q)'
<1>1. call' = call /\ task'[q] = task[q]
  OBVIOUS
<1>2. \A a \in Own(q) : Peek(scratch', a) = Peek(scratch, a)
  OBVIOUS
<1>9. PICK b \in Blocks : b = task[q].block /\ b = task'[q].block
  BY <1>1, TaskIs
<1>3. \A o \in Cells(b) \cap Outputs : y'[o] = y[o]
  BY <1>9
<1>4. Deq(q)' = Deq(q) /\ G(q)' = G(q) /\ U(q)' = U(q) /\ Scores(q)' = Scores(q)
  BY <1>1 DEF Deq, G, U, Scores
<1>10. call \in Calls /\ (Tiled => b.nr \in Nat /\ b.nr <= RowBlock)
  BY <1>9, TaskIs
<1>5. CASE call.kernel = "matmul"
  <2>1. Tiled
    BY <1>5 DEF Tiled
  <2>2. \A j \in 0..b.nr-1, k \in 0..call.K-1 : Deq(q) + (j * call.K + k) \in Own(q)
    BY <1>10, <2>1, TiledLayout
  <2>3. TileIn(q, b.target, b.r0, b.nr)' <=> TileIn(q, b.target, b.r0, b.nr)
    BY <1>1, <1>2, <2>2, TileKept
  <2>4. ProductsOut(b)' <=> ProductsOut(b)
    BY <1>1, <1>3, <1>10, OutputsKept
  <2>5. MatmulHeld(q)
    BY <1>5 DEF Held
  <2>6. Int8(b.target)' = Int8(b.target)
    BY <1>1, SameTerms
  <2>7. MatmulHeld(q)'
    BY <1>1, <1>9, <2>3, <2>4, <2>5, <2>6 DEF MatmulHeld
  <2> QED  BY <1>1, <1>5, <2>7 DEF Held
<1>6. CASE call.kernel = "swiglu"
  <2>1. Tiled
    BY <1>6 DEF Tiled
  <2>2. /\ \A j \in 0..b.nr-1, k \in 0..call.K-1 : Deq(q) + (j * call.K + k) \in Own(q)
        /\ \A t \in 0..call.T-1, j \in 0..b.nr-1 :
             G(q) + (t * RowBlock + j) \in Own(q) /\ U(q) + (t * RowBlock + j) \in Own(q)
    BY <1>10, <2>1, TiledLayout
  <2>3. TileIn(q, 1, b.r0, b.nr)' <=> TileIn(q, 1, b.r0, b.nr)
    BY <1>1, <1>2, <2>2, TileKept
  <2>4. TileIn(q, 2, b.r0, b.nr)' <=> TileIn(q, 2, b.r0, b.nr)
    BY <1>1, <1>2, <2>2, TileKept
  <2>5. PICK g, u : g = G(q) /\ g = G(q)' /\ u = U(q) /\ u = U(q)'
    BY <1>4
  <2>6. ProductsIn(g, 1, b.r0, b.nr)' <=> ProductsIn(g, 1, b.r0, b.nr)
    BY <1>1, <1>2, <1>10, <2>2, <2>5, ProductsKept
  <2>7. ProductsIn(u, 2, b.r0, b.nr)' <=> ProductsIn(u, 2, b.r0, b.nr)
    BY <1>1, <1>2, <1>10, <2>2, <2>5, ProductsKept
  <2>8. SwigluHeld(q) /\ Int8(1)' = Int8(1)
    BY <1>1, <1>6, SameTerms DEF Held
  <2>9. SwigluHeld(q)'
    BY <1>1, <1>9, <2>3, <2>4, <2>5, <2>6, <2>7, <2>8 DEF SwigluHeld
  <2> QED  BY <1>1, <1>6, <2>9 DEF Held
<1>7. CASE call.kernel = "attention"
  <2>1. AttentionHeld(q)
    BY <1>7 DEF Held
  <2>2. /\ \A i \in 0..HeadDim-1 : Deq(q) + i \in Own(q)
        /\ \A j \in 0..call.pos0 + (b.r0 \div call.heads) : Scores(q) + j \in Own(q)
    BY <1>7, <1>9, AttentionLayout, TaskIs
  <2>3. \A t, h : Query(t, h, call.rope)' = Query(t, h, call.rope)
    BY <1>1, SameTerms
  <2>4. AttentionHeld(q)'
    BY <1>1, <1>2, <1>4, <1>9, <2>1, <2>2, <2>3 DEF AttentionHeld, Score
  <2> QED  BY <1>1, <1>7, <2>4 DEF Held
<1>8. CASE call.kernel = "rmsnorm"
  BY <1>1, <1>8 DEF Held
<1> QED  BY <1>1, <1>5, <1>6, <1>7, <1>8, TaskIs, Arguments

\* A sound step of a thread is none of the others' business.
LEMMA OthersHold ==
  ASSUME TypeInv, Shared, NEW p \in 0..Threads-1, Sound(p),
         NEW q \in 0..Threads-1, q # p, task[q] # Idle, Held(q)
  PROVE  Held(q)' /\ task'[q] = task[q]
<1>1. call' = call /\ task'[q] = task[q]
  BY DEF Sound, Onward, TypeInv
<1>2. \A a \in Own(q) : Peek(scratch', a) = Peek(scratch, a)
  BY DEF Sound
<1>3. \A o \in Cells(task[q].block) \cap Outputs : y'[o] = y[o]
  <2>1. task[q].block # task[p].block /\ task[p] # Idle
    BY DEF Shared, Sound, Onward
  <2>2. task[q].block \in Blocks /\ task[p].block \in Blocks /\ call \in Calls
    BY <2>1, TaskIs
  <2>3. Cells(task[q].block) \cap Cells(task[p].block) = {}
    BY <2>1, <2>2, BlocksApart
  <2> QED  BY <2>3 DEF Sound
<1> QED  BY <1>1, <1>2, <1>3, HeldKept

\* So the invariant is kept by what is sound.
LEMMA SoundKeeps ==
  ASSUME TypeInv, Shared, ValueInv, NEW p \in 0..Threads-1, Sound(p)
  PROVE  ValueInv'
<1>1. UNCHANGED <<call, phase, left, actq, actd>> /\ call \in Calls
  BY DEF Sound, TypeInv
<1>2. task \in [0..Threads-1 -> {Idle} \cup Busy] /\ task[p] # Idle /\ phase = "blocks"
  BY DEF Sound, Onward, TypeInv, Shared
<1>3. PICK v \in {Idle} \cup Busy : task' = [task EXCEPT ![p] = v] /\ (v # Idle => v.block = task[p].block)
  BY DEF Sound, Onward
<1>4. Sized'
  BY <1>1, SameTerms DEF Sized, ValueInv, Sound
<1>5. RowsRead'
  <2>1. \A t : RowRead(t)' = RowRead(t)
    BY <1>1, SameTerms DEF RowRead, Fetched
  <2> QED  BY <1>1, <2>1, SameTerms DEF RowsRead, ValueInv
<1>6. \A q \in 0..Threads-1 : task'[q] # Idle => Held(q)'
  <2>1. ASSUME NEW q \in 0..Threads-1, q # p, task'[q] # Idle PROVE Held(q)'
    <3>1. task'[q] = task[q]
      BY <1>2, <1>3, <2>1
    <3> QED  BY <2>1, <3>1, OthersHold DEF ValueInv
  <2> QED  BY <2>1 DEF Sound
<1>7. NoneLost'
  <2> SUFFICES ASSUME NEW b \in Blocks
               PROVE  \/ b \in left
                      \/ \E q \in 0..Threads-1 : task'[q] # Idle /\ task'[q].block = b
                      \/ \A o \in Cells(b) \cap Outputs : y'[o] = Ref(o[1], o[2])
    BY <1>1, SameCall, SameTerms, SameReference DEF NoneLost, Finished
  <2>1. CASE b = task[p].block /\ v = Idle
    BY <1>2, <1>3, <2>1 DEF Sound
  <2>2. CASE b = task[p].block /\ v # Idle
    BY <1>2, <1>3, <2>2
  <2>3. CASE b # task[p].block
    <3>1. Cells(b) \cap Cells(task[p].block) = {}
      BY <1>1, <1>2, <2>3, BlocksApart, TaskIs
    <3>2. Finished(b) => \A o \in Cells(b) \cap Outputs : y'[o] = Ref(o[1], o[2])
      BY <3>1 DEF Sound, Finished
    <3>3. ASSUME NEW q \in 0..Threads-1, task[q] # Idle, task[q].block = b
          PROVE  task'[q] # Idle /\ task'[q].block = b
      <4>1. q # p
        BY <2>3, <3>3
      <4> QED  BY <1>2, <1>3, <3>3, <4>1
    <3> QED  BY <1>2, <3>2, <3>3 DEF NoneLost, ValueInv
  <2> QED  BY <2>1, <2>2, <2>3
<1> QED  BY <1>1, <1>2, <1>4, <1>5, <1>6, <1>7 DEF ValueInv

\* What is written to the scratch is there, and the rest of it is as before.
LEMMA FillGives ==
  ASSUME TypeInv, Sized, NEW p \in 0..Threads-1, task[p] # Idle, NEW f, DOMAIN f = Room(p),
         scratch' = Stored(scratch, f)
  PROVE  /\ DOMAIN scratch' = DOMAIN scratch
         /\ \A a \in Room(p) : Peek(scratch', a) = f[a]
         /\ \A a : a \notin Room(p) => Peek(scratch', a) = Peek(scratch, a)
         /\ \A q \in 0..Threads-1 : q # p => \A a \in Own(q) : Peek(scratch', a) = Peek(scratch, a)
<1>1. Room(p) \subseteq Own(p)
  BY RoomIsOwn DEF StaysInOwnScratch, TypeInv
<1>2. Room(p) \subseteq DOMAIN scratch
  BY <1>1, OwnIs DEF Sized
<1>3. \A a \in Room(p) : Peek(scratch', a) = f[a]
  BY <1>2, PeekStored
<1>4. \A a : a \notin Room(p) => Peek(scratch', a) = Peek(scratch, a)
  BY PeekStored
<1>5. DOMAIN scratch' = DOMAIN scratch
  BY PeekStored
<1> QED  BY <1>1, <1>3, <1>4, <1>5, OwnApart
\* A step that writes the scratch is sound when what it leaves there is.
LEMMA FillSound ==
  ASSUME TypeInv, Sized, NEW p \in 0..Threads-1, Onward(p), NEW f, DOMAIN f = Room(p),
         scratch' = Stored(scratch, f), UNCHANGED <<call, phase, left, actq, actd, y>>,
         task'[p] # Idle, Held(p)'
  PROVE  Sound(p)
<1>1. task[p] # Idle
  BY DEF Onward
<1> QED  BY <1>1, FillGives DEF Sound

\* An element of a block, by its token and row.
LEMMA CellIs ==
  ASSUME call \in Calls, Tiled, NEW b \in Blocks, NEW o \in Cells(b)
  PROVE  LET t == o[2] \div Width(o[1])
             r == o[2] % Width(o[1])
         IN  /\ o[1] = b.target /\ t \in 0..call.T-1 /\ r - b.r0 \in 0..b.nr-1 /\ r \in Nat
             /\ t * Width(o[1]) + r = o[2] /\ b.r0 + (r - b.r0) = r
             /\ o = <<b.target, t * Width(b.target) + b.r0 + (r - b.r0)>>
<1>1. PICK t \in 0..call.T-1, j \in 0..b.nr-1 :
        /\ o = <<b.target, t * Width(b.target) + b.r0 + j>>
        /\ o[2] \div Width(o[1]) = t /\ o[2] % Width(o[1]) = b.r0 + j
  BY CellParts
<1>2. b.r0 \in Nat /\ b.nr \in Nat /\ Width(b.target) \in Nat /\ call.T \in Nat
  BY TiledBlock, BlockIsThere, Arguments
<1>3. t * Width(b.target) \in Nat /\ (b.r0 + j) - b.r0 = j /\ b.r0 + j \in Nat
  BY <1>2, TimesGrows
<1>4. t * Width(b.target) + (b.r0 + j) = t * Width(b.target) + b.r0 + j
  BY <1>2, <1>3
<1> QED  BY <1>1, <1>2, <1>3, <1>4
-----------------------------------------------------------------------------
(* Each step is sound                                                      *)

\* A step of a tiled kernel at its block.
LEMMA AtBlock ==
  ASSUME TypeInv, ValueInv, NEW p \in 0..Threads-1, Onward(p)
  PROVE  /\ call \in Calls /\ task[p].block \in Blocks /\ Held(p) /\ Sized
         /\ task \in [0..Threads-1 -> {Idle} \cup Busy] /\ task[p] # Idle
         /\ task[p].step \in StepsOf /\ task[p] \in Busy
  BY TaskIs DEF ValueInv, Onward, TypeInv, Busy

\* One token: rows of the weight are read as they are stored.
LEMMA RowsSound ==
  ASSUME GatesAlike, TypeInv, ValueInv, NEW p \in 0..Threads-1, Onward(p), Rows(p)
  PROVE  Sound(p)
<1> DEFINE b == task[p].block
<1>1. /\ call \in Calls /\ b \in Blocks /\ Held(p) /\ Sized /\ task[p].step = "rows"
      /\ task'[p] = Idle
  BY AtBlock DEF Rows, Done
<1>2. Tiled
  BY <1>1, AtBlock DEF StepsOf
<1> DEFINE t(o) == o[2] \div Width(o[1])
           r(o) == o[2] % Width(o[1])
           product(i, tt, rr) == Dot(X(tt), WeightRow(i, rr))
<1>3. /\ UNCHANGED <<call, phase, left, scratch, actq, actd>> /\ DOMAIN y' = DOMAIN y
      /\ \A o \in DOMAIN y \ Cells(b) : y'[o] = y[o]
      /\ call.kernel = "matmul" =>
           \A o \in DOMAIN y \cap Cells(b) :
             y'[o] = Plus(product(o[1], t(o), r(o)), o[1], t(o) * Width(o[1]) + r(o))
      /\ call.kernel # "matmul" =>
           \A o \in DOMAIN y \cap Cells(b) : y'[o] = Gated(product(1, t(o), r(o)), product(2, t(o), r(o)))
  BY DEF Rows, Write, Block
<1> HIDE DEF product
<1>4. ASSUME NEW o \in Cells(b) \cap Outputs PROVE y'[o] = Ref(o[1], o[2])
  <2>1. o[1] = b.target /\ t(o) * Width(o[1]) + r(o) = o[2] /\ o \in DOMAIN y
    BY <1>1, <1>2, <1>4, CellIs DEF Sized
  <2>2. CASE call.kernel = "matmul"
    <3>1. ~Int8(b.target)
      BY <1>1, <2>2 DEF Held, MatmulHeld
    <3>2. b.target \in Weights /\ Says(b.target) = b.target
      BY <1>1, <1>2, <2>2, TiledBlock DEF Weights, Says
    <3>3. RefDot(b.target, t(o), r(o)) = product(b.target, t(o), r(o))
      BY <1>1, <1>2, <3>1, <3>2, ProductIsRef DEF product
    <3> QED  BY <1>3, <1>4, <2>1, <2>2, <3>3, Reference
  <2>3. CASE call.kernel = "swiglu"
    <3>1. ~Int8(1)
      BY <1>1, <2>3 DEF Held, SwigluHeld
    <3>2. {1, 2} = Weights /\ Says(1) = 1 /\ Says(2) = 1
      BY <2>3 DEF Weights, Says
    <3>3. /\ RefDot(1, t(o), r(o)) = product(1, t(o), r(o))
          /\ RefDot(2, t(o), r(o)) = product(2, t(o), r(o))
      BY <1>1, <1>2, <3>1, <3>2, ProductIsRef DEF product
    <3> QED  BY <1>3, <1>4, <2>1, <2>3, <3>3, Reference
  <2> QED  BY <1>2, <2>2, <2>3 DEF Tiled
<1> QED  BY <1>1, <1>3, <1>4 DEF Sound, Sized, Idle

\* The weight whose rows a step reads is one of the call's.
LEMMA TileWeight ==
  ASSUME TypeInv, ValueInv, NEW p \in 0..Threads-1, Onward(p), Tiled
  PROVE  task[p].w \in Weights
  BY AtBlock, TaskIs DEF Tiled, Held, MatmulHeld, SwigluHeld, Weights

\* A tile is filled by the rows of its weight, and the gate's products are not in it.
LEMMA TileSound ==
  ASSUME GatesAlike, TypeInv, ValueInv, NEW p \in 0..Threads-1, Onward(p), Tile(p)
  PROVE  Sound(p)
<1>0. PICK b, w : b \in Blocks /\ b = task[p].block /\ w = task[p].w
  BY AtBlock
<1>1. /\ call \in Calls /\ Held(p) /\ Sized /\ task[p].step = "tile" /\ task[p] # Idle
      /\ task' = [task EXCEPT ![p].step = "gemm"]
  BY AtBlock DEF Tile, Go
<1>2. Tiled
  BY <1>1, AtBlock DEF StepsOf
<1>3. task'[p] # Idle /\ task'[p].step = "gemm" /\ task'[p].block = b /\ task'[p].w = w
  BY <1>0, <1>1, AtBlock DEF Busy, Idle
<1> DEFINE cell(a) == IF call.w[w].type = "f32" THEN Peek(scratch, a)
                      ELSE WeightRow(w, b.r0 + (a - Deq(p)) \div call.K)[(a - Deq(p)) % call.K]
           f == [a \in Room(p) |-> cell(a)]
<1>4. UNCHANGED <<call, phase, left, actq, actd, y>> /\ scratch' = Stored(scratch, f)
  BY <1>0 DEF Tile, Fill, Block
<1>5. Room(p) = Deq(p) .. Deq(p) + b.nr * call.K - 1
  BY <1>0, <1>1 DEF Room, Block, At
<1>6. /\ \A a \in Room(p) : Peek(scratch', a) = cell(a)
      /\ \A a : a \notin Room(p) => Peek(scratch', a) = Peek(scratch, a)
  <2> HIDE DEF cell
  <2>1. /\ \A a \in Room(p) : Peek(scratch', a) = f[a]
        /\ \A a : a \notin Room(p) => Peek(scratch', a) = Peek(scratch, a)
    BY <1>1, <1>4, FillGives
  <2> QED  BY <2>1
<1>7. b.nr \in Nat /\ b.nr <= RowBlock
  BY <1>0, <1>1, <1>2, TiledBlock, BlockIsThere
<1>8. /\ Deq(p) \in Nat /\ G(p) \in Nat /\ call.K \in Nat \ {0} /\ RowBlock \in Nat \ {0}
      /\ \A j \in 0..RowBlock-1, k \in 0..call.K-1 : j * call.K + k \in Nat
  BY <1>1, <1>2, TiledLayout
<1>9. TileIn(p, w, b.r0, b.nr)'
  <2>1. ASSUME NEW j \in 0..b.nr-1, NEW k \in 0..call.K-1, call.w[w].type # "f32"
        PROVE  Peek(scratch', Deq(p) + (j * call.K + k)) = WeightRow(w, b.r0 + j)[k]
    <3> DEFINE n == j * call.K + k
    <3>1. n \in Nat /\ n < b.nr * call.K /\ n \div call.K = j /\ n % call.K = k
      <4> DEFINE K == call.K
      <4>1. K \in Nat \ {0} /\ k \in 0..K-1
        BY <1>8
      <4> HIDE DEF K
      <4>2. (j + 1) * K <= b.nr * K /\ j * K \in Nat /\ (j + 1) * K = j * K + K /\ b.nr * K \in Nat
        BY <1>7, <4>1, TimesGrows
      <4>3. (j * K + k) \div K = j /\ (j * K + k) % K = k
        <5>1. j \in Nat /\ K \in Nat
          BY <1>7, <4>1
        <5> QED  BY <4>1, <5>1, DivMod
      <4>4. j * K + k \in Nat /\ j * K + k < b.nr * K
        BY <4>1, <4>2
      <4> QED  BY <4>3, <4>4 DEF K
    <3> HIDE DEF n
    <3>2. Deq(p) + n \in Room(p) /\ (Deq(p) + n) - Deq(p) = n
      <4>1. b.nr * call.K \in Nat
        BY <1>7, <1>8, TimesGrows
      <4> QED  BY <1>5, <1>8, <3>1, <4>1, SMTT(40)
    <3>3. Peek(scratch', Deq(p) + n) = WeightRow(w, b.r0 + (n \div call.K))[n % call.K]
      BY <1>6, <2>1, <3>2
    <3> QED  BY <3>1, <3>3 DEF n
  <2>2. \A j, k : WeightRow(w, b.r0 + j)'[k] = WeightRow(w, b.r0 + j)[k]
    BY <1>4, SameTerms
  <2> HIDE DEF cell
  <2> QED  BY <1>4, <2>1, <2>2, ZenonT(40) DEF TileIn, Peek, Deq
<1>10. CASE call.kernel = "matmul"
  <2>1. w = b.target /\ ~Int8(b.target)
    BY <1>0, <1>1, <1>10 DEF Held, MatmulHeld
  <2>2. Int8(b.target)' = Int8(b.target)
    BY <1>4, SameTerms
  <2>3. MatmulHeld(p)'
    BY <1>3, <1>9, <2>1, <2>2 DEF MatmulHeld
  <2>4. Held(p)'
    BY <1>4, <1>10, <2>3 DEF Held
  <2> QED  BY <1>1, <1>3, <1>4, <2>4, FillSound
<1>11. CASE call.kernel = "swiglu"
  <2>1. w \in {1, 2} /\ ~Int8(1) /\ (w = 2 => ProductsIn(G(p), 1, b.r0, b.nr))
    BY <1>0, <1>1, <1>11 DEF Held, SwigluHeld
  <2>2. Int8(1)' = Int8(1)
    BY <1>4, SameTerms
  <2>3. PICK g : g = G(p) /\ g = G(p)'
    BY <1>4 DEF G, Deq
  <2>4. ASSUME NEW t \in 0..call.T-1, NEW j \in 0..b.nr-1
        PROVE  Peek(scratch', g + (t * RowBlock + j)) = Peek(scratch, g + (t * RowBlock + j))
    <3>1. t * RowBlock + j \in Nat
      BY <1>1, <1>2, <1>7, TiledLayout
    <3>2. b.nr * call.K <= RowBlock * call.K /\ b.nr * call.K \in Nat /\ RowBlock * call.K \in Nat
      BY <1>7, <1>8, TimesGrows
    <3>3. g = Deq(p) + RowBlock * call.K
      BY <2>3 DEF G
    <3> HIDE DEF cell
    <3>4. g + (t * RowBlock + j) \notin Room(p)
      BY <1>5, <1>8, <3>1, <3>2, <3>3, SMTT(40)
    <3> QED  BY <1>6, <3>4
  <2>5. ProductsIn(g, 1, b.r0, b.nr)' <=> ProductsIn(g, 1, b.r0, b.nr)
    BY <1>1, <1>4, <2>4, ProductsKept
  <2>6. SwigluHeld(p)'
    BY <1>3, <1>9, <2>1, <2>2, <2>3, <2>5 DEF SwigluHeld
  <2>7. Held(p)'
    BY <1>4, <1>11, <2>6 DEF Held
  <2> QED  BY <1>1, <1>3, <1>4, <2>7, FillSound
<1> QED  BY <1>2, <1>10, <1>11 DEF Tiled

\* Outputs are written by the rows of the tile, all of them.
LEMMA GemmOutSound ==
  ASSUME GatesAlike, TypeInv, ValueInv, NEW p \in 0..Threads-1, Onward(p), GemmOut(p)
  PROVE  Sound(p)
<1> DEFINE b == task[p].block
<1>1. /\ call \in Calls /\ b \in Blocks /\ Held(p) /\ Sized /\ task[p].step = "gemm"
      /\ task'[p] = Idle /\ call.kernel = "matmul"
  BY AtBlock DEF GemmOut, At, Done
<1>2. Tiled
  BY <1>1 DEF Tiled
<1>3. b.nr \in Nat
  BY <1>1, <1>2, BlockIsThere
<1> DEFINE t(o) == o[2] \div Width(o[1])
           r(o) == o[2] % Width(o[1])
           S == {<<b.target, c[1] * Width(b.target) + b.r0 + c[2]>> : c \in Gemm(b.nr)}
           element(i, tt, rr) == Plus(Dot(X(tt), TileRow(p, i, b.r0, rr - b.r0)), i, tt * Width(i) + rr)
<1>4. S = Cells(b)
  <2>1. S = {<<b.target, c[1] * Width(b.target) + b.r0 + c[2]>> : c \in (0..call.T-1) \X (0..b.nr-1)}
    BY <1>1, <1>3, GemmIsAll
  <2> DEFINE e(u, j) == <<b.target, u * Width(b.target) + b.r0 + j>>
             A == 0..call.T-1
             B == 0..b.nr-1
  <2>2. Cells(b) = {e(u, j) : u \in A, j \in B}
    BY <1>2 DEF Cells
  <2>3. S = {e(c[1], c[2]) : c \in A \X B}
    BY <2>1
  <2> HIDE DEF S, e, A, B
  <2>4. ASSUME NEW x \in S PROVE x \in Cells(b)
    <3>1. PICK c \in A \X B : x = e(c[1], c[2])
      BY <2>3, <2>4
    <3>2. c[1] \in A /\ c[2] \in B
      BY <3>1
    <3> QED  BY <2>2, <3>1, <3>2
  <2>5. ASSUME NEW x \in Cells(b) PROVE x \in S
    <3>1. PICK u \in A, j \in B : x = e(u, j)
      BY <2>2, <2>5
    <3>2. <<u, j>> \in A \X B /\ e(<<u, j>>[1], <<u, j>>[2]) = e(u, j)
      BY <3>1
    <3> QED  BY <2>3, <3>1, <3>2
  <2> QED  BY <2>4, <2>5
<1>5. /\ UNCHANGED <<call, phase, left, scratch, actq, actd>> /\ DOMAIN y' = DOMAIN y
      /\ \A o \in DOMAIN y \ S : y'[o] = y[o]
      /\ \A o \in DOMAIN y \cap S : y'[o] = element(o[1], t(o), r(o))
  BY DEF GemmOut, Write, Block
<1> HIDE DEF S
<1>6. ASSUME NEW o \in Cells(b) \cap Outputs PROVE y'[o] = Ref(o[1], o[2])
  <2>1. /\ o[1] = b.target /\ t(o) * Width(o[1]) + r(o) = o[2] /\ o \in DOMAIN y
        /\ r(o) - b.r0 \in 0..b.nr-1 /\ b.r0 + (r(o) - b.r0) = r(o)
    BY <1>1, <1>2, <1>6, CellIs DEF Sized
  <2>2. ~Int8(b.target) /\ TileIn(p, b.target, b.r0, b.nr)
    BY <1>1 DEF Held, MatmulHeld
  <2>3. b.target \in Weights /\ Says(b.target) = b.target
    BY <1>1, <1>2, TiledBlock DEF Weights, Says
  <2>4. RefDot(b.target, t(o), r(o)) = Dot(X(t(o)), WeightRow(b.target, r(o)))
    BY <1>1, <1>2, <2>2, <2>3, ProductIsRef
  <2>5. TileRow(p, b.target, b.r0, r(o) - b.r0) = WeightRow(b.target, b.r0 + (r(o) - b.r0))
    <3>1. call.K \in Nat
      BY <1>1, Arguments
    <3> HIDE DEF b, r
    <3> QED  BY <1>3, <2>1, <2>2, <3>1, TileRowIs
  <2>6. y'[o] = Plus(RefDot(b.target, t(o), r(o)), b.target, o[2])
    BY <1>4, <1>5, <1>6, <2>1, <2>4, <2>5
  <2> QED  BY <1>1, <2>1, <2>6, Reference
<1> QED  BY <1>1, <1>4, <1>5, <1>6 DEF Sound, Sized, Idle

\* Columns of products, by token and row.
LEMMA ColumnIs ==
  ASSUME call \in Calls, Tiled, NEW b \in Blocks, NEW a \in Nat
  PROVE  /\ \A t \in 0..call.T-1, j \in 0..b.nr-1 :
              /\ a + (t * RowBlock + j) \in Columns(b, a)
              /\ (a + (t * RowBlock + j)) - a = t * RowBlock + j
              /\ (t * RowBlock + j) \div RowBlock = t /\ (t * RowBlock + j) % RowBlock = j
         /\ \A x \in Columns(b, a) : \E t \in 0..call.T-1, j \in 0..b.nr-1 : x = a + (t * RowBlock + j)
<1>1. b.nr \in Nat /\ b.nr <= RowBlock /\ RowBlock \in Nat \ {0} /\ call.T \in Nat
  BY TiledBlock, BlockIsThere, Arguments, KernelsAssumption DEF KernelsAssumption
<1>2. ASSUME NEW t \in 0..call.T-1, NEW j \in 0..b.nr-1
      PROVE  /\ t * RowBlock + j \in Nat /\ a + t * RowBlock + j = a + (t * RowBlock + j)
             /\ (t * RowBlock + j) \div RowBlock = t /\ (t * RowBlock + j) % RowBlock = j
             /\ (a + (t * RowBlock + j)) - a = t * RowBlock + j
  <2>1. t \in Nat /\ j \in Nat /\ j \in 0..RowBlock-1 /\ t * RowBlock \in Nat
    BY <1>1, <1>2, TimesGrows
  <2>2. RowBlock \in Nat
    BY <1>1
  <2>3. (t * RowBlock + j) \div RowBlock = t /\ (t * RowBlock + j) % RowBlock = j
    BY <2>1, <2>2, DivMod
  <2> QED  BY <2>1, <2>3
<1> QED  BY <1>2 DEF Columns

\* The products of one weight.
LEMMA GemmGateSound ==
  ASSUME GatesAlike, TypeInv, ValueInv, NEW p \in 0..Threads-1, Onward(p), GemmGate(p)
  PROVE  Sound(p)
<1>0. PICK b \in Blocks, w \in {task[p].w}, a0 \in {IF task[p].w = 1 THEN G(p) ELSE U(p)} :
        b = task[p].block /\ w = task[p].w /\ a0 = (IF w = 1 THEN G(p) ELSE U(p))
  BY AtBlock
<1>1. /\ call \in Calls /\ Held(p) /\ Sized /\ task[p].step = "gemm" /\ task[p] # Idle
      /\ call.kernel = "swiglu" /\ Tiled
  BY AtBlock DEF GemmGate, At, Tiled
<1>2. b.nr \in Nat /\ b.nr <= RowBlock
  BY <1>1, TiledBlock, BlockIsThere
<1>3. /\ w \in {1, 2} /\ ~Int8(1) /\ TileIn(p, w, b.r0, b.nr)
      /\ (w = 2 => ProductsIn(G(p), 1, b.r0, b.nr))
  BY <1>0, <1>1 DEF Held, SwigluHeld
<1>4. /\ G(p) \in Nat /\ U(p) \in Nat /\ a0 \in Nat /\ call.K \in Nat
      /\ \A t \in 0..call.T-1, j \in 0..b.nr-1 :
           G(p) + (t * RowBlock + j) < U(p) /\ t * RowBlock + j \in Nat
  <2>1. RowBlock \in Nat /\ \A j \in 0..b.nr-1 : j \in 0..RowBlock-1
    BY <1>1, <1>2, TiledLayout
  <2> QED  BY <1>0, <1>1, <2>1, TiledLayout
<1> DEFINE cell(a) == IF <<(a - a0) \div RowBlock, (a - a0) % RowBlock>> \in Gemm(b.nr)
                      THEN Dot(X((a - a0) \div RowBlock), TileRow(p, w, b.r0, (a - a0) % RowBlock))
                      ELSE Peek(scratch, a)
           f == [a \in Room(p) |-> cell(a)]
<1>5. UNCHANGED <<call, phase, left, actq, actd, y>> /\ scratch' = Stored(scratch, f)
  BY <1>0 DEF GemmGate, Fill, Block
<1>6. Room(p) = Columns(b, a0)
  BY <1>0, <1>1 DEF Room, Block, At
<1>7. /\ \A a \in Room(p) : Peek(scratch', a) = cell(a)
      /\ \A a : a \notin Room(p) => Peek(scratch', a) = Peek(scratch, a)
  <2> HIDE DEF cell
  <2>1. /\ \A a \in Room(p) : Peek(scratch', a) = f[a]
        /\ \A a : a \notin Room(p) => Peek(scratch', a) = Peek(scratch, a)
    BY <1>1, <1>5, FillGives
  <2> QED  BY <2>1
<1>8. ASSUME NEW t \in 0..call.T-1, NEW j \in 0..b.nr-1
      PROVE  Peek(scratch', a0 + (t * RowBlock + j)) = RefDot(w, t, b.r0 + j)
  <2> DEFINE n == t * RowBlock + j
  <2>1. a0 + n \in Room(p) /\ (a0 + n) - a0 = n /\ n \div RowBlock = t /\ n % RowBlock = j
    BY <1>1, <1>4, <1>6, ColumnIs
  <2> HIDE DEF n
  <2>2. <<t, j>> \in Gemm(b.nr)
    BY <1>1, <1>2, GemmIsAll
  <2>3. cell(a0 + n) = Dot(X(t), TileRow(p, w, b.r0, j))
    BY <2>1, <2>2
  <2>4. TileRow(p, w, b.r0, j) = WeightRow(w, b.r0 + j)
    BY <1>2, <1>3, <1>4, TileRowIs
  <2>5. RefDot(w, t, b.r0 + j) = Dot(X(t), WeightRow(w, b.r0 + j))
    <3>1. w \in Weights /\ Says(w) = 1
      BY <1>1, <1>3 DEF Weights, Says
    <3> QED  BY <1>1, <1>3, <3>1, ProductIsRef
  <2> HIDE DEF cell
  <2> QED  BY <1>7, <2>1, <2>3, <2>4, <2>5 DEF n
<1>9. PICK g, u : g = G(p) /\ g = G(p)' /\ u = U(p) /\ u = U(p)'
  BY <1>5 DEF G, U, Deq
<1>10. ProductsIn(a0, w, b.r0, b.nr)'
  <2>1. \A t, j : RefDot(w, t, b.r0 + j)' = RefDot(w, t, b.r0 + j)
    BY <1>1, <1>5, SameReference
  <2>2. \A t, j : Peek(scratch, a0 + (t * RowBlock + j))' = Peek(scratch', a0 + (t * RowBlock + j))
    BY DEF Peek
  <2> HIDE DEF cell
  <2> QED  BY <1>5, <1>8, <2>1, <2>2 DEF ProductsIn
<1> HIDE DEF cell
<1>11. Int8(1)' = Int8(1)
  BY <1>5, SameTerms
<1>12. CASE w = 1
  <2>1. task' = [task EXCEPT ![p] = [task[p] EXCEPT !.step = "tile", !.w = 2]]
    BY <1>0, <1>12 DEF GemmGate
  <2>2. task'[p] # Idle /\ task'[p].step = "tile" /\ task'[p].block = b /\ task'[p].w = 2
    BY <1>0, <2>1, AtBlock DEF Busy, Idle
  <2>3. SwigluHeld(p)'
    BY <1>0, <1>3, <1>9, <1>10, <1>11, <1>12, <2>2 DEF SwigluHeld
  <2>4. Held(p)'
    BY <1>1, <1>5, <2>3 DEF Held
  <2> QED  BY <1>1, <1>5, <2>2, <2>4, FillSound
<1>13. CASE w = 2
  <2>1. task' = [task EXCEPT ![p] = [task[p] EXCEPT !.step = "combine"]]
    BY <1>0, <1>13 DEF GemmGate
  <2>2. task'[p] # Idle /\ task'[p].step = "combine" /\ task'[p].block = b /\ task'[p].w = 2
    BY <1>0, <1>13, <2>1, AtBlock DEF Busy, Idle
  <2>3. ASSUME NEW t \in 0..call.T-1, NEW j \in 0..b.nr-1
        PROVE  Peek(scratch', g + (t * RowBlock + j)) = Peek(scratch, g + (t * RowBlock + j))
    <3>1. g + (t * RowBlock + j) < u /\ a0 = u /\ t * RowBlock + j \in Nat
      BY <1>0, <1>2, <1>4, <1>9, <1>13
    <3>2. \A x \in Room(p) : x >= u
      <4>1. ASSUME NEW x \in Room(p) PROVE x >= u
        <5>1. PICK s \in 0..call.T-1, k \in 0..b.nr-1 : x = u + (s * RowBlock + k)
          BY <1>1, <1>4, <1>6, <3>1, <4>1, ColumnIs
        <5>2. s * RowBlock + k \in Nat
          BY <1>2, <1>4
        <5> QED  BY <1>4, <1>9, <5>1, <5>2
      <4> QED  BY <4>1
    <3>3. g + (t * RowBlock + j) \notin Room(p)
      BY <1>4, <1>9, <3>1, <3>2
    <3> QED  BY <1>7, <3>3
  <2>4. ProductsIn(g, 1, b.r0, b.nr)' <=> ProductsIn(g, 1, b.r0, b.nr)
    BY <1>1, <1>5, <2>3, ProductsKept
  <2>5. SwigluHeld(p)'
    BY <1>0, <1>3, <1>9, <1>10, <1>11, <1>13, <2>2, <2>4 DEF SwigluHeld
  <2>6. Held(p)'
    BY <1>1, <1>5, <2>5 DEF Held
  <2> QED  BY <1>1, <1>5, <2>2, <2>6, FillSound
<1> QED  BY <1>3, <1>12, <1>13

\* Rows that were quantized are read back while blocks are worked at.
LEMMA QuantizedRead ==
  ASSUME TypeInv, Shared, ValueInv, NEW p \in 0..Threads-1, Onward(p), NEW i, Int8(i), NEW t \in 0..call.T-1
  PROVE  Fetched(t) = Rounded(t)
<1>1. phase = "blocks" /\ Quantizes
  BY DEF Shared, Onward, Int8
<1> QED  BY <1>1 DEF ValueInv, RowsRead, RowRead

\* Both weights' products, from quantized rows.
LEMMA Int8GatesSound ==
  ASSUME GatesAlike, TypeInv, Shared, ValueInv, NEW p \in 0..Threads-1, Onward(p), Int8Gates(p)
  PROVE  Sound(p)
<1>0. PICK b \in Blocks, g \in {G(p)}, u \in {U(p)} : b = task[p].block /\ g = G(p) /\ u = U(p)
  BY AtBlock
<1>1. /\ call \in Calls /\ Held(p) /\ Sized /\ task[p].step = "int8" /\ task[p] # Idle
      /\ call.kernel = "swiglu" /\ Tiled /\ task' = [task EXCEPT ![p].step = "combine"]
  BY AtBlock DEF Int8Gates, At, Tiled, Go
<1>2. b.nr \in Nat /\ b.nr <= RowBlock
  BY <1>1, TiledBlock, BlockIsThere
<1>3. Int8(1) /\ task[p].w \in {1, 2}
  BY <1>1 DEF Held, SwigluHeld
<1>4. /\ g \in Nat /\ u \in Nat
      /\ \A t \in 0..call.T-1, j \in 0..b.nr-1 : g + (t * RowBlock + j) < u /\ t * RowBlock + j \in Nat
  <2>1. RowBlock \in Nat /\ \A j \in 0..b.nr-1 : j \in 0..RowBlock-1
    BY <1>1, <1>2, TiledLayout
  <2> QED  BY <1>0, <1>1, <2>1, TiledLayout
<1>5. UNCHANGED <<call, phase, left, actq, actd, y>> /\ g = G(p)' /\ u = U(p)'
  BY <1>0 DEF Int8Gates, Fill, G, U, Deq
<1> DEFINE column(i, a) == Dot(Fetched(a \div RowBlock), WeightRow(i, b.r0 + (a % RowBlock)))
           cell(a) == IF a < u THEN column(1, a - g) ELSE column(2, a - u)
           f == [a \in Room(p) |-> cell(a)]
<1>6. scratch' = Stored(scratch, f)
  BY <1>0 DEF Int8Gates, Fill, Block
<1>7. Room(p) = Columns(b, g) \cup Columns(b, u)
  BY <1>0, <1>1 DEF Room, Block, At
<1>8. \A a \in Room(p) : Peek(scratch', a) = cell(a)
  <2> HIDE DEF cell
  <2>1. \A a \in Room(p) : Peek(scratch', a) = f[a]
    BY <1>1, <1>6, FillGives
  <2> QED  BY <2>1
<1>9. ASSUME NEW t \in 0..call.T-1, NEW j \in 0..b.nr-1
      PROVE  /\ Peek(scratch', g + (t * RowBlock + j)) = RefDot(1, t, b.r0 + j)
             /\ Peek(scratch', u + (t * RowBlock + j)) = RefDot(2, t, b.r0 + j)
  <2> DEFINE n == t * RowBlock + j
  <2>1. /\ g + n \in Room(p) /\ (g + n) - g = n /\ u + n \in Room(p) /\ (u + n) - u = n
        /\ n \div RowBlock = t /\ n % RowBlock = j
    BY <1>1, <1>4, <1>7, ColumnIs
  <2>2. n \in Nat /\ g + n < u
    BY <1>2, <1>4
  <2> HIDE DEF n
  <2>3. ~(u + n < u)
    BY <1>4, <2>2
  <2>4. cell(g + n) = column(1, n) /\ cell(u + n) = column(2, n)
    <3> HIDE DEF column
    <3> QED  BY <2>1, <2>2, <2>3
  <2>5. Fetched(t) = Rounded(t)
    BY <1>3, QuantizedRead
  <2>6. \A i \in {1, 2} : RefDot(i, t, b.r0 + j) = Dot(Rounded(t), WeightRow(i, b.r0 + j))
    <3>1. \A i \in {1, 2} : i \in Weights /\ Says(i) = 1
      BY <1>1 DEF Weights, Says
    <3> QED  BY <1>1, <1>3, <3>1, ProductIsRef
  <2>7. column(1, n) = RefDot(1, t, b.r0 + j) /\ column(2, n) = RefDot(2, t, b.r0 + j)
    BY <2>1, <2>5, <2>6
  <2> HIDE DEF cell, column
  <2> QED  BY <1>8, <2>1, <2>4, <2>7 DEF n
<1> HIDE DEF cell, column
<1>14. call.T' = call.T
  BY <1>5
<1>15. ProductsIn(g, 1, b.r0, b.nr)'
  <2>1. \A t, j : RefDot(1, t, b.r0 + j)' = RefDot(1, t, b.r0 + j)
    BY <1>1, <1>5, SameReference
  <2>2. \A t, j : Peek(scratch, g + (t * RowBlock + j))' = Peek(scratch', g + (t * RowBlock + j))
    BY DEF Peek
  <2> QED  BY <1>9, <1>14, <2>1, <2>2 DEF ProductsIn
<1>16. ProductsIn(u, 2, b.r0, b.nr)'
  <2>1. \A t, j : RefDot(2, t, b.r0 + j)' = RefDot(2, t, b.r0 + j)
    BY <1>1, <1>5, SameReference
  <2>2. \A t, j : Peek(scratch, u + (t * RowBlock + j))' = Peek(scratch', u + (t * RowBlock + j))
    BY DEF Peek
  <2> QED  BY <1>9, <1>14, <2>1, <2>2 DEF ProductsIn
<1>10. ProductsIn(g, 1, b.r0, b.nr)' /\ ProductsIn(u, 2, b.r0, b.nr)'
  BY <1>15, <1>16
<1>11. task'[p] # Idle /\ task'[p].step = "combine" /\ task'[p].block = b /\ task'[p].w = task[p].w
  BY <1>0, <1>1, AtBlock DEF Busy, Idle
<1>12. SwigluHeld(p)'
  BY <1>3, <1>5, <1>10, <1>11 DEF SwigluHeld
<1>13. Held(p)'
  BY <1>1, <1>5, <1>12 DEF Held
<1> QED  BY <1>1, <1>5, <1>6, <1>11, <1>13, FillSound

\* Outputs of quantized rows, to which a residual may have to be added.
LEMMA Int8OutSound ==
  ASSUME GatesAlike, TypeInv, Shared, ValueInv, NEW p \in 0..Threads-1, Onward(p), Int8Out(p)
  PROVE  Sound(p)
<1>0. PICK b \in Blocks : b = task[p].block
  BY AtBlock
<1>1. /\ call \in Calls /\ Held(p) /\ Sized /\ task[p].step = "int8" /\ task[p] # Idle
      /\ call.kernel = "matmul" /\ Tiled
      /\ IF call.res[b.target] THEN Go(p, "residual") ELSE Done(p)
  BY <1>0, AtBlock DEF Int8Out, At, Tiled, Block
<1>2. task[p].w = b.target /\ Int8(b.target)
  BY <1>0, <1>1 DEF Held, MatmulHeld
<1> DEFINE t(o) == o[2] \div Width(o[1])
           r(o) == o[2] % Width(o[1])
<1>3. /\ UNCHANGED <<call, phase, left, scratch, actq, actd>> /\ DOMAIN y' = DOMAIN y
      /\ \A o \in DOMAIN y \ Cells(b) : y'[o] = y[o]
      /\ \A o \in DOMAIN y \cap Cells(b) : y'[o] = Dot(Fetched(t(o)), WeightRow(o[1], r(o)))
  BY <1>0 DEF Int8Out, Write, Block
<1>4. ASSUME NEW o \in Cells(b) \cap Outputs
      PROVE  /\ y'[o] = RefDot(o[1], t(o), r(o))
             /\ Ref(o[1], o[2]) = Plus(RefDot(o[1], t(o), r(o)), o[1], o[2])
             /\ o[1] = b.target
  <2>1. o[1] = b.target /\ t(o) \in 0..call.T-1 /\ o \in DOMAIN y
    BY <1>1, <1>4, CellIs DEF Sized
  <2>2. Fetched(t(o)) = Rounded(t(o))
    BY <1>2, <2>1, QuantizedRead
  <2>3. b.target \in Weights /\ Says(b.target) = b.target
    BY <1>1, TiledBlock DEF Weights, Says
  <2>4. RefDot(b.target, t(o), r(o)) = Dot(Rounded(t(o)), WeightRow(b.target, r(o)))
    BY <1>1, <1>2, <2>3, ProductIsRef
  <2>5. y'[o] = Dot(Fetched(t(o)), WeightRow(o[1], r(o)))
    BY <1>3, <1>4, <2>1
  <2>6. Ref(o[1], o[2]) = Plus(RefDot(o[1], t(o), r(o)), o[1], o[2])
    BY <1>1, Reference
  <2> QED  BY <2>1, <2>2, <2>4, <2>5, <2>6
<1>5. CASE call.res[b.target]
  <2>1. task'[p] # Idle /\ task'[p].step = "residual" /\ task'[p].block = b /\ task'[p].w = task[p].w
    <3>1. task' = [task EXCEPT ![p].step = "residual"]
      BY <1>1, <1>5 DEF Go
    <3> QED  BY <1>0, <1>1, <3>1, AtBlock DEF Busy, Idle
  <2>2. ProductsOut(b)'
    <3>1. \A o : RefDot(o[1], o[2] \div Width(o[1]), o[2] % Width(o[1]))'
                   = RefDot(o[1], o[2] \div Width(o[1]), o[2] % Width(o[1]))
      BY <1>1, <1>3, SameTerms, SameReference
    <3>2. Outputs' = Outputs /\ Cells(b)' = Cells(b)
      BY <1>3, SameTerms
    <3>3. \A o \in Cells(b) \cap Outputs : y'[o] = RefDot(o[1], o[2] \div Width(o[1]), o[2] % Width(o[1]))
      BY <1>4
    <3> QED  BY <3>1, <3>2, <3>3 DEF ProductsOut
  <2>3. Int8(b.target)' = Int8(b.target)
    BY <1>3, SameTerms
  <2>4. MatmulHeld(p)'
    BY <1>2, <1>3, <1>5, <2>1, <2>2, <2>3 DEF MatmulHeld
  <2>5. Held(p)'
    BY <1>1, <1>3, <2>4 DEF Held
  <2> QED  BY <1>0, <1>1, <1>3, <2>1, <2>5 DEF Sound, Sized
<1>6. CASE ~call.res[b.target]
  <2>1. task'[p] = Idle
    BY <1>1, <1>6, AtBlock DEF Done
  <2>2. \A o \in Cells(b) \cap Outputs : y'[o] = Ref(o[1], o[2])
    BY <1>4, <1>6 DEF Plus
  <2> QED  BY <1>0, <1>1, <1>3, <2>1, <2>2 DEF Sound, Sized
<1> QED  BY <1>5, <1>6

\* A residual is added to the product of its element, once.
LEMMA ResidualSound ==
  ASSUME GatesAlike, TypeInv, ValueInv, NEW p \in 0..Threads-1, Onward(p), Residual(p)
  PROVE  Sound(p)
<1>0. PICK b \in Blocks : b = task[p].block
  BY AtBlock
<1>1. /\ call \in Calls /\ Held(p) /\ Sized /\ task[p].step = "residual" /\ task[p] # Idle
      /\ call.kernel = "matmul" /\ Tiled /\ task'[p] = Idle
  BY AtBlock DEF Residual, At, Tiled, Done
<1>2. ProductsOut(b)
  BY <1>0, <1>1 DEF Held, MatmulHeld
<1> DEFINE t(o) == o[2] \div Width(o[1])
           r(o) == o[2] % Width(o[1])
           n(o) == t(o) * Width(o[1]) + r(o)
<1>3. /\ UNCHANGED <<call, phase, left, scratch, actq, actd>> /\ DOMAIN y' = DOMAIN y
      /\ \A o \in DOMAIN y \ Cells(b) : y'[o] = y[o]
      /\ \A o \in DOMAIN y \cap Cells(b) : y'[o] = Plus(y[<<o[1], n(o)>>], o[1], n(o))
  BY <1>0 DEF Residual, Write, Block
<1>4. ASSUME NEW o \in Cells(b) \cap Outputs PROVE y'[o] = Ref(o[1], o[2])
  <2>1. n(o) = o[2] /\ o \in DOMAIN y
    BY <1>1, <1>4, CellIs DEF Sized
  <2>2. o = <<o[1], o[2]>>
    BY <1>4 DEF Outputs
  <2>3. y'[o] = Plus(y[o], o[1], o[2])
    BY <1>3, <1>4, <2>1, <2>2
  <2>4. y[o] = RefDot(o[1], t(o), r(o))
    BY <1>2, <1>4 DEF ProductsOut
  <2>5. Ref(o[1], o[2]) = Plus(RefDot(o[1], t(o), r(o)), o[1], o[2])
    BY <1>1, Reference
  <2> QED  BY <2>3, <2>4, <2>5
<1> QED  BY <1>0, <1>1, <1>3, <1>4 DEF Sound, Sized

\* The gate's and the other products meet at the element they are of.
LEMMA CombineSound ==
  ASSUME GatesAlike, TypeInv, ValueInv, NEW p \in 0..Threads-1, Onward(p), Combine(p)
  PROVE  Sound(p)
<1>0. PICK b \in Blocks, g \in {G(p)}, u \in {U(p)} : b = task[p].block /\ g = G(p) /\ u = U(p)
  BY AtBlock
<1>1. /\ call \in Calls /\ Held(p) /\ Sized /\ task[p].step = "combine" /\ task[p] # Idle
      /\ call.kernel = "swiglu" /\ Tiled /\ task'[p] = Idle
  BY AtBlock DEF Combine, At, Tiled, Done
<1>2. ProductsIn(g, 1, b.r0, b.nr) /\ ProductsIn(u, 2, b.r0, b.nr)
  BY <1>0, <1>1 DEF Held, SwigluHeld
<1> DEFINE t(o) == o[2] \div Width(o[1])
           r(o) == o[2] % Width(o[1])
           column(a, o) == Peek(scratch, a + t(o) * RowBlock + r(o) - b.r0)
<1>3. /\ UNCHANGED <<call, phase, left, scratch, actq, actd>> /\ DOMAIN y' = DOMAIN y
      /\ \A o \in DOMAIN y \ Cells(b) : y'[o] = y[o]
      /\ \A o \in DOMAIN y \cap Cells(b) : y'[o] = Gated(column(g, o), column(u, o))
  BY <1>0 DEF Combine, Write, Block
<1>4. ASSUME NEW o \in Cells(b) \cap Outputs PROVE y'[o] = Ref(o[1], o[2])
  <2> DEFINE j == r(o) - b.r0
             n == t(o) * RowBlock + j
  <2>1. t(o) \in 0..call.T-1 /\ j \in 0..b.nr-1 /\ b.r0 + j = r(o) /\ r(o) \in Nat /\ o \in DOMAIN y
    BY <1>1, <1>4, CellIs DEF Sized
  <2>2. g \in Nat /\ u \in Nat /\ RowBlock \in Nat /\ b.r0 \in Nat
    BY <1>0, <1>1, TiledLayout, TiledBlock
  <2>3. \A a \in Nat : a + t(o) * RowBlock + r(o) - b.r0 = a + n
    <3>1. t(o) * RowBlock \in Nat
      BY <2>1, <2>2, TimesGrows
    <3> DEFINE m == t(o) * RowBlock
               rr == r(o)
    <3>2. m \in Nat /\ rr \in Nat
      BY <2>1, <3>1
    <3> HIDE DEF m, rr
    <3>3. \A a \in Nat : a + m + rr - b.r0 = a + (m + (rr - b.r0))
      BY <2>2, <3>2
    <3> QED  BY <3>3 DEF m, rr
  <2>4. column(g, o) = Peek(scratch, g + n) /\ column(u, o) = Peek(scratch, u + n)
    BY <2>2, <2>3
  <2>5. Peek(scratch, g + n) = RefDot(1, t(o), r(o)) /\ Peek(scratch, u + n) = RefDot(2, t(o), r(o))
    <3>1. /\ Peek(scratch, g + n) = RefDot(1, t(o), b.r0 + j)
          /\ Peek(scratch, u + n) = RefDot(2, t(o), b.r0 + j)
      <4> HIDE DEF t, j
      <4> QED  BY <1>2, <2>1 DEF ProductsIn
    <3> QED  BY <2>1, <3>1
  <2>6. Ref(o[1], o[2]) = Gated(RefDot(1, t(o), r(o)), RefDot(2, t(o), r(o)))
    BY <1>1, Reference
  <2>7. y'[o] = Gated(column(g, o), column(u, o))
    BY <1>3, <1>4, <2>1
  <2> QED  BY <2>4, <2>5, <2>6, <2>7
<1> QED  BY <1>0, <1>1, <1>3, <1>4 DEF Sound, Sized

\* The query is rotated into the scratch.
LEMMA RotateSound ==
  ASSUME TypeInv, ValueInv, NEW p \in 0..Threads-1, Onward(p), Rotate(p)
  PROVE  Sound(p)
<1>0. PICK b \in Blocks : b = task[p].block
  BY AtBlock
<1>1. /\ call \in Calls /\ Held(p) /\ Sized /\ task[p].step = "rotate" /\ task[p] # Idle
      /\ call.kernel = "attention" /\ task' = [task EXCEPT ![p].step = "score"]
  BY AtBlock DEF Rotate, Go, StepsOf
<1>2. call.rope /\ HeadDim \in Nat /\ Deq(p) \in Nat
  BY <1>1, Sizes, TimesGrows DEF Held, AttentionHeld, Deq
<1> DEFINE t == b.r0 \div call.heads
           h == b.r0 % call.heads
           cell(a) == Query(t, h, TRUE)[a - Deq(p)]
           f == [a \in Room(p) |-> cell(a)]
<1>3. UNCHANGED <<call, phase, left, actq, actd, y>> /\ scratch' = Stored(scratch, f)
  BY <1>0 DEF Rotate, Fill, Block
<1>4. Room(p) = Deq(p) .. Deq(p) + HeadDim - 1
  BY <1>1 DEF Room, At
<1>5. \A a \in Room(p) : Peek(scratch', a) = cell(a)
  <2> HIDE DEF cell
  <2>1. \A a \in Room(p) : Peek(scratch', a) = f[a]
    BY <1>1, <1>3, FillGives
  <2> QED  BY <2>1
<1>6. ASSUME NEW i \in 0..HeadDim-1 PROVE Peek(scratch', Deq(p) + i) = Query(t, h, TRUE)[i]
  <2>1. Deq(p) + i \in Room(p) /\ (Deq(p) + i) - Deq(p) = i
    BY <1>2, <1>4
  <2>2. cell(Deq(p) + i) = Query(t, h, TRUE)[i]
    BY <2>1
  <2> HIDE DEF cell
  <2> QED  BY <1>5, <2>1, <2>2
<1> HIDE DEF cell
<1>7. task'[p] # Idle /\ task'[p].step = "score" /\ task'[p].block = b
  BY <1>0, <1>1, AtBlock DEF Busy, Idle
<1>8. AttentionHeld(p)'
  <2>1. Query(t, h, TRUE)' = Query(t, h, TRUE) /\ Deq(p)' = Deq(p)
    BY <1>3, SameTerms DEF Deq
  <2>2. (call.rope => call.rope = TRUE) /\ call' = call
    <3>1. IsCall(call)
      BY <1>1, KernelsAssumption DEF KernelsAssumption
    <3> QED  BY <1>1, <1>3, <3>1 DEF IsCall
  <2>3. \A i : Peek(scratch, Deq(p) + i)' = Peek(scratch', Deq(p) + i)
    BY DEF Peek, Deq
  <2>4. t' = t /\ h' = h
    BY <2>2
  <2> HIDE DEF t, h
  <2>5. \A i \in 0..HeadDim-1 : Peek(scratch, Deq(p) + i)' = Query(t, h, call.rope)[i]'
    BY <1>2, <1>6, <2>1, <2>2, <2>3
  <2>6. (task[p].block.r0 \div call.heads)' = t /\ (task[p].block.r0 % call.heads)' = h
    BY <1>7, <2>2 DEF t, h
  <2> QED  BY <1>2, <1>7, <2>2, <2>4, <2>5, <2>6 DEF AttentionHeld
<1>9. Held(p)'
  BY <1>1, <1>3, <1>8 DEF Held
<1> QED  BY <1>1, <1>3, <1>7, <1>9, FillSound

\* The scores of the rows up to the token's own.
LEMMA ScoreRowsSound ==
  ASSUME TypeInv, ValueInv, NEW p \in 0..Threads-1, Onward(p), ScoreRows(p)
  PROVE  Sound(p)
<1>0. PICK b \in Blocks : b = task[p].block
  BY AtBlock
<1>1. /\ call \in Calls /\ Held(p) /\ Sized /\ task[p].step = "score" /\ task[p] # Idle
      /\ call.kernel = "attention" /\ task' = [task EXCEPT ![p].step = "attend"]
  BY AtBlock DEF ScoreRows, Go, StepsOf
<1> DEFINE t == b.r0 \div call.heads
           h == b.r0 % call.heads
           q == IF call.rope THEN [i \in 0..HeadDim-1 |-> Peek(scratch, Deq(p) + i)]
                ELSE Query(t, h, FALSE)
           cell(a) == Score(q, h \div call.grp, a - Scores(p))
           f == [a \in Room(p) |-> cell(a)]
<1>2. UNCHANGED <<call, phase, left, actq, actd, y>> /\ scratch' = Stored(scratch, f)
  BY <1>0 DEF ScoreRows, Fill, Block
<1>3. Room(p) = Scores(p) .. Scores(p) + call.pos0 + t
  BY <1>0, <1>1 DEF Room, At, Block
<1>4. t \in 0..call.T-1 /\ call.T \in Nat /\ call.pos0 \in Nat /\ Scores(p) \in Nat
  <2>1. t \in 0..call.T-1 /\ call.T \in Nat
    BY <1>0, <1>1, TaskIs, Arguments
  <2> QED  BY <1>1, <2>1, AttentionLayout
<1>5. q = Query(t, h, call.rope)
  <2>1. IsCall(call)
    BY <1>1, KernelsAssumption DEF KernelsAssumption
  <2>2. CASE call.rope
    <3>1. \A i \in 0..HeadDim-1 : Peek(scratch, Deq(p) + i) = Query(t, h, call.rope)[i]
      BY <1>0, <1>1, <2>2 DEF Held, AttentionHeld
    <3>2. Query(t, h, call.rope) = [i \in 0..HeadDim-1 |-> Query(t, h, call.rope)[i]]
      BY DEF Query
    <3> QED  BY <2>2, <3>1, <3>2
  <2>3. CASE ~call.rope
    BY <1>1, <2>1, <2>3 DEF IsCall
  <2> QED  BY <2>2, <2>3
<1> HIDE DEF q
<1>6. \A a \in Room(p) : Peek(scratch', a) = cell(a)
  <2> HIDE DEF cell
  <2>1. \A a \in Room(p) : Peek(scratch', a) = f[a]
    BY <1>1, <1>2, FillGives
  <2> QED  BY <2>1
<1>7. ASSUME NEW j \in 0..call.pos0+t
      PROVE  Peek(scratch', Scores(p) + j) = Score(Query(t, h, call.rope), h \div call.grp, j)
  <2>1. Scores(p) + j \in Room(p) /\ (Scores(p) + j) - Scores(p) = j
    <3> HIDE DEF t
    <3> QED  BY <1>3, <1>4
  <2>2. cell(Scores(p) + j) = Score(Query(t, h, call.rope), h \div call.grp, j)
    BY <1>5, <2>1
  <2> HIDE DEF cell
  <2> QED  BY <1>6, <2>1, <2>2
<1> HIDE DEF cell
<1>8. task'[p] # Idle /\ task'[p].step = "attend" /\ task'[p].block = b
  BY <1>0, <1>1, AtBlock DEF Busy, Idle
<1>9. AttentionHeld(p)'
  <2>1. Query(t, h, call.rope)' = Query(t, h, call.rope) /\ Scores(p)' = Scores(p) /\ call' = call
    BY <1>2, SameTerms DEF Scores, Deq
  <2>2. \A j : Peek(scratch, Scores(p) + j)' = Peek(scratch', Scores(p) + j)
    BY DEF Peek, Scores, Deq
  <2>4. (task[p].block.r0 \div call.heads)' = t /\ (task[p].block.r0 % call.heads)' = h /\ t' = t /\ h' = h
    BY <1>8, <2>1
  <2> HIDE DEF t, h
  <2>5. \A j \in 0..call.pos0+t :
          Peek(scratch, Scores(p) + j)' = Score(Query(t, h, call.rope), h \div call.grp, j)'
    <3>1. \A j : Score(Query(t, h, call.rope), h \div call.grp, j)' = Score(Query(t, h, call.rope), h \div call.grp, j)
      BY <2>1, <2>4 DEF Score
    <3>2. \A j \in 0..call.pos0+t : Peek(scratch, Scores(p) + j)' = Score(Query(t, h, call.rope), h \div call.grp, j)
      BY <1>7, <2>2
    <3> QED  BY <3>1, <3>2
  <2> QED  BY <1>8, <2>1, <2>4, <2>5 DEF AttentionHeld
<1>10. Held(p)'
  BY <1>1, <1>2, <1>9 DEF Held
<1> QED  BY <1>1, <1>2, <1>8, <1>10, FillSound

\* A token and head attend to their own scores.
LEMMA AttendSound ==
  ASSUME TypeInv, ValueInv, NEW p \in 0..Threads-1, Onward(p), Attend(p)
  PROVE  Sound(p)
<1>0. PICK b \in Blocks : b = task[p].block
  BY AtBlock
<1>1. /\ call \in Calls /\ Held(p) /\ Sized /\ task[p].step = "attend" /\ task[p] # Idle
      /\ call.kernel = "attention" /\ task'[p] = Idle
  BY AtBlock DEF Attend, Done, StepsOf
<1> DEFINE t(o) == o[2] \div Width(o[1])
           h(o) == o[2] % Width(o[1])
<1>2. /\ UNCHANGED <<call, phase, left, scratch, actq, actd>> /\ DOMAIN y' = DOMAIN y
      /\ \A o \in DOMAIN y \ Cells(b) : y'[o] = y[o]
      /\ \A o \in DOMAIN y \cap Cells(b) :
           y'[o] = Attended([j \in 0..call.pos0+t(o) |-> Peek(scratch, Scores(p) + j)], h(o) \div call.grp)
  BY <1>0 DEF Attend, Write, Block
<1>3. ASSUME NEW o \in Cells(b) \cap Outputs PROVE y'[o] = Ref(o[1], o[2])
  <2>1. o = <<1, b.r0>> /\ Width(o[1]) = call.heads
    BY <1>1, <1>3 DEF Cells, Tiled, Width
  <2>2. \A j \in 0..call.pos0+t(o) :
          Peek(scratch, Scores(p) + j) = Score(Query(t(o), h(o), call.rope), h(o) \div call.grp, j)
    BY <1>0, <1>1, <2>1 DEF Held, AttentionHeld
  <2>3. Ref(o[1], o[2]) = Attended([j \in 0..call.pos0+t(o) |->
                            Score(Query(t(o), h(o), call.rope), h(o) \div call.grp, j)], h(o) \div call.grp)
    BY <1>1, Reference
  <2>4. y'[o] = Attended([j \in 0..call.pos0+t(o) |-> Peek(scratch, Scores(p) + j)], h(o) \div call.grp)
    BY <1>1, <1>2, <1>3 DEF Sized
  <2> HIDE DEF t, h
  <2>5. [j \in 0..call.pos0+t(o) |-> Peek(scratch, Scores(p) + j)]
          = [j \in 0..call.pos0+t(o) |-> Score(Query(t(o), h(o), call.rope), h(o) \div call.grp, j)]
    BY <2>2
  <2> QED  BY <2>3, <2>4, <2>5
<1> QED  BY <1>0, <1>1, <1>2, <1>3 DEF Sound, Sized

\* A row is normalized by itself.
LEMMA NormSound ==
  ASSUME TypeInv, ValueInv, NEW p \in 0..Threads-1, Onward(p), Norm(p)
  PROVE  Sound(p)
<1>0. PICK b \in Blocks : b = task[p].block
  BY AtBlock
<1>1. /\ call \in Calls /\ Held(p) /\ Sized /\ task[p].step = "norm" /\ task[p] # Idle
      /\ call.kernel = "rmsnorm" /\ task'[p] = Idle
  BY AtBlock, Arguments DEF Norm, Done, StepsOf, Tiled
<1> DEFINE t(o) == o[2] \div Width(o[1])
<1>2. /\ UNCHANGED <<call, phase, left, scratch, actq, actd>> /\ DOMAIN y' = DOMAIN y
      /\ \A o \in DOMAIN y \ Cells(b) : y'[o] = y[o]
      /\ \A o \in DOMAIN y \cap Cells(b) : y'[o] = <<"rmsnorm", X(t(o))>>
  BY <1>0 DEF Norm, Write, Block
<1>3. ASSUME NEW o \in Cells(b) \cap Outputs PROVE y'[o] = Ref(o[1], o[2])
  <2>1. Ref(o[1], o[2]) = <<"rmsnorm", X(t(o))>>
    BY <1>1, Reference
  <2> QED  BY <1>1, <1>2, <1>3, <2>1 DEF Sized
<1> QED  BY <1>0, <1>1, <1>2, <1>3 DEF Sound, Sized
-----------------------------------------------------------------------------
(* The result of a call                                                    *)

\* A call begins with nothing computed.
LEMMA ValueInit == Init => ValueInv
<1> SUFFICES ASSUME Init PROVE ValueInv
  OBVIOUS
<1>1. Sized
  BY DEF Init, Sized
<1> QED  BY <1>1 DEF Init, ValueInv, RowsRead, NoneLost

\* Element k of row s, of w elements each.
LEMMA RowElement ==
  ASSUME NEW w \in Nat, NEW T \in Nat, NEW s \in 0..T-1, NEW k \in 0..w-1
  PROVE  /\ s * w + k \in 0..T*w-1 /\ s * w + k \in s * w .. (s + 1) * w - 1
         /\ (s * w + k) - s * w = k /\ s * w + k \in Nat
<1>1. s * w \in Nat /\ T * w \in Nat /\ (s + 1) * w = s * w + w /\ (s + 1) * w <= T * w
  BY TimesGrows
<1> QED  BY <1>1

\* It is in no other row.
LEMMA RowsApart ==
  ASSUME NEW w \in Nat, NEW s \in Nat, NEW t \in Nat, NEW k \in 0..w-1, s # t
  PROVE  s * w + k \notin t * w .. (t + 1) * w - 1
<1> SUFFICES ASSUME s * w + k \in t * w .. (t + 1) * w - 1 PROVE FALSE
  OBVIOUS
<1>1. s * w \in Nat /\ t * w \in Nat /\ (t + 1) * w = t * w + w
  BY TimesGrows
<1> DEFINE j == (s * w + k) - t * w
<1>2. j \in 0..w-1 /\ s * w + k = t * w + j
  BY <1>1
<1> HIDE DEF j
<1> QED  BY <1>2, RestIsUnique

\* A row that is quantized can be read, and those that were still can.
LEMMA QuantizeRowReads ==
  ASSUME TypeInv, ValueInv, NEW p, NEW t, QuantizeRow(p, t)
  PROVE  /\ t \in 0..call.T-1 /\ RowRead(t)'
         /\ \A s \in 0..call.T-1 : RowRead(s) => RowRead(s)'
         /\ DOMAIN actq' = DOMAIN actq /\ DOMAIN actd' = DOMAIN actd
<1> DEFINE K == call.K
           nb == K \div ActBlock
           fq == [a \in t * K .. (t + 1) * K - 1 |-> Quants(t, a - t * K)]
           fd == [a \in t * nb .. (t + 1) * nb - 1 |-> ScaleOf(t, a - t * nb)]
<1>1. /\ phase = "quantize" /\ t \in left /\ call' = call
      /\ actq' = Stored(actq, fq) /\ actd' = Stored(actd, fd)
  BY DEF QuantizeRow
<1>2. Quantizes /\ t \in 0..call.T-1
  BY <1>1 DEF ValueInv, RowsRead
<1>3. call \in Calls /\ call.T \in Nat /\ call.T <= MaxBatch
  BY Arguments DEF TypeInv
<1>4. /\ K \in Nat \ {0} /\ K <= MaxK /\ K % ActBlock = 0 /\ ActBlock \in Nat \ {0}
      /\ MaxK \in Nat /\ MaxBatch \in Nat
  <2>1. call.kernel \in {"matmul", "swiglu"} /\ call.K % ActBlock = 0
    BY <1>2 DEF Quantizes, Applies
  <2>2. call.K \in Nat \ {0} /\ call.K <= MaxK
    BY <1>3, <2>1, Arguments
  <2> QED  BY <2>1, <2>2, KernelsAssumption DEF KernelsAssumption
<1>5. nb \in Nat /\ K = nb * ActBlock
  <2> HIDE DEF K
  <2>1. nb \in Nat /\ K = ActBlock * nb + (K % ActBlock)
    BY <1>4
  <2> QED  BY <1>4, <2>1
<1>6. \A k \in 0..K-1 : k \div ActBlock \in 0..nb-1
  BY <1>4, <1>5, TokenOfItem
<1> DEFINE nbMax == MaxK \div ActBlock + 1
<1>7. nbMax \in Nat /\ nb <= nbMax
  <2> DEFINE n == MaxK \div ActBlock
  <2>1. n \in Nat /\ MaxK = ActBlock * n + (MaxK % ActBlock) /\ MaxK % ActBlock \in 0..ActBlock-1
    BY <1>4
  <2> HIDE DEF n, nb, K
  <2>2. ASSUME nb > n PROVE FALSE
    <3>1. (n + 1) * ActBlock <= nb * ActBlock
      BY <1>4, <1>5, <2>1, <2>2, TimesGrows
    <3>2. (n + 1) * ActBlock = ActBlock * n + ActBlock /\ ActBlock * n \in Nat /\ nb * ActBlock \in Nat
      BY <1>4, <1>5, <2>1, TimesGrows
    <3> QED  BY <1>4, <1>5, <2>1, <3>1, <3>2
  <2> QED  BY <1>5, <2>1, <2>2 DEF n
<1>8. DOMAIN actq = 0 .. MaxBatch * MaxK - 1 /\ DOMAIN actd = 0 .. MaxBatch * nbMax - 1
  BY DEF ValueInv, Sized
<1> HIDE DEF K, nb, nbMax
<1>9. call.T * K <= MaxBatch * MaxK /\ call.T * nb <= MaxBatch * nbMax
      /\ MaxBatch * MaxK \in Nat /\ MaxBatch * nbMax \in Nat
  BY <1>3, <1>4, <1>5, <1>7, TimesGrows
<1>10. ASSUME NEW s \in 0..call.T-1, NEW k \in 0..K-1
       PROVE  /\ Peek(actq', s * K + k) = IF s = t THEN Quants(t, k) ELSE Peek(actq, s * K + k)
              /\ Peek(actd', s * nb + k \div ActBlock)
                   = IF s = t THEN ScaleOf(t, k \div ActBlock) ELSE Peek(actd, s * nb + k \div ActBlock)
  <2> DEFINE b == k \div ActBlock
  <2>1. b \in 0..nb-1 /\ K \in Nat
    BY <1>4, <1>6
  <2> HIDE DEF b
  <2>2. /\ s * K + k \in DOMAIN actq
        /\ t * K + k \in t * K .. (t + 1) * K - 1 /\ (t * K + k) - t * K = k
    <3>1. s * K + k \in 0..call.T*K-1 /\ s * K + k \in Nat
      BY <1>3, <2>1, RowElement
    <3>2. t * K + k \in t * K .. (t + 1) * K - 1 /\ (t * K + k) - t * K = k
      BY <1>2, <1>3, <2>1, RowElement
    <3>3. call.T * K \in Nat
      BY <1>3, <2>1, TimesGrows
    <3> QED  BY <1>8, <1>9, <3>1, <3>2, <3>3
  <2>3. /\ s * nb + b \in DOMAIN actd
        /\ t * nb + b \in t * nb .. (t + 1) * nb - 1 /\ (t * nb + b) - t * nb = b
    <3>1. s * nb + b \in 0..call.T*nb-1 /\ s * nb + b \in Nat
      BY <1>3, <1>5, <2>1, RowElement
    <3>2. t * nb + b \in t * nb .. (t + 1) * nb - 1 /\ (t * nb + b) - t * nb = b
      BY <1>2, <1>3, <1>5, <2>1, RowElement
    <3>3. call.T * nb \in Nat
      BY <1>3, <1>5, TimesGrows
    <3> QED  BY <1>8, <1>9, <3>1, <3>2, <3>3
  <2>4. fq[t * K + k] = Quants(t, k) /\ fd[t * nb + b] = ScaleOf(t, b)
    BY <2>2, <2>3
  <2>5. DOMAIN fq = t * K .. (t + 1) * K - 1 /\ DOMAIN fd = t * nb .. (t + 1) * nb - 1
    OBVIOUS
  <2> HIDE DEF fq, fd
  <2>6. CASE s = t
    <3>1. Peek(Stored(actq, fq), t * K + k) = fq[t * K + k]
      <4>1. t * K + k \in DOMAIN actq /\ t * K + k \in DOMAIN fq
        BY <2>2, <2>5, <2>6
      <4> QED  BY <4>1, PeekStored
    <3>2. Peek(Stored(actd, fd), t * nb + b) = fd[t * nb + b]
      <4>1. t * nb + b \in DOMAIN actd /\ t * nb + b \in DOMAIN fd
        BY <2>3, <2>5, <2>6
      <4> QED  BY <4>1, PeekStored
    <3> QED  BY <1>1, <2>4, <2>6, <3>1, <3>2 DEF b
  <2>7. CASE s # t
    <3>1. s \in Nat /\ t \in Nat
      BY <1>2
    <3>2. s * K + k \notin t * K .. (t + 1) * K - 1
      BY <2>1, <2>7, <3>1, RowsApart
    <3>3. s * nb + b \notin t * nb .. (t + 1) * nb - 1
      BY <1>5, <2>1, <2>7, <3>1, RowsApart
    <3>4. Peek(Stored(actq, fq), s * K + k) = Peek(actq, s * K + k)
      BY <2>5, <3>2, PeekStored, ZenonT(40)
    <3>5. Peek(Stored(actd, fd), s * nb + b) = Peek(actd, s * nb + b)
      BY <2>5, <3>3, PeekStored
    <3> QED  BY <1>1, <2>7, <3>4, <3>5 DEF b
  <2> QED  BY <2>6, <2>7
<1>11. \A s \in 0..call.T-1 :
         /\ Fetched(s)' = [k \in 0..K-1 |-> <<Peek(actq', s * K + k), Peek(actd', s * nb + k \div ActBlock)>>]
         /\ Fetched(s) = [k \in 0..K-1 |-> <<Peek(actq, s * K + k), Peek(actd, s * nb + k \div ActBlock)>>]
         /\ Rounded(s)' = Rounded(s)
         /\ Rounded(s) = [k \in 0..K-1 |-> <<Quants(s, k), ScaleOf(s, k \div ActBlock)>>]
  BY <1>1 DEF Fetched, Rounded, Peek, K, nb
<1>12. RowRead(t)'
  BY <1>2, <1>10, <1>11, ZenonT(40) DEF RowRead
<1>13. ASSUME NEW s \in 0..call.T-1, s # t, RowRead(s) PROVE RowRead(s)'
  BY <1>10, <1>11, <1>13, ZenonT(40) DEF RowRead
<1>14. DOMAIN actq' = DOMAIN actq /\ DOMAIN actd' = DOMAIN actd
  BY <1>1, PeekStored
<1> QED  BY <1>2, <1>12, <1>13, <1>14

\* When all threads are idle, the caller's steps keep the rest.
LEMMA ValueNext == GatesAlike /\ TypeInv /\ Shared /\ ValueInv /\ [Next]_vars => ValueInv'
<1> SUFFICES ASSUME GatesAlike, TypeInv, Shared, ValueInv, [Next]_vars PROVE ValueInv'
  OBVIOUS
<1>0. /\ Sized /\ RowsRead /\ NoneLost /\ (phase = "returned" => left = {}) /\ call \in Calls
      /\ task \in [0..Threads-1 -> {Idle} \cup Busy]
      /\ \A p \in 0..Threads-1 : task[p] # Idle => Held(p) /\ phase = "blocks"
  BY DEF ValueInv, TypeInv, Shared
<1>1. ASSUME UNCHANGED <<call, task, scratch, actq, actd, y>> PROVE Sized' /\ \A t : RowRead(t)' = RowRead(t)
  BY <1>0, <1>1, SameTerms DEF Sized, RowRead, Fetched
<1>2. CASE Enter
  <2>1. UNCHANGED <<call, task, scratch, actq, actd, y>> /\ \A p \in 0..Threads-1 : task[p] = Idle
    BY <1>0, <1>2 DEF Enter
  <2>2. Blocks' = Blocks /\ Quantizes' = Quantizes
    BY <2>1, SameCall, SameTerms
  <2>3. CASE Quantizes
    <3>1. phase' = "quantize" /\ left' = 0..call.T-1
      BY <1>2, <2>3 DEF Enter
    <3> QED  BY <1>1, <2>1, <2>2, <2>3, <3>1 DEF ValueInv, RowsRead, NoneLost
  <2>4. CASE ~Quantizes
    <3>1. phase' = "blocks" /\ left' = Blocks
      BY <1>2, <2>4 DEF Enter
    <3> QED  BY <1>1, <2>1, <2>2, <2>4, <3>1 DEF ValueInv, RowsRead, NoneLost
  <2> QED  BY <2>3, <2>4
<1>3. CASE Quantized
  <2>1. UNCHANGED <<call, task, scratch, actq, actd, y>> /\ \A p \in 0..Threads-1 : task[p] = Idle
    BY <1>0, <1>3 DEF Quantized
  <2>2. Blocks' = Blocks /\ Quantizes' = Quantizes
    BY <2>1, SameCall, SameTerms
  <2>3. phase = "quantize" /\ left = {} /\ phase' = "blocks" /\ left' = Blocks
    BY <1>3 DEF Quantized
  <2>4. \A t \in 0..call.T-1 : RowRead(t)
    BY <1>0, <2>3 DEF RowsRead
  <2> QED  BY <1>1, <2>1, <2>2, <2>3, <2>4 DEF ValueInv, RowsRead, NoneLost
<1>4. CASE Return
  <2>1. UNCHANGED <<call, left, task, scratch, actq, actd, y>> /\ phase = "blocks" /\ phase' = "returned" /\ left = {}
    BY <1>4 DEF Return
  <2>2. \A p \in 0..Threads-1 : task'[p] = Idle
    BY <1>0, <1>4 DEF Return
  <2>3. Blocks' = Blocks /\ Quantizes' = Quantizes
    BY <2>1, SameCall, SameTerms
  <2>4. \A b : Finished(b)' = Finished(b)
    BY <1>0, <2>1, SameTerms, SameReference DEF Finished
  <2>5. NoneLost'
    BY <1>0, <2>1, <2>3, <2>4 DEF NoneLost
  <2> QED  BY <1>0, <1>1, <2>1, <2>2, <2>3, <2>5 DEF ValueInv, RowsRead
<1>5. CASE UNCHANGED vars
  <2>1. UNCHANGED <<call, phase, left, task, scratch, actq, actd, y>>
    BY <1>5 DEF vars
  <2>2. \A a : Peek(scratch', a) = Peek(scratch, a)
    BY <2>1
  <2>3. \A p \in 0..Threads-1 : task'[p] # Idle => Held(p)'
    BY <1>0, <2>1, <2>2, HeldKept
  <2>4. Blocks' = Blocks /\ Quantizes' = Quantizes
    BY <2>1, SameCall, SameTerms
  <2>5. \A b : Finished(b)' = Finished(b)
    BY <1>0, <2>1, SameTerms, SameReference DEF Finished
  <2>6. NoneLost'
    BY <1>0, <2>1, <2>4, <2>5 DEF NoneLost
  <2> QED  BY <1>0, <1>1, <2>1, <2>3, <2>4, <2>6 DEF ValueInv, RowsRead
<1>6. ASSUME NEW p \in 0..Threads-1, NEW t, QuantizeRow(p, t) PROVE ValueInv'
  <2>1. /\ UNCHANGED <<call, phase, task, scratch, y>> /\ phase = "quantize" /\ left' = left \ {t}
        /\ \A q \in 0..Threads-1 : task[q] = Idle
    BY <1>0, <1>6 DEF QuantizeRow
  <2>2. /\ t \in 0..call.T-1 /\ RowRead(t)' /\ \A s \in 0..call.T-1 : RowRead(s) => RowRead(s)'
        /\ DOMAIN actq' = DOMAIN actq /\ DOMAIN actd' = DOMAIN actd
    BY <1>6, QuantizeRowReads
  <2>3. Quantizes' = Quantizes /\ Outputs' = Outputs
    BY <2>1, SameTerms
  <2>4. Sized'
    BY <1>0, <2>1, <2>2, <2>3 DEF Sized
  <2>5. RowsRead'
    BY <1>0, <2>1, <2>2, <2>3 DEF RowsRead
  <2> QED  BY <2>1, <2>4, <2>5 DEF ValueInv, NoneLost
<1>7. ASSUME NEW p \in 0..Threads-1, NEW b \in left, Take(p, b) PROVE ValueInv'
  <2> DEFINE v == [step |-> Way(b), block |-> b, w |-> b.target]
  <2>1. /\ UNCHANGED <<call, phase, scratch, actq, actd, y>> /\ phase = "blocks" /\ left' = left \ {b}
        /\ task[p] = Idle /\ task' = [task EXCEPT ![p] = v] /\ b \in Blocks
    BY <1>7 DEF Take, TypeInv
  <2>2. v.step = Way(b) /\ v.block = b /\ v.w = b.target
    OBVIOUS
  <2> HIDE DEF v
  <2>3. task'[p] = v /\ \A q \in 0..Threads-1 : q # p => task'[q] = task[q]
    BY <1>0, <2>1
  <2>4. Held(p)'
    <3>1. \A i : Int8(i)' = Int8(i)
      BY <2>1, SameTerms
    <3>2. CASE Tiled
      <4>1. Way(b) = IF Int8(b.target) THEN "int8" ELSE IF call.T = 1 THEN "rows" ELSE "tile"
        <5>1. call.kernel # "attention" /\ call.kernel # "rmsnorm"
          BY <3>2 DEF Tiled
        <5>2. CASE Int8(b.target)
          BY <3>2, <5>1, <5>2 DEF Way
        <5>3. CASE ~Int8(b.target)
          BY <3>2, <5>1, <5>3 DEF Way
        <5> QED  BY <5>2, <5>3
      <4>2. b.target \in Targets
        BY <1>0, <2>1, <3>2, TiledBlock
      <4>3. CASE call.kernel = "matmul"
        <5>1. MatmulHeld(p)'
          BY <2>2, <2>3, <3>1, <4>1 DEF MatmulHeld
        <5> QED  BY <2>1, <4>3, <5>1 DEF Held
      <4>4. CASE call.kernel = "swiglu"
        <5>1. b.target = 1
          BY <4>2, <4>4 DEF Targets
        <5>2. SwigluHeld(p)'
          BY <2>2, <2>3, <3>1, <4>1, <5>1 DEF SwigluHeld
        <5> QED  BY <2>1, <4>4, <5>2 DEF Held
      <4> QED  BY <3>2, <4>3, <4>4 DEF Tiled
    <3>3. CASE call.kernel = "attention"
      <4>1. Way(b) = IF call.rope THEN "rotate" ELSE "score"
        BY <3>3 DEF Way, Tiled
      <4>2. AttentionHeld(p)'
        BY <2>1, <2>2, <2>3, <4>1 DEF AttentionHeld
      <4> QED  BY <2>1, <3>3, <4>2 DEF Held
    <3>4. CASE call.kernel = "rmsnorm"
      BY <2>1, <3>4 DEF Held
    <3> QED  BY <1>0, <3>2, <3>3, <3>4, Arguments DEF Tiled
  <2>5. ASSUME NEW q \in 0..Threads-1, task'[q] # Idle PROVE Held(q)'
    <3>1. CASE q # p
      <4>1. task'[q] = task[q] /\ \A a : Peek(scratch', a) = Peek(scratch, a)
        BY <2>1, <2>3, <3>1
      <4> QED  BY <1>0, <2>1, <2>5, <4>1, HeldKept
    <3> QED  BY <2>4, <3>1
  <2>6. Blocks' = Blocks /\ Quantizes' = Quantizes
    BY <2>1, SameCall, SameTerms
  <2>7. \A c : Finished(c)' = Finished(c)
    BY <1>0, <2>1, SameTerms, SameReference DEF Finished
  <2>8. task'[p] # Idle
    BY <2>2, <2>3, <1>0 DEF Idle, v
  <2>9. NoneLost'
    <3> SUFFICES ASSUME NEW c \in Blocks
                 PROVE  \/ c \in left'
                        \/ \E q \in 0..Threads-1 : task'[q] # Idle /\ task'[q].block = c
                        \/ Finished(c)'
      BY <2>6 DEF NoneLost
    <3>1. CASE c = b
      BY <2>2, <2>3, <2>8, <3>1
    <3>2. CASE c # b
      <4>1. \A q \in 0..Threads-1 : task[q] # Idle => task'[q] = task[q]
        BY <2>1, <2>3
      <4> QED  BY <1>0, <2>1, <2>7, <3>2, <4>1 DEF NoneLost
    <3> QED  BY <3>1, <3>2
  <2> QED  BY <1>0, <1>1, <2>1, <2>5, <2>6, <2>9, SameTerms DEF ValueInv, RowsRead, Sized, RowRead, Fetched
<1>8. ASSUME NEW p \in 0..Threads-1, Working(p) PROVE ValueInv'
  <2>1. Onward(p)
    BY <1>8, WorkingGoesOn
  <2>2. Sound(p)
    BY <1>8, <2>1, RowsSound, TileSound, GemmOutSound, GemmGateSound, Int8OutSound, ResidualSound,
       Int8GatesSound, CombineSound, RotateSound, ScoreRowsSound, AttendSound, NormSound DEF Working
  <2> QED  BY <2>2, SoundKeeps
<1>9. ASSUME NEW p \in DOMAIN task, Step(p) PROVE ValueInv'
  BY <1>0, <1>6, <1>7, <1>8, <1>9 DEF Step, Working
<1>10. CASE Returned
  BY <1>5, <1>10 DEF Returned
<1>11. Enter \/ Quantized \/ Return \/ Returned \/ (\E p \in DOMAIN task : Step(p)) \/ UNCHANGED vars
  BY DEF Next
<1> QED  BY <1>2, <1>3, <1>4, <1>5, <1>9, <1>10, <1>11

\* When a kernel returns, every element of its outputs is the reference's, for every tile size, number of
\* threads, order of the blocks and size of the call, in every file whose gate and up weights are alike.
THEOREM KernelsMatch == ASSUME GatesAlike PROVE Spec => []MatchesReference
<1>1. Init => ValueInv
  BY ValueInit
<1>2. TypeInv /\ Shared /\ ValueInv /\ [Next]_vars => ValueInv'
  BY ValueNext
<1>3. TypeInv /\ Shared /\ ValueInv => MatchesReference
  <2> SUFFICES ASSUME TypeInv, Shared, ValueInv, phase = "returned", NEW o \in DOMAIN y
               PROVE  y[o] = Ref(o[1], o[2])
    BY DEF MatchesReference
  <2>1. o \in Outputs /\ left = {} /\ NoneLost /\ call \in Calls
    BY DEF ValueInv, Sized, TypeInv
  <2>2. PICK b \in Blocks : o \in Cells(b)
    BY <2>1, BlocksCover
  <2>3. \A p \in 0..Threads-1 : task[p] = Idle
    BY DEF Shared
  <2>4. Finished(b)
    BY <2>1, <2>3 DEF NoneLost
  <2> QED  BY <2>1, <2>2, <2>4 DEF Finished
<1> QED  BY <1>1, <1>2, <1>3, Invariant, PTL DEF Spec
=============================================================================
