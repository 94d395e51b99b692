# A TLA+ model of edgelm

edgelm is a C++17 runtime that runs decoder-only language models on a device: it maps an `.elm` file,
fuses the ops of its graph, packs the activations into one arena, hands ops to backends and runs them
on a small thread pool, over a KV cache that it preallocates.  This directory holds TLA+ modules that
model that code (each definition is translated from the source, and `PROJECT.json` names the lines),
the configurations TLC checks on small instances, and theorems that TLAPS proves for every instance.

## 1. Inventory

How a token gets generated, and which part keeps which state:

```
 main.cpp (run, bench, eval, logits) -- load_model: Model::load, convert_weights --> weights, graph
    | prompt text                                        ^ next token
    v                                                    |
 Tokenizer: specials -> pretokenize -> merges          Sampler
    | token ids                                          ^ logits (a pointer into the arena)
    v                                                    |
 Session: pos_, KV caches, arena  -- forward: for each partition, for each op --> Backend::run
    |  constructor: optimize -> backends, partition_graph -> plan_memory              |
    v                                                                                 v
 fusion passes, planner (passes.cpp)        profiler: spans     kernels -> ThreadPool::parallel_for
```

| component | state it keeps | operations | hard behaviour | what makes it correct |
|---|---|---|---|---|
| ThreadPool (`thread_pool.{hpp,cpp}`) | two job slots with atomic gen, refs, next, done; `gen_`, `stop_`, `sleepers_`; a mutex and a condition variable | `parallel_for`, `dispatch`, `run_chunks`, `worker_loop`, destructor | lock-free hand-out; workers left over from a job two generations back; spinning, then parking; destruction at any moment | each item once, inside the call; a slot is not refilled under a reader; no lost wakeup; calls and the destructor return |
| Memory planner (`plan_memory`) | offsets, arena size | sort, best-fit walk | inclusive live ranges, ties, blocks that overlap each other in the walk | tensors live together are disjoint; an op's operands are intact when it runs |
| Session (`runtime.{hpp,cpp}`) | `pos_`, per-layer caches, clamped options, the logits' block | `forward`, `prefill`, `decode`, `reset` | calls cut into chunks, failure in the middle, rows left over by a reset, a full context | the cache below `pos_` is one text, and logits are of that text |
| Fusion (`passes.cpp`) | the op list, and who produces and reads what | four passes | rewriting while the indices are those of the start of the pass | same result, topological order, idempotence |
| Backends (`backends.cpp`) | preference list, partitions | `supports`, `partition_graph` | mixed weight types, ranges | every op once, in order, on the first backend that claims it |
| Command line (`main.cpp`) | the tokens generated so far, window or repetition | `run`, `bench`, `eval`, `logits` | limits found out up front or in the middle | logits used are those of the text meant; ends; fails only on what cannot be served |
| Pre-tokenizer, tokenizer (`tokenizer.cpp`) | none between calls | `pretokenize`, `encode`, `decode` | lookahead, bad UTF-8, overlapping specials, merge order | loses nothing; equals the regular expression; equals training's merges |
| Kernels (`kernels_cpu.cpp`, `kernels_ref.cpp`) | each thread's scratch, the quantized rows of a call, the outputs | `matmul`, `swiglu`, `attention`, `rmsnorm` | blocks of rows on several threads, a scratch sized once for all kernels, remainders of blocks, register blocks and tokens, rows quantized by some threads and read by others | threads keep to their own scratch and elements; every element is what the reference puts there |
| Model file, quantization (`model.cpp`) | the weights as mapped or converted, `weight_dtype` | `load`, `convert_weights`, `quantize_q8`, `quantize_q4`, `dequantize_row` | conversion that fails half way, signs, ties and clamps, nibbles | what is read back is within a step of the file's value |
| Construction and forward, composed (`runtime.cpp`) | all of the above over one graph | constructor, `forward` | each stage rewrites or reads what the one before left | logits are what the model's own ops compute |
| Profiler (`profiler.cpp`) | events | an event per op and per forward, `stats` | phases, backends | counts add up to the ops run |
| Sampler, exporter | generator state; none | `sample`; Python | none that TLC reaches | - |

The ThreadPool is the only concurrent part: a Session, its caches and its graph belong to the one
thread that calls it.  Nothing is persisted and nothing is sent anywhere, so there are no crashes to
recover from and no messages to lose; failure means an exception.  `PROJECT.json` lists the hazards of
the code, line by line, with the properties that cover each.

## 2. The modules

| module | models | how state and actions correspond to the code |
|---|---|---|
| `ThreadPool` | `thread_pool.{hpp,cpp}` | One action per atomic operation, lock, wait or group of plain accesses.  `pc` is where each thread is, `g` its local generation, `chunk` its `b`, `e` and context.  `hits` is history: how often each item has run. |
| `ParallelFor` | what callers of the pool rely on | Abstract specification; `ThreadPool!ImplementsParallelFor` is the refinement. |
| `ThreadPool_proofs` | - | Theorems `StragglersExcluded`, `NobodySleepsOn`; of the work, `TasksStayInTheirCall`, `ItemsHaveOneOwner`, `CallsAreComplete`, `CountersStayNatural`; of the refinement, `PoolImplementsParallelFor`. |
| `Kernels` | `matmul`, `swiglu`, `attention`, `rmsnorm` of `kernels_cpu.cpp`, beside `kernels_ref.cpp` | One call.  `QuantizeRow` is an item of `quantize_rows`; `Take` hands a block to a thread, as `ParallelFor` promises; `Rows`, `Tile`, `GemmOut`, `GemmGate`, `Int8Out`, `Residual`, `Int8Gates`, `Combine`, `Rotate`, `ScoreRows`, `Attend`, `Norm` are the steps of a block, one for each time its buffers change.  `Deq`, `G`, `U`, `Scores` are where the code lays its blocks in the scratch; `Ref` is what the reference puts into an element. |
| `Kernels_proofs` | - | Theorems `ScratchIsEnough`, `ThreadsApart`, `KernelsMatch`. |
| `MemoryPlanner` | `plan_memory`, `plan_is_valid`, a forward pass over the plan | `Pick` is the outer loop with its sort, `Scan` a turn of the best-fit walk, `Place` the assignment; `Start`, `Exec`, `Return` are a forward.  `intact` says which blocks still hold what was written. |
| `MemoryPlanner_proofs` | - | Theorems `PlanAlwaysValid`, `PlannerTypesHold`, `NoBlockFloats`, `OperandsSurvive`. |
| `Session` | `runtime.{hpp,cpp}`, with `embed` and `attention` of the kernels | `Forward`, `Prefill`, `Decode`, `Reset` are the calls; `NextChunk` a turn of prefill's loop; `Embed`, `WriteRows`, `Attend`, `Return` the points of forward where state changes; `Throw` an exception at any of them.  A cache row or a hidden state is the text it is a function of. |
| `Conversation` | what a Session's clients rely on | Abstract specification; `Session!ImplementsConversation`. |
| `Commands` | `main.cpp`'s commands over a Session | EXTENDS `Session`.  `Ask` starts a call, the session's `Step`s run it, `Fail` is the exception that ends the command. |
| `Commands_proofs` | - | Theorems about `Session`: `CacheAlwaysHoldsText`, `AnswersAlwaysOfTheText`, `CallsAlwaysSayAll`, `SessionTypesHold`, `SessionImplementsConversation`; about `Commands`: `AnswersAreAlwaysDue`, `FailsOnlyOnLongTexts`, `RunAlwaysStops`. |
| `Fusion` | `optimize` and its passes | `FuseSwiglu`, `FuseShared`, `FuseResidual`, `FuseRope` and `Skip` are turns of the passes' loops, `EndPass` is `compact`.  `Meaning` is what an op list computes, as a term. |
| `Fusion_proofs` | - | Theorems `OrderIsKept`, `ValueIsKept`, `SecondRoundFindsNothing`. |
| `Weights` | `load_model`, `convert_weights`, the quantizers and `dequantize_row` | `Keep` and `Convert` are the decision to convert, `ConvertNext` a turn of the loop over tensors, `Converted` its end.  Used by `Build`. |
| `Partition` | the constructor's backends, `partition_graph`, forward's loops, the profiler's events | `Make`, `MakeReference`, `Assign`, then `Begin`, `RunOp`, `NextPart`, `Return`; `Calls` and `Spans` are what `stats` counts.  Used by `Build`. |
| `Build` | a Session from its file to its logits | EXTENDS `Partition`, with `Weights`, `Fusion` and `MemoryPlanner` as instances over its own variables: `Load`, `Construct`, `Optimize`, `Delegate`, `Plan` run their steps one stage after the other, `Enter`, `Execute`, `Loop` a forward over the arena.  `value` is the term that each block holds. |
| `Build_proofs` | - | Theorems `EveryOpRunsOnce`, `NarrowBackendAlwaysSpared`, `PartitionsStayMaximal`, `ProfileAlwaysAddsUp`, `LogitsAlwaysTheModels`, `WeightsAlwaysWithinStep`. |
| `Pretokenizer` | `pretokenize`, `gpt2_split`, `decode_utf8`, `classify` | `Gather`, `Digit`, `StartSplit` are the outer loop; `Contraction`, `Word`, `Space` the turns of the inner one.  `MatchLength` is the regular expression, its contractions spelled out in `Endings`; the code's are `Contracted`. |
| `Pretokenizer_proofs` | - | Theorems `PiecesAreTheText`, `SplitsAsTheRegexSays`. |
| `Bpe` | `Tokenizer::encode`, `encode_piece`, `decode` | `Hit`, `Miss`, `End` scan for special tokens, `Piece` and `Merge` are `encode_piece`. |
| `Bpe_proofs` | - | Theorems `EncodingsDecode`, `SpecialsAlwaysWin`, `MergesAlwaysAsLearned`. |
| `MC*` | - | Small instances. |

What connects them: `Build` composes what the constructor composes, and says of the whole what
`Fusion!ComputesTheSame`, `MemoryPlanner!OperandsIntact` and `RunsEveryOpOnce` say of the parts: the logits
are those of the model's own op list.  `ParallelFor` is what lets `Kernels` hand a block to a thread, and
`Kernels!MatchesReference` is what lets `Build` and `Session` treat an op as one step whose result is the
reference's.  `Session` looks at the one thing which `Build` leaves out, what a forward inherits from
forwards before it.  `Pretokenizer!LosesNothing` is the assumption that `Bpe!Piece` makes.

### Abstractions worth knowing

- Floating-point values are terms (`Fusion`, `Build`, `Kernels`) or the texts they depend on (`Session`);
  addition and multiplication commute, as they do for floats, and are not reassociated.  A dot product is
  one term over its row and its column: the order in which SIMD lanes add up, and rounding, are left out.
- Elements of weights are integers, and a scale is kept as the number the code divides, so that the
  quantizers are exact (`Weights`).  Everything but f32 rounding is there: rounding half away from zero,
  clamps, signs, nibbles.
- `Kernels` hands out rows to quantize one by one; the code hands out four at a time.
- `Build`'s forwards do not throw; `Session`'s do.  Its ops run on any backend to the same effect, which
  `Kernels` is about.  The refusal of an op that no backend claims (`Assign`) is in the model and never
  taken, since the reference backend claims all.
- All atomics of the pool are sequentially consistent, except `next` (a relaxed read-modify-write),
  `done` (release, acquire) and the caller's read of its own `gen_`.  Interleaving single steps is exact
  as long as the plain fields of a slot are never accessed by two threads at once, and that is the
  property `SlotExclusive`.  The spin count `kSpin` is "any number of turns".
- A task does not throw.  `Session!Throw` stands for exceptions on the caller's thread.
- `Session` leaves out the ops that act on each token by itself: they cannot mix tokens.
- `Bpe`'s vocabulary is one that training builds: each merge makes a new token.  The exporter also maps
  two merges that spell the same token to one id, which the runs do not include.

## 3. Runs

| run | question | bounds, and why they are enough | distinct states |
|---|---|---|---|
| `pool_safety` | Is every interleaving safe? | Two workers, three calls out of {empty, inline, three chunks, two chunks with a short last one}, one spurious wakeup, then the destructor.  Three calls use a slot a second time, which is where stragglers matter; two workers let one be a straggler while the other works.  Symmetric workers. | 2 126 000 |
| `pool_liveness` | Is it a parallel-for, do calls and the destructor return, do sleepers wake? | Two workers, three calls of two chunks, no spurious wakeup (one only adds wakeups). No symmetry. | 208 000 |
| `kernels` | Does every element come out as the reference's, whoever computes it? | Blocks of two rows and of two columns, register blocks of two, three threads, one to three tokens: whole and short blocks, fused weights of every pair of types, whole and ragged columns, residuals, with and without pool and SIMD; a scratch without the code's 16 spare floats. | 24 000 |
| `kernels_mixed` | Also for gate and up weights of different types? | As `kernels`; expected to fail, see Findings. | - |
| `planner` | Is the plan valid and does a pass survive it? | Every graph of four tensors over three ops, up to renaming, with sizes 60 and 129 (one block and three): the smallest number with which a walk meets a gap between two blocks, or a block that ends below one it has passed.  Two gaps in one walk take five tensors: two such graphs, one with gaps of the same size and one with gaps of two sizes. | 156 000 |
| `session` | Do caches and answers stay with the text, and does a call say all of its tokens? | Two layers (one that has rows of a failed call and one that does not), context 3, batches 1 to 3, calls of 0 to 4 tokens over two token values: each refusal, a full context, prefills cut 2+1 and 2+2, failure in each op. | 434 000 |
| `commands` | Do commands use the right logits, fail and end as they should? | Texts of 0 to 5 tokens, counts and contexts on both sides of the model's limit of 4. | 2 247 |
| `fusion` | Do passes preserve what is computed? | Lists of four and five ops with every wiring of the patterns' op types, one decoder layer as the exporter writes it, and queries rotated twice; two rounds of all passes. | 228 000 |
| `fusion_position` | Does a fused op stand where the header says? | As `fusion`; expected to fail, see Findings. | - |
| `build` | Are the logits the model's, from the file to the caller? | A linear layer, a feed-forward block and a decoder layer as the exporter writes it, fused or not; six preference lists; files of each type and of mixed types; every `--dtype`; tensors of one and of three blocks; two forwards, as prefill or decode. | 114 000 |
| `pretokenizer` | Is the scanner the regular expression, on any bytes? | Every text of up to four bytes over ten, which reach every class and every branch of the decoder; four longer ones for contractions and three- and four-byte characters. | 120 000 |
| `bpe` | Is encoding lossless and are merges applied as learned? | Every table of three merges over two letters, all texts of five letters that begin with one of them (the other half is the same up to renaming); special tokens that are prefixes of each other, an empty one, a byte no token spells. | 448 000 |

Each property has a mutant in `PROJECT.json`, a plausible bug in one definition, which TLC finds.
The bounds are named constants (`MaxCalls`, `MaxSpurious`, `Reps`, `MaxSeq`, `Rounds`, `NTensors`,
`NOps`) or the sets an MC module enumerates.

Deadlock is checked in every run: a model that may stop says so with an action of its own (`Done`,
`Ended`, `Finished`, `Returned`).

### Fairness

- `ThreadPool!FairSpec` assumes weak fairness of each thread: the operating system runs every thread
  that is not blocked, so a thread that spins looks at its condition again.  The mutex needs no strong
  fairness: it is contended only while workers park or the caller notifies, which each do once a job.
- `Commands!FairCommandsSpec` assumes that the program's one thread goes on.
- `Session`, `Fusion`, `Build`, `Pretokenizer`, `Bpe` and `MemoryPlanner` are sequential code, and
  their properties are safety properties; that a kernel's blocks come to an end is `ThreadPool!CallReturns`.

## 4. Proofs

TLAPS proves, for every value of the constants:

- `ThreadPool_proofs!StragglersExcluded`: `Spec => []SlotExclusive`, for any finite set of workers and
  any number of calls.  `SlotExclusive` is not inductive by itself.  The invariant `SlotInv` adds `Types`
  (types, with `refs` and `sleepers` integers), `Refs` (a slot's `refs` is the number of workers between
  `Join` and `Leave` on it, a cardinality), `Gens` (the caller's generation is `gen_` or one ahead of it,
  workers' are not ahead of it), and `Marks` (where the caller is decides what the slot's generation is:
  while a slot is being filled its generation is invalid, so a worker that joins it then finds a
  mismatch and leaves; a worker inside `run_chunks` was counted in before).  `Drain` waits for `refs`
  to be 0 after the invalid mark, hence nobody is inside when `Fill` begins.
- `ThreadPool_proofs!NobodySleepsOn`: `Spec => []NoLostWakeup`.  `ParkInv` adds `Mutex` (`mu_` is the set of
  threads between lock and unlock, at most one), `Sleepers` (`sleepers_` is the number of workers counted in)
  and, in `Missed`, a case that `NoLostWakeup` does not see: a worker that has read `gen_` under the lock and
  has not blocked yet.  It has counted itself before it read `gen_`, and the caller publishes before it reads
  `sleepers_`; so one of the two sees the other.
- `ThreadPool_proofs`, on the work: `Spec => []NoStrayTask`, `Spec => []OneOwner`, `Spec => []CompleteOnReturn` and `Spec => []TypeOK`,
  for any number of workers, items and grains.  None is inductive: what a thread may take depends on what all
  others hold.  `WorkInv` adds `Spent` (in a slot that does not hold the job of the call, `next` is past
  `total`, so a straggler gets nothing), `Filled` (what the caller has put into its slot) and `Shared` (chunks
  that threads hold lie apart and below `next`; `done` is the number of items below `next` in nobody's hands;
  an item's `hits` is 1 exactly if it is below `next` and nobody is about to run it).  `CompleteOnReturn`
  follows since a set of items as large as `[0, n)` is all of it.
- `ThreadPool_proofs!PoolImplementsParallelFor`: `Spec => PF!Spec`, the safety part of
  `ImplementsParallelFor`.  A call is `Begin`, a task's body `Execute`, the end of `Await` `Return`, and what
  threads do between them is not seen.
- `MemoryPlanner_proofs!PlanAlwaysValid`: `Spec => []PlanIsValid`, for any graphs.  The strengthening
  `Walk` says, in the middle of the best-fit walk: `cur` is at or above the end of every rival block that
  has been passed, the gap found so far is free of all rivals, and blocks are aligned.
  From there, `PlannerTypesHold` (`TypeOK`), `NoBlockFloats` (`NoFloatingBlock`: the walk's cursor only stops at
  0 or where a rival ends), and `OperandsSurvive`: `Spec => []OperandsIntact` if the op lists are in order
  (`InOrder`: what an op reads has been written, what it writes is read; TLC evaluates that of the run's
  graphs).  `LiveTogether` is the step: what is written at an op and what is still needed there are live
  together, hence apart in the arena.
- `Build_proofs`: `Spec => []RunsEveryOpOnce`, and the same of `NarrowBackendIsSpared`, `PartitionsAreMaximal` and
  `ProfileAddsUp`, for any model, weights and preferences.  `Tiled` says that the partitions so far cover the ops
  assigned, end to end, each with ops its backend was chosen for; `Ordered` where forward's two loops are among
  them.  For the profile, the invariant counts what `forward` has still to add: the ops of the type that have run
  in the forward in progress.
- `Build_proofs!LogitsAlwaysTheModels`: `Spec => []LogitsAreTheModels`, for any model that can run, any sizes of its
  tensors, any backends, with and without fusion, on every forward.  The modules `Fusion_proofs` and
  `MemoryPlanner_proofs` are instances of it over the variables of `Build`, so that their invariants (`FusInv`,
  `PlanInv`) carry over step by step; `Same...` lemmas say that the definitions `Build` itself uses are theirs.
  What the passes leave is `Servable`: each op solves the model's meaning, reads what has been written and writes
  what is read later (`Used`, which the passes keep, or a block would have no live range), and so the planner's
  graph is in order (`PlannedGraphInOrder`).  `Holds` is the invariant of a forward: every tensor that has been
  written and is to be read yet holds what the model has there.  An op's outputs lie apart from all of these
  (`LiveApart`, from the planner's `LiveTogether`), so its operands are right (`OperandsHold`), its outputs too
  (`ExecuteHolds`), and after the last op the logits are still live (`LogitsLive`).
- `Build_proofs!WeightsAlwaysWithinStep`: `Spec => []QuantizedWithinStep`, for any integer elements, any even size of a
  group and any `--dtype`.  `Faithful` is the invariant of a weight: as its file says, or as the quantizers have made
  it of that.  Rounding is within half a divisor (`Rounded`), the element that gives the scale is there and is the
  greatest (`BestIsGreatest`), so that no quotient passes 127 or 8 in magnitude (`MultipleBounded`), and the clamp
  bites at +8 alone (`Q4Near`); it holds after every turn of the loop, so also where the conversion is refused; `Places` says which byte and nibble an element is in, `Q4Unpacked` that it comes out as it
  went in.
- `Commands_proofs`, on the session: `Spec => []CacheHoldsText`, `Spec => AnswersAreOfTheText`
  and `Spec => []TypeOK`,
  for any number of layers, any sizes and any calls.  The strengthening `Progress` says what a forward has
  come to: the hidden states of its tokens are those that the next layer sees of the text with the call's
  tokens added (`Whole`), and the rows of those tokens stand in every layer behind it.  `MixIsPrefix` is why
  attention is right: rows 0 to p of one text determine that text up to p, in the first layer, where a row
  is a token, as in the others, where it is a prefix.  `WriteStep` shows that new rows stand at `pos_` and
  above; hence failures and resets, which leave rows there, need no case of their own (`IdleStep`).
- `Commands_proofs!CallsAlwaysSayAll`: `Spec => CallsSayAll`, likewise.  `Saying` is the text and what the call in
  progress has still to add: the tokens of the forward in hand and those a prefill has left.  A call starts with
  its own tokens there, and then `Saying` stands still until it ends: a chunk and its rest are what was left
  (`ChunkSays`), writing rows leaves the text alone (`WriteKeepsText`), and a forward that returns adds what it had
  in hand (`ReturnAdds`).  The refinement below does not say this: its text grows by any pieces of calls, since
  a prefill may fail between two chunks, so that a chunk left out would go unseen there.
- `Commands_proofs!SessionImplementsConversation`: `Spec => ImplementsConversation`.  `Return` says
  the tokens of its forward, `Enter` drops the last answer, a reset is a reset, and every other step is a
  stutter.  The invariant `Cut` adds that the tokens of a forward, and those a prefill has left, are pieces
  of one call, since a piece of a piece is a piece.
- `Commands_proofs`, on the commands: `CommandsSpec => []AnswersAreDue`, `[]FailsOnlyWhenTooLong` and `[]RunStops`, for any model,
  arguments and tokens sampled.  `Goal` is what the conversation comes to when the call in progress is
  answered: prompt and tokens said, a window, or the text dumped so far.  `Talking` says that the
  conversation, the tokens of the forward and those a prefill has left make the goal, in that order; with
  `SessionInv` the logits follow (`ReturnIsDue`).  `Between` keeps what a command has found out about its
  arguments, so that a refusal means a goal longer than the context (`TooLong`), and `Fate` that it says so of
  the arguments alone.
- `Kernels_proofs!ScratchIsEnough`: `Spec => []StaysInOwnScratch`, and `ThreadsApart`: `Spec =>
  []BlocksAreDisjoint`, for any sizes of blocks, batches, widths, contexts and heads, any number of threads
  and any calls.  `Working` says that what a thread works on is a block of the call, at a step of its
  kernel, and that blocks held by two threads, or held and left, differ; the rest is arithmetic.  An
  element's address determines its block because a block starts at a multiple of `kRowBlock` and is cut at
  the width (`RestIsUnique`); the regions of `matmul`, `swiglu` and `attention` each fit what
  `scratch_floats` adds up (`TimesGrows`).
- `Kernels_proofs!KernelsMatch`: `GatesAlike` implies `Spec => []MatchesReference`, for any sizes, threads and
  calls.  `ValueInv` says of every element of the output that it is the reference's once its block is finished
  and what it was before the call while no one has taken its block; of the block that a thread holds, which of its
  elements are written; and of the thread's scratch, what it holds at the step the kernel has come to: the rows
  read back, their tile of products, scores or gates.  The frame of a step is `OwnApart` (another thread's
  scratch begins after this one's ends) and `BlocksApart`; at the end `BlocksCover` says that the blocks tile
  the output.  `GatesAlike` (the two weights of a `swiglu` are both read as int8 or neither) is what the
  exporter guarantees; without it the statement is false, as the run `kernels_mixed` shows.
- `Fusion_proofs!OrderIsKept`: `Spec => []ProducedBeforeRead`, and `ValueIsKept`: `Spec => []ComputesTheSame`, for any
  op list that can run (`ModelsAreGraphs`: each tensor is written once, and before it is read).  The value is
  not inductive: `Walked` says instead that what the model computes, `Meaning(model)`, solves every op there is, a
  fused one included (`Solves`), and a list that can run has only one solution (`SolutionUnique`), which is what it
  computes (`MeaningSolves`).  So the order carries the value.  The order in turn needs what a pass knows of its
  own start: `ReadBefore` (what an op left now reads, it or an op absorbed since has read at the start of the
  pass), so that `only_consumer`, asked of the start, still says that nobody else reads the tensor
  (`OnlyReader`); and that what has been rewritten is of a kind this pass does not look for, so that a producer
  found by an old index is the op it was.  `Absorbs` states what a rewrite must satisfy, `RewriteKeeps` that this is
  enough, and there is one lemma for each pass that it does.  Only `fuse_shared_input` moves outputs, to an
  earlier place: the others find their producers alive for that reason (`ProducerLeft`).
- `Fusion_proofs!SecondRoundFindsNothing`: `Spec => Idempotent`, likewise for any op list that can run.
  `NothingLeftBehind` says what each pass of the first round has left behind it, up to its place in the list: no
  two MATMULs that share an input (`NoneShared`, so that no SwiGLU is left either), and no ADD or ATTENTION with an
  operand that its pass could take (`Kept`: whoever writes it is of another type, or it is read elsewhere).  That is
  said of the ops that are left, while a pass asks its start; `StillRead` carries a second reader over from there
  (`OperandStays`), and `ReadOn` is why later fusions, which move reads to the op that they put in place, keep it
  (`FuseKept`).  In the second round nothing is dead and the start is the list itself (`Quiet`), so that what has
  been kept is not taken (`NothingFound`), and `compact` changes nothing (`LiveIsAll`).
- `Pretokenizer_proofs!PiecesAreTheText`: `Spec => []LosesNothing`, for any texts of bytes.  `SplitInv` says that the
  pieces emitted, then what is held (the stretch gathered, or the characters that `gpt2_split` has not
  emitted), are the text up to `at`; and of the decoded stretch that its characters cover its bytes without a
  gap, whatever the bytes (`DecodeCovers`).  `SplitsAsTheRegexSays`: `Spec => SplitsByTheRegex`, an action property:
  each turn of the inner loop takes what the regular expression's first matching alternative takes
  (`ContractionMatches`, `WordMatches`, `SpaceMatches`).
- `Bpe_proofs!EncodingsDecode`: `Spec => []RoundTrip`, for any tables, texts and cuts into pieces.  `EncodeInv` says
  what `out`, `ids` and `rest` spell at each phase; `SpellingConcat` is the lemma it lives on.  A table is
  one of tokens that are sequences of bytes and of merges that spell what their pair spells (`InputsAreTables`),
  which is how the exporter finds the id of a merge (`tools/elm.py:198`).
- `Bpe_proofs!SpecialsAlwaysWin`: `Spec => []SpecialsWin`, likewise for any tables, texts and cuts.  `WinInv` says that no
  special token begins between `start` and `at`, that the one which ends a stretch is a longest there
  (`LongestExists`), and that every id of the piece in hand says something (`Solid`), so that ids lie one after
  the other within the stretch (`SolidSizes`).  `Settled` is the property of the ids placed so far;
  `SettledConcat` extends it by a piece or a special token.
- `Bpe_proofs!MergesAlwaysAsLearned`: `InOrder` implies `Spec => []MergesAsLearned`.  `LearnInv` says that what all
  merges would make of the ids in hand, each applied everywhere in its turn, is what they would make of the
  piece's bytes.  A merge keeps it: the best pair is the leftmost of the first merge that fits anywhere, so the
  merges before it change nothing (`MergesAllNothing`), and its own gives the same whether that pair is already
  merged or not (`ApplyMerged`).  `InOrder` (no merge makes a token that it or an earlier merge is of) is how
  training builds a table (`tools/make_tiny.py:49-52`), and is needed twice: the merged pair must bring back no
  earlier merge, nor the same one.  Nothing in `encode_piece` or in `tokenizer_from_hf` checks it, and without it
  the property is false: a table that lists a merge before those which make its operands is merged otherwise
  by `encode_piece` than in the order of the table.  The run `bpe` has `InOrder` as an ASSUME (`LearningOrder`).

Assumptions: `PoolAssumption`, `PlannerAssumption`, `BuildAssumption`, `WeightsAssumption`, `SessionAssumption`, `CommandsAssumption`,
`KernelsAssumption`, `ModelsAreGraphs`, `TextsAreBytes` and `InputsAreTables` in the modules; TLC evaluates them in the runs.

The prover cannot use an induction theorem, which takes a predicate.  Where a claim is about a sequence of any
length (what a concatenation of pieces spells, what `decode_utf8` covers), the proof takes the set of lengths
at which it fails, a set of natural numbers and so with a least one (`LeastExists`), and shows that the step
before it fails too.

Model-checked only: the pool's liveness, with it that calls of the refinement return; and that commands end.
Liveness and ENABLED are beyond this prover.

## 5. Findings

- `include/edgelm/passes.hpp:10-11` says "Fused ops take the position of the op that consumed the last
  fused result".  `fuse_shared_input` puts the fused op at the place of the first MATMUL of the group
  (`passes.cpp:81`), before ops it absorbs.  The run `fusion_position` shows a step.  What the sentence is
  for, a valid topological order, holds (`ProducedBeforeRead`).

- `include/edgelm/kernels.hpp:1` calls the reference kernels the "obviously-correct oracle for every op and
  dtype", and line 59 says that they quantize activations "the way the int8-activation kernels do".
  `cpu::swiglu` reads its rows as int8 only if it can for both weights (`kernels_cpu.cpp:382`), `ref::swiglu`
  decides for each weight by itself (`kernels_ref.cpp:61`, `156-157`).  With a gate of one type and an up
  weight of f32, they differ: run `kernels_mixed`.  The exporter gives both weights one type.

Read on the way, without a run: `--dtype q4` on a file of q8 weights converts nothing, as its weights are no
longer f32, and `weight_dtype` says q4 afterwards (`model.cpp:227`, `250`); `Weights!Converted` does the same.
`convert_weights` points a tensor at its new data before it appends the owner of that data (`model.cpp:246-249`),
so a failing append would leave the pointer dangling; `load_model` lets the exception end the program.

## 6. Not modelled, and why

Floating-point rounding, the exponentials and roots, and the SIMD instructions inside one dot product or
one row of quantized values (numeric; compared with references by the repository's tests); the sampler's
64-bit generator (TLC's integers are 32 bits); parsing of model files and of arguments; the profiler's
clock, trace file and table; the Python exporter; timing and printing.  Exceptions thrown by tasks on
worker threads: the kernels' only such check is the weight type, which is fixed when the session starts.

## 7. Plan

Done: the pool with its abstract specification, and theorems for its safety; the planner, likewise; session
with its abstract specification, with theorems for both; commands, with theorems; fusion, with theorems;
weights; partitioning; their composition, with theorems; kernels with theorems; pre-tokenizer and tokenizer with
theorems.

Every safety property of a passing run has its theorem.

Next, modelling: `Model::load`'s checks of a file's tables, as a function of what the tables say, and the
sampler's cut of the candidates over a small order of logits.
