------------------------------ MODULE Commands ------------------------------
(***************************************************************************)
(* The commands of the CLI that drive a Session (src/main.cpp): run, bench,*)
(* eval and logits.  Sampling is a choice of any token; scores, timings    *)
(* and files are left out; the ops of the session do not throw.            *)
(***************************************************************************)
EXTENDS Session

CONSTANTS
  Eos,   \* cfg.eos
  Reps,  \* --reps of bench
  Jobs   \* what the user asks for; n is -n of run, --gen, --window or --prefill, eos is not --ignore-eos

\* SessionOptions as session_opts fills them in, and as bench, eval and logits override them.
RunOptions(j) == [ctx |-> j.ctx, batch |-> j.batch, all |-> FALSE]
BenchOptions(j) == [ctx |-> Len(j.ids) + j.n + 8, batch |-> Least(Len(j.ids), j.batch), all |-> FALSE]
EvalOptions(j) == [ctx |-> j.n, batch |-> j.n, all |-> TRUE]
Prefilled(j) == Least(j.n, Len(j.ids))
LogitsOptions(j) ==
  [ctx |-> Len(j.ids) + 1, batch |-> IF Prefilled(j) > 1 THEN Prefilled(j) ELSE 1, all |-> TRUE]
Asked(j) ==
  CASE j.name = "run"    -> RunOptions(j)
    [] j.name = "bench"  -> BenchOptions(j)
    [] j.name = "eval"   -> EvalOptions(j)
    [] j.name = "logits" -> LogitsOptions(j)

\* The sizes Session's constructor throws on are left out: nothing happens after that.
ASSUME CommandsAssumption ==
  /\ Eos \in Tokens /\ Reps \in Nat
  /\ Jobs \subseteq [name : {"run", "bench", "eval", "logits"}, ids : Seq(Tokens), n : Nat,
                     batch : Nat, ctx : Nat, eos : BOOLEAN]
  /\ \A j \in Jobs : Asked(j) \in Options

VARIABLES
  job,   \* the arguments
  at,    \* where the command is; "error" when an exception has reached main
  next,  \* the token sampled last
  said,  \* the tokens decoded, which run prints after the prompt
  from   \* eval: w0, the start of the window; logits: rows dumped; bench: r, the repetition

clientVars == <<job, next, said, from>>
allVars == <<vars, clientVars, at>>

CommandsInit ==
  /\ job \in Jobs
  /\ Init /\ opt = Clamp(Asked(job))
  /\ at = "start" /\ next = Eos /\ said = <<>>
  /\ from = IF job.name = "bench" THEN -1 ELSE 0

\* A call of the session, which may run for a while and may be refused.
Ask(call) == call /\ at' = "reply"
Answered(name) == job.name = name /\ at = "reply" /\ phase = "idle" /\ ~thrown

\* An exception ends the command.
Fail == at = "reply" /\ phase = "idle" /\ thrown /\ at' = "error" /\ UNCHANGED <<vars, clientVars>>
-----------------------------------------------------------------------------
(* run, and what bench has in common with it                               *)

\* EDGELM_CHECK(prompt + n <= max_ctx), then the prompt.  Mutant of RoomForRun: only the prompt counts.
RoomForPrompt == Len(job.ids) <= opt.ctx
RoomForRun == Len(job.ids) + job.n <= opt.ctx
StartRun ==
  /\ job.name = "run" /\ at = "start"
  /\ IF RoomForRun THEN Ask(Prefill(job.ids)) ELSE at' = "error" /\ UNCHANGED vars
  /\ UNCHANGED clientVars

\* sampler.sample, argmax
Sample ==
  /\ Answered("run") \/ Answered("bench")
  /\ next' \in Tokens /\ at' = "use"
  /\ UNCHANGED <<vars, job, said, from>>

\* Mutant of Exhausted: one token too many.
ExhaustedLate == Len(said) > job.n
Exhausted == Len(said) = job.n
Stop ==
  /\ job.name = "run" /\ at = "use"
  /\ Exhausted \/ (next = Eos /\ job.eos)
  /\ at' = "done" /\ UNCHANGED <<vars, clientVars>>

\* The token is printed, and decoded unless it is the last.
Speak ==
  /\ job.name = "run" /\ at = "use"
  /\ ~Exhausted /\ (next = Eos => ~job.eos)
  /\ said' = said \o <<next>>
  /\ IF Len(said') = job.n THEN at' = "done" /\ UNCHANGED vars ELSE Ask(Decode(next))
  /\ UNCHANGED <<job, next, from>>
-----------------------------------------------------------------------------
(* bench: a warm-up and Reps repetitions of the prompt and n tokens        *)

\* Mutant of StartBench: the cache is not reset between repetitions.
StartBenchAgain == job.name = "bench" /\ at = "start" /\ at' = "feed" /\ UNCHANGED <<vars, clientVars>>
StartBench == job.name = "bench" /\ at = "start" /\ Reset /\ at' = "feed" /\ UNCHANGED clientVars
Feed == job.name = "bench" /\ at = "feed" /\ Ask(Prefill(job.ids)) /\ UNCHANGED clientVars
Go ==
  /\ job.name = "bench" /\ at = "use" /\ Len(said) < job.n
  /\ said' = said \o <<next>> /\ Ask(Decode(next))
  /\ UNCHANGED <<job, next, from>>
Repeat ==
  /\ job.name = "bench" /\ at = "use" /\ Len(said) = job.n
  /\ from' = from + 1 /\ said' = <<>>
  /\ at' = IF from + 1 < Reps THEN "start" ELSE "done"
  /\ UNCHANGED <<vars, job, next>>
-----------------------------------------------------------------------------
(* eval: the text in windows of n tokens, each from an empty cache         *)

Window == SubSeq(job.ids, from + 1, Least(from + job.n, Len(job.ids)))
StartWindow ==
  /\ job.name = "eval" /\ at = "start"
  /\ IF from + 1 < Len(job.ids) /\ Len(Window) >= 2 THEN Reset /\ at' = "feed"
     ELSE at' = "done" /\ UNCHANGED vars
  /\ UNCHANGED clientVars
FeedWindow == job.name = "eval" /\ at = "feed" /\ Ask(Forward(Window)) /\ UNCHANGED clientVars
\* Mutant of Stride: the window starts where the last one did.
NoStride == 0
Stride == job.n
Score ==
  /\ Answered("eval")
  /\ from' = from + Stride /\ at' = "start"
  /\ UNCHANGED <<vars, job, next, said>>
-----------------------------------------------------------------------------
(* logits: a prefill of n tokens, then one token at a time                 *)

StartLogits ==
  /\ job.name = "logits" /\ at = "start"
  /\ IF Prefilled(job) > 0 THEN Ask(Forward(SubSeq(job.ids, 1, Prefilled(job))))
     ELSE at' = "use" /\ UNCHANGED vars
  /\ UNCHANGED clientVars
Dump ==
  /\ Answered("logits")
  /\ from' = from + Len(input) /\ at' = "use"
  /\ UNCHANGED <<vars, job, next, said>>
DecodeNext ==
  /\ job.name = "logits" /\ at = "use"
  /\ IF from < Len(job.ids) THEN Ask(Decode(job.ids[from+1])) ELSE at' = "done" /\ UNCHANGED vars
  /\ UNCHANGED clientVars
-----------------------------------------------------------------------------
Run == StartRun \/ Sample \/ Stop \/ Speak
Bench == StartBench \/ Feed \/ Go \/ Repeat
Eval == StartWindow \/ FeedWindow \/ Score
Logits == StartLogits \/ Dump \/ DecodeNext
Ended == at \in {"done", "error"} /\ UNCHANGED allVars

CommandsNext ==
  \/ Step /\ UNCHANGED <<clientVars, at>>
  \/ Run \/ Bench \/ Eval \/ Logits \/ Fail \/ Ended

CommandsSpec == CommandsInit /\ [][CommandsNext]_allVars
\* A command is one thread that never waits for anybody.
FairCommandsSpec == CommandsSpec /\ WF_allVars(CommandsNext)
-----------------------------------------------------------------------------
(* Properties                                                              *)

\* The logits a command uses are those of the text it means: the prompt and all it has said, for a token
\* to be sampled; each prefix of the window, for eval; each prefix of the whole text, for logits.
Due ==
  CASE job.name \in {"run", "bench"} -> <<job.ids \o said>>
    [] job.name = "eval"   -> [i \in 1..Len(Window) |-> SubSeq(job.ids, from + 1, from + i)]
    [] job.name = "logits" -> [i \in 1..Len(input) |-> SubSeq(job.ids, 1, from + i)]
AnswersAreDue == at = "reply" /\ phase = "idle" /\ ~thrown => out = Due

\* A command fails only on an argument that cannot be served: an empty prompt, or more tokens than the
\* context, the model's or the one asked for.  run finds out before it has printed a token.
Fits ==
  CASE job.name = "run"    -> job.ids # <<>> /\ Len(job.ids) + job.n <= Least(job.ctx, MaxSeq)
    [] job.name = "bench"  -> Len(job.ids) + job.n <= MaxSeq
    [] job.name = "eval"   -> Least(job.n, Len(job.ids)) <= MaxSeq
    [] job.name = "logits" -> Len(job.ids) <= MaxSeq
FailsOnlyWhenTooLong == at = "error" => ~Fits /\ (job.name = "run" => said = <<>>)

\* run stops at n tokens or at the end of text, which it does not print.
RunStops ==
  job.name = "run" =>
    /\ job.eos => \A i \in 1..Len(said) : said[i] # Eos
    /\ at = "done" => Len(said) = job.n \/ (next = Eos /\ job.eos)

\* Every command ends.
CommandEnds == <>(at \in {"done", "error"})
=============================================================================
