----------------------------- MODULE ThreadPool -----------------------------
(***************************************************************************)
(* The persistent pool behind every parallel operator                      *)
(* (include/edgelm/thread_pool.hpp, src/thread_pool.cpp).  One action is   *)
(* one atomic operation of the code (an atomic load, store or RMW, a lock, *)
(* a wait) or one group of plain accesses.  All atomics are seq_cst except *)
(* next (relaxed RMW), done (release RMW, acquire load) and the caller's   *)
(* own read of gen_; interleaving the steps is exact as long as the plain  *)
(* fields of a slot are never accessed by two threads at once, which is    *)
(* what SlotExclusive states.                                              *)
(***************************************************************************)
EXTENDS Integers, FiniteSets

CONSTANTS
  Workers,      \* the threads worker_loop runs on, tids 1 .. n_ - 1
  Caller,       \* the thread that owns the pool, tid 0
  Requests,     \* the <<n, grain>> pairs parallel_for may be called with
  MaxCalls,     \* bound: calls of parallel_for in a behaviour
  MaxSpurious   \* bound: spurious wakeups of cv_ in a behaviour

Threads == Workers \cup {Caller}
kInvalid == -1                             \* ~uint64_t{0}: never a generation

ASSUME PoolAssumption ==
  /\ IsFiniteSet(Workers)
  /\ Caller \notin Workers
  /\ Requests \subseteq Int \X Int
  /\ MaxCalls \in Nat
  /\ MaxSpurious \in Nat

VARIABLES
  jobs,      \* jobs_[2]: gen, refs, next, done and the plain ctx, total, grain
  gen,       \* gen_: latest published generation
  stop,      \* stop_
  sleepers,  \* sleepers_
  mu,        \* mu_: the set of threads that hold it
  waiting,   \* cv_: workers blocked in it and not yet notified
  pc,        \* where each thread is
  g,         \* each thread's local g; a worker's seen always equals it
  chunk,     \* each thread's locals b, e and the ctx it calls the task with
  call,      \* calls made so far: the identity of the caller's fn object
  req,       \* arguments of the call in progress, or of the last one
  hits,      \* history: how often each item of that call has been run
  spurious   \* history: spurious wakeups so far

vars == <<jobs, gen, stop, sleepers, mu, waiting, pc, g, chunk, call, req, hits, spurious>>

NoChunk == [lo |-> 0, hi |-> 0, ctx |-> 0]
NewJob == [gen |-> 0, refs |-> 0, next |-> 0, done |-> 0, ctx |-> 0, total |-> 0, grain |-> 1]

Init ==
  /\ jobs = [s \in 0..1 |-> NewJob]
  /\ gen = 0 /\ stop = FALSE
  /\ sleepers = 0 /\ mu = {} /\ waiting = {} /\ spurious = 0
  /\ pc = [t \in Threads |-> IF t = Caller THEN "idle" ELSE "spin"]
  /\ g = [t \in Threads |-> 0]
  /\ chunk = [t \in Threads |-> NoChunk]
  /\ call = 0 /\ req = [n |-> 0, grain |-> 1] /\ hits = [i \in 0..-1 |-> 0]

Slot(t) == g[t] % 2                        \* jobs_[g & 1]
Job(t) == jobs[Slot(t)]
Items(t) == chunk[t].lo .. chunk[t].hi - 1 \* what t's call of the task is to run
Least(a, b) == IF a < b THEN a ELSE b

\* Thread t goes from one point of the code to another, and what the step leaves alone.
Go(t, from, to) == pc[t] = from /\ pc' = [pc EXCEPT ![t] = to]
KeepWork == UNCHANGED <<jobs, chunk, call, req, hits>>
KeepPark == UNCHANGED <<sleepers, mu, waiting, spurious>>
KeepGens == UNCHANGED <<gen, stop, g>>
Move(t, from, to) == Go(t, from, to) /\ KeepWork /\ KeepPark /\ KeepGens

\* The step writes j to the slot t is at.
Write(t, from, to, j) ==
  /\ Go(t, from, to)
  /\ jobs' = [jobs EXCEPT ![Slot(t)] = j]
  /\ UNCHANGED <<call, req, hits>> /\ KeepPark /\ KeepGens
-----------------------------------------------------------------------------
(* run_chunks(j, tid), on the caller and on the workers that joined.       *)

\* Mutant of Take: the counter moves by one item, not by the chunk.
TakeOne(t) ==
  /\ Write(t, "take", "call", [Job(t) EXCEPT !.next = @ + 1])
  /\ chunk' = [chunk EXCEPT ![t] = [NoChunk EXCEPT !.lo = Job(t).next]]

\* b = j.next.fetch_add(j.grain)
Take(t) ==
  /\ Write(t, "take", "call", [Job(t) EXCEPT !.next = @ + Job(t).grain])
  /\ chunk' = [chunk EXCEPT ![t] = [NoChunk EXCEPT !.lo = Job(t).next]]

\* if (b >= j.total) return
Drained(t) ==
  /\ chunk[t].lo >= Job(t).total
  /\ Go(t, "call", IF t = Caller THEN "await" ELSE "leave")
  /\ chunk' = [chunk EXCEPT ![t] = NoChunk]
  /\ UNCHANGED <<jobs, call, req, hits>> /\ KeepPark /\ KeepGens

\* e = min(j.total, b + j.grain), and the call of j.task(j.ctx, b, e, tid)
Call(t) ==
  /\ chunk[t].lo < Job(t).total
  /\ Go(t, "call", "run")
  /\ chunk' = [chunk EXCEPT ![t].hi = Least(Job(t).total, chunk[t].lo + Job(t).grain),
                            ![t].ctx = Job(t).ctx]
  /\ UNCHANGED <<jobs, call, req, hits>> /\ KeepPark /\ KeepGens

\* the task's body
Run(t) ==
  /\ Go(t, "run", "credit")
  /\ hits' = [i \in DOMAIN hits \cup Items(t) |->
                (IF i \in DOMAIN hits THEN hits[i] ELSE 0) + (IF i \in Items(t) THEN 1 ELSE 0)]
  /\ UNCHANGED <<jobs, chunk, call, req>> /\ KeepPark /\ KeepGens

\* j.done.fetch_add(e - b, release)
Credit(t) ==
  /\ Write(t, "credit", "take", [Job(t) EXCEPT !.done = @ + (chunk[t].hi - chunk[t].lo)])
  /\ UNCHANGED chunk

RunChunks(t) == Take(t) \/ Drained(t) \/ Call(t) \/ Run(t) \/ Credit(t)
-----------------------------------------------------------------------------
(* parallel_for and dispatch, on the caller.                               *)

\* The three ways of parallel_for: return at once, run inline, dispatch as generation gen_ + 1.
ParallelFor(n, grain) ==
  /\ call < MaxCalls
  /\ call' = call + 1 /\ req' = [n |-> n, grain |-> grain] /\ hits' = [i \in 0..n-1 |-> 0]
  /\ \/ n <= 0 /\ Go(Caller, "idle", "idle") /\ UNCHANGED g
     \/ n > 0 /\ (Workers = {} \/ n <= grain) /\ Go(Caller, "idle", "inline") /\ UNCHANGED g
     \/ /\ n > 0 /\ Workers # {} /\ n > grain
        /\ Go(Caller, "idle", "retire") /\ g' = [g EXCEPT ![Caller] = gen + 1]
  /\ UNCHANGED <<jobs, chunk, gen, stop>> /\ KeepPark

\* fn(0, n, 0)
Inline ==
  /\ Go(Caller, "inline", "idle")
  /\ hits' = [i \in DOMAIN hits |-> hits[i] + 1]
  /\ UNCHANGED <<jobs, chunk, call, req>> /\ KeepPark /\ KeepGens

\* A step of dispatch that writes to its slot.
Refill(from, to, j) == Write(Caller, from, to, j) /\ UNCHANGED chunk
\* j.gen.store(kInvalid)
Retire == Refill("retire", "drain", [Job(Caller) EXCEPT !.gen = kInvalid])
\* Mutant of Drain: stragglers are not waited for.
DrainNow == Move(Caller, "drain", "fill")
\* while (j.refs.load() != 0)
Drain == Job(Caller).refs = 0 /\ Move(Caller, "drain", "fill")
\* the plain fields; the call stands for the task and its context
Fill == Refill("fill", "reset", [Job(Caller) EXCEPT !.ctx = call, !.total = req.n,
                                   !.grain = IF req.grain > 1 THEN req.grain ELSE 1])
\* j.next.store(0), j.done.store(0)
Reset == Refill("reset", "mark", [Job(Caller) EXCEPT !.next = 0, !.done = 0])
\* j.gen.store(g)
Mark == Refill("mark", "publish", [Job(Caller) EXCEPT !.gen = g[Caller]])
\* gen_.store(g)
Publish ==
  /\ Go(Caller, "publish", "peek")
  /\ gen' = g[Caller]
  /\ UNCHANGED <<stop, g>> /\ KeepWork /\ KeepPark
\* Mutant of Peek: off by one.
PeekTwo == Move(Caller, "peek", IF sleepers > 1 THEN "notify" ELSE "take")
\* if (sleepers_.load() > 0)
Peek == Move(Caller, "peek", IF sleepers > 0 THEN "notify" ELSE "take")
\* Mutant of Notify: notify_one.
NotifyOne ==
  /\ mu = {}
  /\ IF waiting = {} THEN waiting' = {} ELSE \E w \in waiting : waiting' = waiting \ {w}
  /\ Go(Caller, "notify", "take")
  /\ UNCHANGED <<sleepers, mu, spurious>> /\ KeepWork /\ KeepGens
\* lock mu_, cv_.notify_all()
Notify ==
  /\ mu = {} /\ waiting' = {}
  /\ Go(Caller, "notify", "take")
  /\ UNCHANGED <<sleepers, mu, spurious>> /\ KeepWork /\ KeepGens
\* Mutant of Await: wait until every item is handed out, not until it is done.
AwaitTaken == Job(Caller).next >= req.n /\ Move(Caller, "await", "idle")
\* while (j.done.load(acquire) < n)
Await == Job(Caller).done >= req.n /\ Move(Caller, "await", "idle")

Dispatch == Retire \/ Drain \/ Fill \/ Reset \/ Mark \/ Publish \/ Peek \/ Notify \/ Await
-----------------------------------------------------------------------------
(* ~ThreadPool, on the caller.                                             *)

DtorLock ==
  /\ mu = {} /\ mu' = {Caller}
  /\ Go(Caller, "idle", "dtor_stop")
  /\ UNCHANGED <<sleepers, waiting, spurious>> /\ KeepWork /\ KeepGens
\* stop_.store(true)
DtorStop ==
  /\ Go(Caller, "dtor_stop", "dtor_gen") /\ stop' = TRUE
  /\ UNCHANGED <<gen, g>> /\ KeepWork /\ KeepPark
\* gen_.fetch_add(1), unlock
DtorGen ==
  /\ Go(Caller, "dtor_gen", "dtor_notify") /\ gen' = gen + 1 /\ mu' = {}
  /\ UNCHANGED <<stop, g, sleepers, waiting, spurious>> /\ KeepWork
\* Mutant of DtorNotify: nobody is notified.
DtorSilent == Move(Caller, "dtor_notify", "dtor_join")
\* cv_.notify_all()
DtorNotify ==
  /\ Go(Caller, "dtor_notify", "dtor_join") /\ waiting' = {}
  /\ UNCHANGED <<sleepers, mu, spurious>> /\ KeepWork /\ KeepGens
\* t.join() for every worker
DtorJoin == (\A w \in Workers : pc[w] = "exit") /\ Move(Caller, "dtor_join", "gone")
-----------------------------------------------------------------------------
(* worker_loop(tid)                                                        *)

\* while (gen_ == seen && spins < kSpins): ends on a new generation or with the spins used up
SpinExit(w) == Move(w, "spin", "recheck")
\* if (gen_.load() == seen)
Recheck(w) == Move(w, "recheck", IF gen = g[w] THEN "lock" ELSE "stopcheck")

\* A step that takes mu_ (unique_lock, or cv_.wait returning) or moves sleepers_.
Acquire(w, from, to) ==
  /\ mu = {} /\ mu' = {w}
  /\ Go(w, from, to) /\ UNCHANGED <<sleepers, waiting, spurious>> /\ KeepWork /\ KeepGens
Count(w, from, to, d) ==
  /\ sleepers' = sleepers + d
  /\ Go(w, from, to) /\ UNCHANGED <<mu, waiting, spurious>> /\ KeepWork /\ KeepGens

Lock(w) == Acquire(w, "lock", "count")
AddSleeper(w) == Count(w, "count", "pred", 1)
\* the predicate's first load, gen_ != seen
PredGen(w) == Move(w, "pred", IF gen # g[w] THEN "uncount" ELSE "pred_stop")
\* its second, stop_; when neither holds, cv_.wait releases mu_ and blocks in one step
PredStop(w) ==
  /\ Go(w, "pred_stop", IF stop THEN "uncount" ELSE "wait")
  /\ IF stop THEN UNCHANGED <<mu, waiting>> ELSE mu' = {} /\ waiting' = waiting \cup {w}
  /\ UNCHANGED <<sleepers, spurious>> /\ KeepWork /\ KeepGens
\* cv_ may unblock a worker that nobody notified
Spurious(w) ==
  /\ w \in waiting /\ spurious < MaxSpurious
  /\ waiting' = waiting \ {w} /\ spurious' = spurious + 1
  /\ UNCHANGED <<pc, sleepers, mu>> /\ KeepWork /\ KeepGens
Relock(w) == w \notin waiting /\ Acquire(w, "wait", "pred")
DropSleeper(w) == Count(w, "uncount", "unlock", -1)
Unlock(w) ==
  /\ Go(w, "unlock", "stopcheck") /\ mu' = {}
  /\ UNCHANGED <<sleepers, waiting, spurious>> /\ KeepWork /\ KeepGens

\* if (stop_.load()) return
StopCheck(w) == Move(w, "stopcheck", IF stop THEN "exit" ELSE "load")
\* g = gen_.load(); seen = g
Load(w) ==
  /\ Go(w, "load", "join")
  /\ g' = [g EXCEPT ![w] = gen]
  /\ UNCHANGED <<gen, stop>> /\ KeepWork /\ KeepPark
\* Mutant of Join: the worker is not counted.
JoinUncounted(w) == Move(w, "join", "match")
\* j.refs.fetch_add(1)
Join(w) == Write(w, "join", "match", [Job(w) EXCEPT !.refs = @ + 1]) /\ UNCHANGED chunk
\* Mutants of Match: the slot's generation is not compared; a mismatch skips the decrement of refs.
MatchAny(w) == Move(w, "match", "take")
MatchContinue(w) == Move(w, "match", IF Job(w).gen = g[w] THEN "take" ELSE "spin")
\* if (j.gen.load() == g) run_chunks(j, tid)
Match(w) == Move(w, "match", IF Job(w).gen = g[w] THEN "take" ELSE "leave")
\* j.refs.fetch_sub(1)
Leave(w) == Write(w, "leave", "spin", [Job(w) EXCEPT !.refs = @ - 1]) /\ UNCHANGED chunk

Park(w) == \/ Lock(w) \/ AddSleeper(w) \/ PredGen(w) \/ PredStop(w)
           \/ Relock(w) \/ DropSleeper(w) \/ Unlock(w)
WorkerStep(w) ==
  \/ SpinExit(w) \/ Recheck(w) \/ Park(w) \/ StopCheck(w)
  \/ Load(w) \/ Join(w) \/ Match(w) \/ Leave(w) \/ RunChunks(w)
-----------------------------------------------------------------------------
\* What the caller does unasked: finish the call or the destruction it has begun.
CallerStep ==
  Inline \/ Dispatch \/ RunChunks(Caller) \/ DtorStop \/ DtorGen \/ DtorNotify \/ DtorJoin

\* The pool is gone: the only state in which everything may stop.
Terminated == pc[Caller] = "gone" /\ UNCHANGED vars

Next ==
  \/ \E r \in Requests : ParallelFor(r[1], r[2])
  \/ DtorLock
  \/ CallerStep
  \/ \E w \in Workers : WorkerStep(w) \/ Spurious(w)
  \/ Terminated

Spec == Init /\ [][Next]_vars

\* The operating system runs every thread; nobody owes a call, a destruction or a spurious wakeup.
FairSpec == Spec /\ WF_vars(CallerStep) /\ \A w \in Workers : WF_vars(WorkerStep(w))
-----------------------------------------------------------------------------
(* Properties                                                              *)

InCall == {"retire", "drain", "fill", "reset", "mark", "publish", "peek", "notify",
           "take", "call", "run", "credit", "await"}
InDtor == {"dtor_stop", "dtor_gen", "dtor_notify", "dtor_join"}
InChunks == {"take", "call", "run", "credit"}
CallerPC == InCall \cup InDtor \cup {"idle", "inline", "gone"}
WorkerPC == InChunks \cup {"spin", "recheck", "lock", "count", "pred", "pred_stop", "wait", "uncount",
                           "unlock", "stopcheck", "load", "join", "match", "leave", "exit"}

JobType == [gen : Nat \cup {kInvalid}, refs : Nat, next : Nat, done : Nat, ctx : Nat,
            total : Nat, grain : Nat \ {0}]

\* Type invariant.  refs_ and sleepers_ stay natural numbers: no decrement without its increment.
TypeOK ==
  /\ jobs \in [0..1 -> JobType]
  /\ gen \in Nat /\ stop \in BOOLEAN
  /\ sleepers \in Nat /\ mu \in SUBSET Threads /\ waiting \in SUBSET Workers /\ spurious \in Nat
  /\ pc \in [Threads -> CallerPC \cup WorkerPC]
  /\ pc[Caller] \in CallerPC /\ \A w \in Workers : pc[w] \in WorkerPC
  /\ g \in [Threads -> Nat]
  /\ chunk \in [Threads -> [lo : Nat, hi : Nat, ctx : Nat]]
  /\ call \in Nat /\ req \in [n : Int, grain : Int]
  /\ hits \in [0..req.n-1 -> Nat]

\* "A slot is only refilled once no straggler can still be reading it" (thread_pool.hpp:6): while
\* dispatch writes the plain fields and counters of a slot, no worker is between the two accesses of
\* run_chunks to them.  This is also the absence of data races on task, ctx, total and grain.
SlotExclusive ==
  pc[Caller] \in {"fill", "reset", "mark"} =>
    \A w \in Workers : pc[w] \in InChunks => Slot(w) # Slot(Caller)

\* A task runs only inside the call that dispatched it, with that call's context: its fn object is on
\* the caller's stack, and the buffers it writes are freed by ~Session before ~ThreadPool joins.
NoStrayTask ==
  \A t \in Threads : pc[t] \in {"run", "credit"} =>
    /\ pc[Caller] \in InCall
    /\ g[t] = g[Caller]
    /\ chunk[t].ctx = call

\* run_chunks hands no item to two threads, and none outside [0, n), although stragglers of the job
\* two generations back share the slot.
OneOwner ==
  /\ \A t \in Threads : pc[t] = "run" => \A i \in Items(t) : i \in 0..req.n-1 /\ hits[i] = 0
  /\ \A t, u \in Threads :
       t # u /\ pc[t] = "run" /\ pc[u] = "run" => Items(t) \cap Items(u) = {}

\* parallel_for returns only when every item of [0, n) has run, and run once: a job is finished when
\* all of its items are done, not when every worker has checked in (thread_pool.hpp:3).
CompleteOnReturn ==
  pc[Caller] \in {"idle"} \cup InDtor \cup {"gone"} => \A i \in 0..req.n-1 : hits[i] = 1

\* No lost wakeup: a worker stays blocked on cv_ past a new generation, or past stop_, only while the
\* caller is on its way to the notify_all that wakes it.
NoLostWakeup ==
  \A w \in waiting :
    /\ gen # g[w] => pc[Caller] \in {"peek", "notify", "dtor_notify"}
    /\ stop => pc[Caller] \in {"dtor_gen", "dtor_notify"}

\* A call that has begun returns, however late the workers are.
CallReturns == pc[Caller] \in InCall ~> pc[Caller] = "idle"

\* ~ThreadPool joins every worker, wherever the destruction found it.
DtorReturns == pc[Caller] \in InDtor ~> pc[Caller] = "gone"

\* A parked worker gets to look at every change of gen_: it does not sleep through a job when no later
\* call comes to wake it.
WorkersWake == \A w \in Workers : (pc[w] = "wait" /\ gen # g[w]) ~> pc[w] = "pred"

\* What the pool does, seen by its callers.
Phase == CASE pc[Caller] = "idle" -> "idle"
           [] pc[Caller] \in InCall \cup {"inline"} -> "busy"
           [] pc[Caller] \in InDtor -> "closing"
           [] pc[Caller] = "gone" -> "gone"
PF == INSTANCE ParallelFor WITH phase <- Phase, hits <- hits, Sizes <- {r[1] : r \in Requests}

\* The pool implements parallel_for: every item exactly once between call and return, nothing outside a
\* call, and calls and destructions end.
ImplementsParallelFor == PF!FairSpec
=============================================================================
