-------------------------- MODULE ThreadPool_proofs -------------------------
(***************************************************************************)
(* What is proved of the pool for any number of workers, requests and      *)
(* calls, in three parts: a slot is refilled only when no worker is inside *)
(* it, and no worker sleeps through a generation; each item of a call is   *)
(* run once and inside the call; the pool is a ParallelFor.                *)
(***************************************************************************)
EXTENDS ThreadPool, FiniteSetTheorems, TLAPS

USE DEF Threads, kInvalid

-----------------------------------------------------------------------------
(* Types, with the counters that are decremented only known to be integers *)

IntJobType == [gen : Nat \cup {kInvalid}, refs : Int, next : Nat, done : Int, ctx : Nat,
               total : Int, grain : Nat \ {0}]

Types ==
  /\ jobs \in [0..1 -> IntJobType]
  /\ gen \in Nat /\ stop \in BOOLEAN
  /\ sleepers \in Int /\ mu \in SUBSET Threads /\ waiting \in SUBSET Workers /\ spurious \in Nat
  /\ pc \in [Threads -> CallerPC \cup WorkerPC]
  /\ pc[Caller] \in CallerPC /\ \A w \in Workers : pc[w] \in WorkerPC
  /\ g \in [Threads -> Nat]
  /\ chunk \in [Threads -> [lo : Nat, hi : Int, ctx : Nat]]
  /\ call \in Nat /\ req \in [n : Int, grain : Int]

\* A generation's parity picks one of the two slots.
LEMMA SlotType == ASSUME Types, NEW t \in Threads PROVE Slot(t) \in 0..1 /\ Job(t) \in IntJobType
  BY DEF Types, Slot, Job

\* What reset and fill store is a job.
LEMMA ResetType == ASSUME NEW j \in IntJobType PROVE [j EXCEPT !.next = 0, !.done = 0] \in IntJobType
<1> DEFINE k == [j EXCEPT !.next = 0]
<1> k \in IntJobType
  BY DEF IntJobType
<1> HIDE DEF k
<1> [k EXCEPT !.done = 0] \in IntJobType
  BY DEF IntJobType
<1> QED BY DEF k

\* The same for fill.
LEMMA FillType ==
  ASSUME NEW j \in IntJobType, NEW c \in Nat, NEW n \in Int, NEW r \in Int
  PROVE  [j EXCEPT !.ctx = c, !.total = n, !.grain = IF r > 1 THEN r ELSE 1] \in IntJobType
<1> DEFINE k == [j EXCEPT !.ctx = c]
           l == [k EXCEPT !.total = n]
<1> k \in IntJobType
  BY DEF IntJobType
<1> HIDE DEF k
<1> l \in IntJobType
  BY DEF IntJobType
<1> HIDE DEF l
<1> [l EXCEPT !.grain = IF r > 1 THEN r ELSE 1] \in IntJobType
  BY DEF IntJobType
<1> QED BY DEF k, l

\* The types hold at the start, and every step keeps them.
LEMMA TypesInit == Init => Types
<1> SUFFICES ASSUME Init PROVE Types
  OBVIOUS
<1> Caller \notin Workers
  BY PoolAssumption DEF PoolAssumption
<1>1. jobs \in [0..1 -> IntJobType]
  BY DEF Init, NewJob, IntJobType
<1>2. pc \in [Threads -> CallerPC \cup WorkerPC] /\ pc[Caller] \in CallerPC /\ \A w \in Workers : pc[w] \in WorkerPC
  BY DEF Init, CallerPC, WorkerPC
<1>3. chunk \in [Threads -> [lo : Nat, hi : Int, ctx : Nat]]
  BY DEF Init, NoChunk
<1>4. req \in [n : Int, grain : Int] /\ g \in [Threads -> Nat]
  BY DEF Init
<1> QED BY <1>1, <1>2, <1>3, <1>4 DEF Init, Types

\* Every step keeps the types.
LEMMA TypesNext == Types /\ [Next]_vars => Types'
<1> SUFFICES ASSUME Types, [Next]_vars PROVE Types'
  OBVIOUS
<1> USE PoolAssumption DEF Go, KeepWork, KeepPark, KeepGens, Move, Write, Refill, NoChunk, CallerPC, WorkerPC, InCall, InDtor, InChunks
<1>1. ASSUME NEW t \in Threads, RunChunks(t) PROVE Types'
  <2> Slot(t) \in 0..1 /\ Job(t) \in IntJobType
    BY SlotType
  <2>1. CASE Take(t)
    BY <2>1 DEF Take, Types, IntJobType
  <2>2. CASE Drained(t)
    BY <2>2 DEF Drained, Types, IntJobType
  <2>3. CASE Call(t)
    BY <2>3 DEF Call, Types, IntJobType, Least
  <2>4. CASE Run(t)
    BY <2>4 DEF Run, Types, IntJobType
  <2>5. CASE Credit(t)
    BY <2>5 DEF Credit, Types, IntJobType
  <2> QED BY <1>1, <2>1, <2>2, <2>3, <2>4, <2>5 DEF RunChunks
<1>2. ASSUME NEW r \in Requests, ParallelFor(r[1], r[2]) PROVE Types'
  <2> r[1] \in Int /\ r[2] \in Int
    BY PoolAssumption DEF PoolAssumption
  <2> req' \in [n : Int, grain : Int] /\ call' \in Nat
    BY <1>2 DEF ParallelFor, Types
  <2> Caller \in Threads /\ Caller \notin Workers
    BY DEF PoolAssumption
  <2> pc' \in [Threads -> CallerPC \cup WorkerPC] /\ pc'[Caller] \in CallerPC /\ \A w \in Workers : pc'[w] = pc[w]
    BY <1>2, SMTT(40) DEF ParallelFor, Types
  <2> g' \in [Threads -> Nat]
    BY <1>2, SMTT(40) DEF ParallelFor, Types
  <2> QED BY <1>2 DEF ParallelFor, Types
<1>3. CASE CallerStep
  <2> Caller \in Threads /\ Slot(Caller) \in 0..1 /\ Job(Caller) \in IntJobType
    BY SlotType
  <2>1. CASE Inline
    BY <2>1 DEF Inline, Types
  <2>2. CASE Retire
    BY <2>2 DEF Retire, Types, IntJobType
  <2>3. CASE Drain
    BY <2>3 DEF Drain, Types, IntJobType
  <2>4. CASE Fill
    <3> [Job(Caller) EXCEPT !.ctx = call, !.total = req.n,
           !.grain = IF req.grain > 1 THEN req.grain ELSE 1] \in IntJobType
      BY FillType DEF Types
    <3> QED BY <2>4 DEF Fill, Types
  <2>5. CASE Reset
    <3> [Job(Caller) EXCEPT !.next = 0, !.done = 0] \in IntJobType
      BY ResetType
    <3> QED BY <2>5 DEF Reset, Types
  <2>6. CASE Mark
    BY <2>6 DEF Mark, Types, IntJobType
  <2>7. CASE Publish
    BY <2>7 DEF Publish, Types
  <2>8. CASE Peek
    BY <2>8 DEF Peek, Types
  <2>9. CASE Notify
    BY <2>9 DEF Notify, Types
  <2>10. CASE Await
    BY <2>10 DEF Await, Types
  <2>11. CASE DtorStop
    BY <2>11 DEF DtorStop, Types
  <2>12. CASE DtorGen
    BY <2>12 DEF DtorGen, Types
  <2>13. CASE DtorNotify
    BY <2>13 DEF DtorNotify, Types
  <2>14. CASE DtorJoin
    BY <2>14 DEF DtorJoin, Types
  <2> QED BY <1>1, <1>3, <2>1, <2>2, <2>3, <2>4, <2>5, <2>6, <2>7, <2>8, <2>9, <2>10, <2>11, <2>12,
             <2>13, <2>14 DEF CallerStep, Dispatch
<1>4. CASE DtorLock
  BY <1>4 DEF DtorLock, Types
<1>5. ASSUME NEW w \in Workers, WorkerStep(w) PROVE Types'
  <2> w \in Threads /\ w # Caller /\ Slot(w) \in 0..1 /\ Job(w) \in IntJobType
    BY SlotType DEF PoolAssumption
  <2>1. CASE SpinExit(w) \/ Recheck(w) \/ StopCheck(w) \/ Match(w)
    BY <2>1 DEF SpinExit, Recheck, StopCheck, Match, Types
  <2>2. CASE Park(w)
    BY <2>2 DEF Park, Lock, AddSleeper, PredGen, PredStop, Relock, DropSleeper, Unlock, Acquire, Count, Types
  <2>3. CASE Load(w)
    BY <2>3 DEF Load, Types
  <2>4. CASE Join(w)
    BY <2>4 DEF Join, Types, IntJobType
  <2>5. CASE Leave(w)
    BY <2>5 DEF Leave, Types, IntJobType
  <2> QED BY <1>1, <1>5, <2>1, <2>2, <2>3, <2>4, <2>5 DEF WorkerStep
<1>6. ASSUME NEW w \in Workers, Spurious(w) PROVE Types'
  BY <1>6 DEF Spurious, Types
<1>7. CASE UNCHANGED vars
  BY <1>7 DEF vars, Types
<1> QED BY <1>2, <1>3, <1>4, <1>5, <1>6, <1>7 DEF Next, Terminated
-----------------------------------------------------------------------------
(* Generations, reference counts and the marks on the slots                *)

\* The points between the choice of a slot and the publication of its generation.
Filling == {"retire", "drain", "fill", "reset", "mark", "publish"}
\* The points at which the call's job can be joined.
Live == {"publish", "peek", "notify", "take", "call", "run", "credit", "await"}
\* The points at which refs counts a worker.
InSlot == InChunks \cup {"match", "leave"}
Inside(s) == {w \in Workers : pc[w] \in InSlot /\ Slot(w) = s}

\* The caller's g against gen_, and no worker ahead of gen_.
Gens ==
  /\ g[Caller] = CASE pc[Caller] \in Filling -> gen + 1
                   [] pc[Caller] \in {"dtor_notify", "dtor_join", "gone"} -> gen - 1
                   [] OTHER -> gen
  /\ \A w \in Workers : g[w] <= gen

Refs == \A s \in 0..1 : jobs[s].refs = Cardinality(Inside(s))

\* A worker past the comparison of generations finds its own generation in the slot, or the mark that
\* makes dispatch wait for it.
Marks ==
  /\ pc[Caller] \in {"drain", "fill", "reset", "mark"} => Job(Caller).gen = kInvalid
  /\ pc[Caller] \in Live => Job(Caller).gen = g[Caller]
  /\ \A w \in Workers : pc[w] \in InChunks =>
       Job(w).gen = g[w] \/ (pc[Caller] = "drain" /\ Slot(w) = Slot(Caller))

SlotInv == Types /\ Gens /\ Refs /\ Marks

\* While a slot is marked invalid and the caller is past the drain, no worker is in run_chunks on it.
LEMMA SlotInvExclusive == SlotInv => SlotExclusive
  BY DEF SlotInv, SlotExclusive, Marks, Types, Slot, Job

\* The workers that refs counts are finitely many.
LEMMA InsideFinite == ASSUME Types, NEW s PROVE IsFiniteSet(Inside(s))
<1> Inside(s) \subseteq Workers
  BY DEF Inside
<1> QED BY FS_Subset, PoolAssumption DEF PoolAssumption

\* A step that keeps every worker inside or outside its slot keeps the counts right.
LEMMA RefsFrame ==
  ASSUME Refs,
         \A w \in Workers : (pc'[w] \in InSlot) = (pc[w] \in InSlot),
         \A w \in Workers : pc[w] \in InSlot => g'[w] = g[w],
         \A s \in 0..1 : jobs'[s].refs = jobs[s].refs
  PROVE  Refs'
<1> \A s \in 0..1 : Inside(s)' = Inside(s)
  BY DEF Inside, Slot
<1> QED BY DEF Refs

\* The invariant holds at the start.
LEMMA SlotInvInit == Init => SlotInv
<1> SUFFICES ASSUME Init PROVE SlotInv
  OBVIOUS
<1> Types /\ Caller \notin Workers
  BY TypesInit, PoolAssumption DEF PoolAssumption
<1>1. Gens
  BY DEF Gens, Init, Filling
<1>2. \A s : Inside(s) = {}
  BY DEF Inside, Init, InSlot, InChunks
<1>3. Refs
  BY <1>2, FS_EmptySet DEF Refs, Init, NewJob
<1>4. Marks
  BY DEF Marks, Init, Live, InChunks
<1> QED BY <1>1, <1>3, <1>4 DEF SlotInv

\* Every step of the caller and of the workers keeps the invariant.
LEMMA SlotInvNext == SlotInv /\ [Next]_vars => SlotInv'
<1> SUFFICES ASSUME SlotInv, [Next]_vars PROVE SlotInv'
  OBVIOUS
<1> Types' /\ Types
  BY TypesNext DEF SlotInv
<1> Caller \in Threads /\ Caller \notin Workers /\ Workers \subseteq Threads
  BY PoolAssumption DEF PoolAssumption
<1> USE DEF Go, KeepWork, KeepPark, KeepGens, Move, Write, Refill, NoChunk, InChunks
<1>1. ASSUME NEW t \in Threads, RunChunks(t) PROVE SlotInv'
  <2>0. Slot(t) \in 0..1 /\ Job(t) \in IntJobType
    BY SlotType
  <2>1. /\ pc[t] \in InChunks /\ g' = g /\ gen' = gen
        /\ \A u \in Threads : u # t => pc'[u] = pc[u]
        /\ \A s \in 0..1 : jobs'[s].gen = jobs[s].gen /\ jobs'[s].refs = jobs[s].refs
    <3>1. ASSUME NEW j, jobs' = [jobs EXCEPT ![Slot(t)] = j], j.gen = Job(t).gen, j.refs = Job(t).refs
          PROVE  \A s \in 0..1 : jobs'[s].gen = jobs[s].gen /\ jobs'[s].refs = jobs[s].refs
      BY <3>1 DEF Types, Job
    <3>2. CASE Take(t)
      BY <2>0, <3>1, <3>2 DEF Take, Types, IntJobType
    <3>3. CASE Credit(t)
      BY <2>0, <3>1, <3>3 DEF Credit, Types, IntJobType
    <3>4. CASE Drained(t) \/ Call(t) \/ Run(t)
      BY <3>4 DEF Drained, Call, Run, Types
    <3> QED BY <1>1, <3>2, <3>3, <3>4 DEF RunChunks
  <2>2. /\ t = Caller => pc[t] \in Live /\ pc'[t] \in InChunks \cup {"await"}
        /\ t \in Workers => pc'[t] \in InChunks \cup {"leave"}
    BY <1>1 DEF RunChunks, Take, Drained, Call, Run, Credit, Types, Live
  <2>3. Gens'
    BY <2>1, <2>2 DEF Gens, SlotInv, Filling, Live
  <2>4. Refs'
    BY <2>1, <2>2, RefsFrame DEF InSlot, SlotInv
  <2>5. Marks'
    <3> \A u \in Threads : Slot(u) \in 0..1 /\ Slot(u)' = Slot(u) /\ Job(u)'.gen = Job(u).gen
      BY <2>1, SlotType DEF Slot, Job
    <3> QED BY <2>1, <2>2 DEF Marks, SlotInv, Live
  <2> QED BY <2>3, <2>4, <2>5 DEF SlotInv
<1>2. ASSUME NEW r \in Requests, ParallelFor(r[1], r[2]) PROVE SlotInv'
  <2>1. /\ pc[Caller] = "idle" /\ pc'[Caller] \in {"idle", "inline", "retire"}
        /\ g'[Caller] = (IF pc'[Caller] = "retire" THEN gen + 1 ELSE g[Caller])
        /\ gen' = gen /\ jobs' = jobs
        /\ \A w \in Workers : pc'[w] = pc[w] /\ g'[w] = g[w]
    BY <1>2 DEF ParallelFor, Types
  <2>2. Gens'
    BY <2>1 DEF Gens, SlotInv, Filling
  <2>3. Refs'
    BY <2>1, RefsFrame DEF SlotInv
  <2>4. Marks'
    BY <2>1 DEF Marks, SlotInv, Live, Slot, Job
  <2> QED BY <2>2, <2>3, <2>4 DEF SlotInv
<1>3. CASE CallerStep
  <2>0. Slot(Caller) \in 0..1 /\ Job(Caller) \in IntJobType
    BY SlotType
  <2>1. pc[Caller] # "drain" => \A w \in Workers : pc[w] \in InChunks => Job(w).gen = g[w]
    BY DEF SlotInv, Marks
  <2>2. ASSUME jobs' = jobs, g' = g, gen' = gen, \A w \in Workers : pc'[w] = pc[w],
               pc[Caller] # "drain", pc'[Caller] \notin Filling,
               pc[Caller] \notin Filling, pc'[Caller] \in Live => pc[Caller] \in Live,
               pc[Caller] \in {"dtor_notify", "dtor_join", "gone"}
                 <=> pc'[Caller] \in {"dtor_notify", "dtor_join", "gone"}
        PROVE  SlotInv'
    <3>1. Gens'
      BY <2>2 DEF Gens, SlotInv
    <3>2. Refs'
      BY <2>2, RefsFrame DEF SlotInv
    <3>3. Marks'
      BY <2>1, <2>2 DEF Marks, SlotInv, Slot, Job, Filling
    <3> QED BY <3>1, <3>2, <3>3 DEF SlotInv
  <2>3. CASE Inline
    BY <2>2, <2>3 DEF Inline, Types, Filling, Live
  <2>4. CASE Retire
    <3>1. /\ jobs' = [jobs EXCEPT ![Slot(Caller)] = [Job(Caller) EXCEPT !.gen = kInvalid]]
          /\ g' = g /\ gen' = gen /\ pc[Caller] = "retire" /\ pc'[Caller] = "drain"
          /\ \A w \in Workers : pc'[w] = pc[w]
      BY <2>4 DEF Retire, Types
    <3>2. \A s \in 0..1 : jobs'[s].refs = jobs[s].refs
      BY <3>1, <2>0 DEF Types, IntJobType, Job
    <3>3. Refs'
      BY <3>1, <3>2, RefsFrame DEF SlotInv
    <3>4. Gens'
      BY <3>1 DEF Gens, SlotInv, Filling
    <3>5. /\ Job(Caller)'.gen = kInvalid
          /\ \A w \in Workers : Slot(w) # Slot(Caller) => Job(w)'.gen = Job(w).gen
      BY <3>1, <2>0, SlotType DEF Job, Slot, Types, IntJobType
    <3>6. Marks'
      BY <3>1, <3>5, <2>1 DEF Marks, SlotInv, Live, Slot
    <3> QED BY <3>3, <3>4, <3>6 DEF SlotInv
  <2>5. CASE Drain
    <3>1. /\ Job(Caller).refs = 0
          /\ jobs' = jobs /\ g' = g /\ gen' = gen /\ pc[Caller] = "drain" /\ pc'[Caller] = "fill"
          /\ \A w \in Workers : pc'[w] = pc[w]
      BY <2>5 DEF Drain, Types
    <3>2. Inside(Slot(Caller)) = {}
      BY <2>0, <3>1, InsideFinite, FS_EmptySet DEF Job, SlotInv, Refs
    <3>3. \A w \in Workers : pc[w] \in InChunks => Slot(w) # Slot(Caller)
      BY <3>2 DEF Inside, InSlot
    <3>4. Marks'
      BY <3>1, <3>3 DEF Marks, SlotInv, Live, Slot, Job
    <3>5. Refs'
      BY <3>1, RefsFrame DEF SlotInv
    <3>6. Gens'
      BY <3>1 DEF Gens, SlotInv, Filling
    <3> QED BY <3>4, <3>5, <3>6 DEF SlotInv
  <2>6. CASE Fill \/ Reset
    <3>1. /\ \E j : /\ jobs' = [jobs EXCEPT ![Slot(Caller)] = j]
                    /\ j.gen = Job(Caller).gen /\ j.refs = Job(Caller).refs
          /\ g' = g /\ gen' = gen
          /\ pc[Caller] \in {"fill", "reset"} /\ pc'[Caller] \in {"reset", "mark"}
          /\ \A w \in Workers : pc'[w] = pc[w]
      <4>1. CASE Fill
        <5> DEFINE j == [Job(Caller) EXCEPT !.ctx = call, !.total = req.n,
                           !.grain = IF req.grain > 1 THEN req.grain ELSE 1]
        <5>1. j.gen = Job(Caller).gen /\ j.refs = Job(Caller).refs
          BY <2>0 DEF IntJobType
        <5>2. /\ jobs' = [jobs EXCEPT ![Slot(Caller)] = j] /\ g' = g /\ gen' = gen
              /\ pc[Caller] = "fill" /\ pc'[Caller] = "reset" /\ \A w \in Workers : pc'[w] = pc[w]
          BY <4>1 DEF Fill, Types
        <5> HIDE DEF j
        <5> QED BY <5>1, <5>2
      <4>2. CASE Reset
        <5> DEFINE j == [Job(Caller) EXCEPT !.next = 0, !.done = 0]
        <5>1. j.gen = Job(Caller).gen /\ j.refs = Job(Caller).refs
          BY <2>0 DEF IntJobType
        <5>2. /\ jobs' = [jobs EXCEPT ![Slot(Caller)] = j] /\ g' = g /\ gen' = gen
              /\ pc[Caller] = "reset" /\ pc'[Caller] = "mark" /\ \A w \in Workers : pc'[w] = pc[w]
          BY <4>2 DEF Reset, Types
        <5> HIDE DEF j
        <5> QED BY <5>1, <5>2
      <4> QED BY <2>6, <4>1, <4>2
    <3>2. \A s \in 0..1 : jobs'[s].refs = jobs[s].refs /\ jobs'[s].gen = jobs[s].gen
      BY <3>1, <2>0 DEF Types, Job
    <3>3. Refs'
      BY <3>1, <3>2, RefsFrame DEF SlotInv
    <3>4. Gens'
      BY <3>1 DEF Gens, SlotInv, Filling
    <3>5. \A t \in Threads : Slot(t) \in 0..1 /\ Slot(t)' = Slot(t) /\ Job(t)'.gen = Job(t).gen
      BY <3>1, <3>2, SlotType DEF Job, Slot
    <3>6. Marks'
      BY <3>1, <3>5 DEF Marks, SlotInv, Live
    <3> QED BY <3>3, <3>4, <3>6 DEF SlotInv
  <2>7. CASE Mark
    <3>1. /\ jobs' = [jobs EXCEPT ![Slot(Caller)] = [Job(Caller) EXCEPT !.gen = g[Caller]]]
          /\ g' = g /\ gen' = gen /\ pc[Caller] = "mark" /\ pc'[Caller] = "publish"
          /\ \A w \in Workers : pc'[w] = pc[w]
      BY <2>7 DEF Mark, Types
    <3>2. \A s \in 0..1 : jobs'[s].refs = jobs[s].refs
      BY <3>1, <2>0 DEF Types, IntJobType, Job
    <3>3. Refs'
      BY <3>1, <3>2, RefsFrame DEF SlotInv
    <3>4. Gens'
      BY <3>1 DEF Gens, SlotInv, Filling
    <3>5. \A w \in Workers : pc[w] \in InChunks => Slot(w) # Slot(Caller)
      BY <3>1, SlotInvExclusive DEF SlotExclusive
    <3>6. /\ Job(Caller)'.gen = g[Caller]
          /\ \A w \in Workers : Slot(w) # Slot(Caller) => Job(w)'.gen = Job(w).gen
      BY <3>1, <2>0, SlotType DEF Job, Slot, Types, IntJobType
    <3>7. Marks'
      BY <3>1, <3>5, <3>6 DEF Marks, SlotInv, Live, Slot
    <3> QED BY <3>3, <3>4, <3>7 DEF SlotInv
  <2>8. CASE Publish
    <3>1. /\ jobs' = jobs /\ g' = g /\ gen' = g[Caller] /\ pc[Caller] = "publish" /\ pc'[Caller] = "peek"
          /\ \A w \in Workers : pc'[w] = pc[w]
      BY <2>8 DEF Publish, Types
    <3>2. Gens'
      BY <3>1 DEF Gens, SlotInv, Filling, Types
    <3>3. Refs'
      BY <3>1, RefsFrame DEF SlotInv
    <3>4. Marks'
      BY <3>1 DEF Marks, SlotInv, Live, Slot, Job
    <3> QED BY <3>2, <3>3, <3>4 DEF SlotInv
  <2>9. CASE Peek \/ Await
    BY <2>2, <2>9 DEF Peek, Await, Types, Filling, Live
  <2>10. CASE Notify
    BY <2>2, <2>10 DEF Notify, Types, Filling, Live
  <2>11. CASE DtorStop
    BY <2>2, <2>11 DEF DtorStop, Types, Filling, Live
  <2>12. CASE DtorGen
    <3>1. /\ jobs' = jobs /\ g' = g /\ gen' = gen + 1
          /\ pc[Caller] = "dtor_gen" /\ pc'[Caller] = "dtor_notify"
          /\ \A w \in Workers : pc'[w] = pc[w]
      BY <2>12 DEF DtorGen, Types
    <3>2. g[Caller] = gen /\ \A w \in Workers : g[w] <= gen /\ g[w] \in Nat
      BY <3>1 DEF Gens, SlotInv, Filling, Types
    <3>5. Gens'
      <4>1. gen \in Nat /\ g'[Caller] = gen' - 1 /\ \A w \in Workers : g'[w] <= gen'
        BY <3>1, <3>2 DEF Types
      <4> QED BY <3>1, <4>1 DEF Gens, Filling
    <3>3. Refs'
      BY <3>1, RefsFrame DEF SlotInv
    <3>4. Marks'
      BY <3>1 DEF Marks, SlotInv, Live, Slot, Job
    <3> QED BY <3>3, <3>4, <3>5 DEF SlotInv
  <2>13. CASE DtorNotify \/ DtorJoin
    BY <2>2, <2>13 DEF DtorNotify, DtorJoin, Types, Filling, Live
  <2> QED BY <1>1, <1>3, <2>3, <2>4, <2>5, <2>6, <2>7, <2>8, <2>9, <2>10, <2>11, <2>12, <2>13
       DEF CallerStep, Dispatch
<1>4. CASE DtorLock
  <2>1. /\ jobs' = jobs /\ g' = g /\ gen' = gen /\ pc[Caller] = "idle" /\ pc'[Caller] = "dtor_stop"
        /\ \A w \in Workers : pc'[w] = pc[w]
    BY <1>4 DEF DtorLock, Types
  <2>2. Gens' /\ Refs'
    BY <2>1, RefsFrame DEF Gens, SlotInv, Filling
  <2>3. Marks'
    BY <2>1 DEF Marks, SlotInv, Live, Slot, Job
  <2> QED BY <2>2, <2>3 DEF SlotInv
<1>5. ASSUME NEW w \in Workers, WorkerStep(w) PROVE SlotInv'
  <2>0. w \in Threads /\ w # Caller /\ Slot(w) \in 0..1 /\ Job(w) \in IntJobType
    BY SlotType
  <2>1. ASSUME jobs' = jobs, gen' = gen, g' = g, pc'[Caller] = pc[Caller],
               \A u \in Workers : u # w => pc'[u] = pc[u],
               pc[w] \in InSlot <=> pc'[w] \in InSlot, pc'[w] \notin InChunks \/ Job(w).gen = g[w]
        PROVE  SlotInv'
    <3>1. Gens'
      BY <2>1 DEF Gens, SlotInv
    <3>2. Refs'
      BY <2>1, RefsFrame DEF SlotInv
    <3>3. Marks'
      BY <2>1 DEF Marks, SlotInv, Slot, Job
    <3> QED BY <3>1, <3>2, <3>3 DEF SlotInv
  <2>2. CASE SpinExit(w) \/ Recheck(w) \/ StopCheck(w)
    BY <2>0, <2>1, <2>2 DEF SpinExit, Recheck, StopCheck, Types, InSlot
  <2>3. CASE Park(w)
    BY <2>0, <2>1, <2>3 DEF Park, Lock, AddSleeper, PredGen, PredStop, Relock, DropSleeper, Unlock,
       Acquire, Count, Types, InSlot
  <2>4. CASE Match(w)
    BY <2>0, <2>1, <2>4 DEF Match, Types, InSlot
  <2>5. CASE Load(w)
    <3>1. /\ jobs' = jobs /\ gen' = gen /\ g' = [g EXCEPT ![w] = gen]
          /\ pc[w] = "load" /\ pc' = [pc EXCEPT ![w] = "join"]
      BY <2>5 DEF Load
    <3>2. g'[w] = gen /\ \A u \in Threads : u # w => g'[u] = g[u] /\ pc'[u] = pc[u]
      BY <2>0, <3>1 DEF Types
    <3>3. pc'[w] = "join"
      BY <2>0, <3>1 DEF Types
    <3>4. Gens'
      BY <2>0, <3>1, <3>2 DEF Gens, SlotInv, Types
    <3>5. Refs'
      BY <2>0, <3>1, <3>2, <3>3, RefsFrame DEF SlotInv, InSlot
    <3>6. Marks'
      BY <2>0, <3>1, <3>2, <3>3 DEF Marks, SlotInv, Slot, Job
    <3> QED BY <3>4, <3>5, <3>6 DEF SlotInv
  <2>6. ASSUME NEW a, NEW b, NEW d \in {-1, 1}, NEW j,
               /\ pc[w] = a /\ pc' = [pc EXCEPT ![w] = b]
               /\ jobs' = [jobs EXCEPT ![Slot(w)] = j] /\ g' = g /\ gen' = gen,
               j.gen = Job(w).gen /\ j.refs = Job(w).refs + d,
               a \notin InChunks /\ b \notin InChunks,
               Cardinality(Inside(Slot(w))') = Cardinality(Inside(Slot(w))) + d
        PROVE  SlotInv'
    <3>1. /\ pc'[w] = b /\ \A u \in Threads : u # w => pc'[u] = pc[u]
          /\ \A u \in Threads : Slot(u)' = Slot(u)
          /\ jobs'[Slot(w)] = j /\ \A s \in 0..1 : s # Slot(w) => jobs'[s] = jobs[s]
      BY <2>0, <2>6 DEF Types, Slot
    <3>2. \A u \in Threads : Job(u)'.gen = Job(u).gen
      BY <2>0, <2>6, <3>1, SlotType DEF Job
    <3>3. Gens' /\ Marks'
      BY <2>0, <2>6, <3>1, <3>2 DEF Gens, Marks, SlotInv
    <3>4. \A s \in 0..1 : s # Slot(w) => Inside(s)' = Inside(s)
      BY <3>1 DEF Inside
    <3>5. Refs'
      BY <2>0, <2>6, <3>1, <3>4 DEF Refs, SlotInv, Job
    <3> QED BY <3>3, <3>5 DEF SlotInv
  <2>7. CASE Join(w)
    <3> DEFINE j == [Job(w) EXCEPT !.refs = @ + 1]
    <3>1. /\ pc[w] = "join" /\ pc' = [pc EXCEPT ![w] = "match"]
          /\ jobs' = [jobs EXCEPT ![Slot(w)] = j] /\ g' = g /\ gen' = gen
      BY <2>7 DEF Join
    <3>2. j.gen = Job(w).gen /\ j.refs = Job(w).refs + 1
      BY <2>0 DEF IntJobType
    <3>3. Inside(Slot(w))' = Inside(Slot(w)) \cup {w} /\ w \notin Inside(Slot(w))
      BY <2>0, <3>1 DEF Inside, InSlot, Slot, Types
    <3>4. Cardinality(Inside(Slot(w))') = Cardinality(Inside(Slot(w))) + 1
      BY <3>3, InsideFinite, FS_AddElement
    <3> HIDE DEF j
    <3> QED BY <2>6, <3>1, <3>2, <3>4
  <2>8. CASE Leave(w)
    <3> DEFINE j == [Job(w) EXCEPT !.refs = @ - 1]
    <3>1. /\ pc[w] = "leave" /\ pc' = [pc EXCEPT ![w] = "spin"]
          /\ jobs' = [jobs EXCEPT ![Slot(w)] = j] /\ g' = g /\ gen' = gen
      BY <2>8 DEF Leave
    <3>2. j.gen = Job(w).gen /\ j.refs = Job(w).refs + (-1)
      BY <2>0 DEF IntJobType
    <3>3. Inside(Slot(w))' = Inside(Slot(w)) \ {w} /\ w \in Inside(Slot(w))
      BY <2>0, <3>1 DEF Inside, InSlot, Slot, Types
    <3>4. Cardinality(Inside(Slot(w))') = Cardinality(Inside(Slot(w))) + (-1)
      BY <3>3, InsideFinite, FS_RemoveElement, FS_CardinalityType
    <3> HIDE DEF j
    <3> QED BY <2>6, <3>1, <3>2, <3>4
  <2> QED BY <1>1, <1>5, <2>0, <2>2, <2>3, <2>4, <2>5, <2>7, <2>8 DEF WorkerStep
<1>6. ASSUME NEW w \in Workers, Spurious(w) PROVE SlotInv'
  BY <1>6, RefsFrame DEF Spurious, SlotInv, Gens, Marks, Slot, Job
<1>7. CASE UNCHANGED vars
  BY <1>7, RefsFrame DEF vars, SlotInv, Gens, Marks, Slot, Job
<1> QED BY <1>2, <1>3, <1>4, <1>5, <1>6, <1>7 DEF Next, Terminated

\* SlotExclusive for every number of workers and every sequence of calls: the counter refs and the mark
\* kInvalid between them keep stragglers out of a slot that is being refilled.
THEOREM StragglersExcluded == Spec => []SlotExclusive
<1>1. Spec => []SlotInv
  BY SlotInvInit, SlotInvNext, PTL DEF Spec
<1> QED BY <1>1, SlotInvExclusive, PTL

-----------------------------------------------------------------------------
(* Parking: no worker is left asleep                                       *)

\* mu_ is held by at most one thread: a worker between lock and unlock, or the destructor.
Locked == {"count", "pred", "pred_stop", "uncount", "unlock", "dtor_stop", "dtor_gen"}
Mutex ==
  /\ mu = {t \in Threads : pc[t] \in Locked}
  /\ \A t, u \in mu : t = u

\* The workers that sleepers_ counts; those in cv_ are among them.
Counted == {w \in Workers : pc[w] \in {"pred", "pred_stop", "wait", "uncount"}}
Sleepers == sleepers = Cardinality(Counted) /\ \A w \in waiting : pc[w] = "wait"

\* A worker that has found no new generation under the lock, and is about to block, can miss only one
\* whose publisher has yet to look at sleepers_ or to take the lock.
Missed ==
  /\ \A w \in Workers : pc[w] = "pred_stop" /\ gen # g[w] => pc[Caller] \in {"peek", "notify"}
  /\ NoLostWakeup

ParkInv == Types /\ Mutex /\ Sleepers /\ Missed

\* The invariant holds at the start.
LEMMA ParkInvInit == Init => ParkInv
<1> SUFFICES ASSUME Init PROVE ParkInv
  OBVIOUS
<1>1. \A t \in Threads : pc[t] \in {"idle", "spin"}
  BY DEF Init
<1>2. Counted = {} /\ {t \in Threads : pc[t] \in Locked} = {} /\ \A w \in Workers : pc[w] # "pred_stop"
  BY <1>1 DEF Counted, Locked, Threads
<1>3. mu = {} /\ sleepers = 0 /\ waiting = {}
  BY DEF Init
<1>4. Mutex /\ Sleepers /\ Missed
  BY <1>2, <1>3, FS_EmptySet DEF Mutex, Sleepers, Missed, NoLostWakeup
<1> QED BY <1>4, TypesInit DEF ParkInv

\* A step that keeps every thread on its side of the lock keeps the mutex.
LEMMA MutexFrame ==
  ASSUME Mutex, mu' = mu, \A t \in Threads : pc'[t] \in Locked <=> pc[t] \in Locked
  PROVE  Mutex'
  BY DEF Mutex, Threads

\* A step that counts the same workers keeps sleepers right.
LEMMA SleepersFrame ==
  ASSUME Sleepers, sleepers' = sleepers, waiting' \subseteq waiting,
         \A w \in Workers : w \in Counted' <=> w \in Counted,
         \A w \in waiting' : pc'[w] = pc[w]
  PROVE  Sleepers'
<1> Counted' = Counted
  BY DEF Counted
<1> QED BY DEF Sleepers

\* Every step of the caller and of the workers keeps the invariant.
LEMMA ParkInvNext == ParkInv /\ [Next]_vars => ParkInv'
<1> SUFFICES ASSUME ParkInv, [Next]_vars PROVE ParkInv'
  OBVIOUS
<1> Types' /\ Types /\ Mutex /\ Sleepers /\ Missed
  BY TypesNext DEF ParkInv
<1> Caller \in Threads /\ Caller \notin Workers /\ Workers \subseteq Threads /\ waiting \subseteq Workers
  BY PoolAssumption DEF PoolAssumption, Types, Threads
<1> IsFiniteSet(Counted) /\ Counted \subseteq Workers
  BY FS_Subset, PoolAssumption DEF PoolAssumption, Counted
<1> USE DEF Go, KeepWork, KeepPark, KeepGens, Move, Write, Refill
\* A step of thread t that leaves the lock, the counter and the generations alone.
<1>1. ASSUME NEW t \in Threads, mu' = mu, sleepers' = sleepers, waiting' = waiting,
             gen' = gen, stop' = stop, \A u \in Threads : u # t => pc'[u] = pc[u] /\ g'[u] = g[u],
             pc[t] \in Locked <=> pc'[t] \in Locked,
             t \in Workers => /\ pc[t] # "wait" /\ pc'[t] \notin {"wait", "pred_stop"}
                              /\ t \in Counted <=> t \in Counted',
             t = Caller => /\ pc[t] \notin {"peek", "notify", "dtor_gen", "dtor_notify"}
      PROVE  ParkInv'
  <2>1. Mutex' /\ Sleepers'
    BY <1>1, MutexFrame, SleepersFrame DEF Counted, Sleepers
  <2>2. Missed'
    BY <1>1 DEF Missed, NoLostWakeup, Sleepers
  <2> QED BY <2>1, <2>2 DEF ParkInv
<1>2. ASSUME NEW t \in Threads, RunChunks(t) PROVE ParkInv'
  <2>1. /\ pc[t] \in InChunks /\ pc'[t] \in InChunks \cup {"await", "leave"}
        /\ g' = g /\ gen' = gen /\ stop' = stop /\ mu' = mu /\ sleepers' = sleepers /\ waiting' = waiting
        /\ \A u \in Threads : u # t => pc'[u] = pc[u]
    BY <1>2 DEF RunChunks, Take, Drained, Call, Run, Credit, Types, InChunks
  <2> QED BY <1>1, <2>1 DEF InChunks, Locked, Counted
<1>3. ASSUME NEW r \in Requests, ParallelFor(r[1], r[2]) PROVE ParkInv'
  <2>1. /\ pc[Caller] = "idle" /\ pc'[Caller] \in {"idle", "inline", "retire"}
        /\ gen' = gen /\ stop' = stop /\ mu' = mu /\ sleepers' = sleepers /\ waiting' = waiting
        /\ \A u \in Threads : u # Caller => pc'[u] = pc[u] /\ g'[u] = g[u]
    BY <1>3 DEF ParallelFor, Types
  <2> QED BY <1>1, <2>1 DEF Locked
<1>4. CASE Inline \/ Retire \/ Drain \/ Fill \/ Reset \/ Mark \/ Await \/ DtorJoin
  <2>1. /\ pc[Caller] \in {"inline", "retire", "drain", "fill", "reset", "mark", "await", "dtor_join"}
        /\ pc'[Caller] \in {"idle", "drain", "fill", "reset", "mark", "publish", "gone"}
        /\ gen' = gen /\ stop' = stop /\ mu' = mu /\ sleepers' = sleepers /\ waiting' = waiting /\ g' = g
        /\ \A u \in Threads : u # Caller => pc'[u] = pc[u]
    BY <1>4 DEF Inline, Retire, Drain, Fill, Reset, Mark, Await, DtorJoin, Types
  <2> QED BY <1>1, <2>1 DEF Locked
<1>5. CASE Publish \/ Peek \/ Notify \/ DtorNotify
  <2>1. /\ pc[Caller] \in {"publish", "peek", "notify", "dtor_notify"}
        /\ pc'[Caller] \in {"peek", "notify", "take", "dtor_join"}
        /\ stop' = stop /\ mu' = mu /\ sleepers' = sleepers /\ g' = g
        /\ \A u \in Threads : u # Caller => pc'[u] = pc[u]
    BY <1>5 DEF Publish, Peek, Notify, DtorNotify, Types
  <2>2. waiting' \subseteq waiting
    BY <1>5 DEF Publish, Peek, Notify, DtorNotify
  <2>3. Mutex' /\ Sleepers'
    BY <2>1, <2>2, MutexFrame, SleepersFrame DEF Locked, Counted
  <2>4. CASE Publish
    BY <2>1, <2>3, <2>4 DEF Publish, Missed, NoLostWakeup, ParkInv
  <2>5. CASE Peek
    <3>1. gen' = gen /\ waiting' = waiting
      BY <2>5 DEF Peek
    <3>2. CASE sleepers > 0
      BY <2>1, <2>3, <2>5, <3>1, <3>2 DEF Peek, Missed, NoLostWakeup, Types, ParkInv
    <3>3. CASE ~(sleepers > 0)
      <4>1. Counted = {}
        BY <3>3, FS_EmptySet, FS_CardinalityType DEF Sleepers
      <4>2. waiting = {} /\ \A w \in Workers : pc[w] # "pred_stop"
        BY <4>1 DEF Counted, Sleepers
      <4> QED BY <2>1, <2>3, <3>1, <4>2 DEF Missed, NoLostWakeup, ParkInv
    <3> QED BY <2>3, <3>2, <3>3 DEF ParkInv
  <2>6. CASE Notify
    <3>1. gen' = gen /\ waiting' = {} /\ \A w \in Workers : pc[w] # "pred_stop"
      BY <2>6 DEF Notify, Mutex, Locked
    <3> QED BY <2>1, <2>3, <3>1 DEF Missed, NoLostWakeup, ParkInv
  <2>7. CASE DtorNotify
    <3>1. gen' = gen /\ waiting' = {} /\ pc[Caller] = "dtor_notify"
      BY <2>7 DEF DtorNotify
    <3> QED BY <2>1, <2>3, <3>1 DEF Missed, NoLostWakeup, ParkInv
  <2> QED BY <1>5, <2>3, <2>4, <2>5, <2>6, <2>7 DEF ParkInv
<1>6. CASE DtorLock \/ DtorStop \/ DtorGen
  <2>1. /\ pc[Caller] \in {"idle", "dtor_stop", "dtor_gen"}
        /\ pc'[Caller] = CASE pc[Caller] = "idle" -> "dtor_stop" [] pc[Caller] = "dtor_stop" -> "dtor_gen"
                           [] OTHER -> "dtor_notify"
        /\ sleepers' = sleepers /\ g' = g /\ waiting' = waiting
        /\ \A u \in Threads : u # Caller => pc'[u] = pc[u]
    BY <1>6 DEF DtorLock, DtorStop, DtorGen, Types
  <2>2. Sleepers'
    BY <2>1, SleepersFrame DEF Counted
  <2>3. Mutex'
    <3>1. CASE DtorLock
      BY <2>1, <3>1 DEF DtorLock, Mutex, Locked
    <3>2. CASE DtorStop
      BY <2>1, <3>2, MutexFrame DEF DtorStop, Locked
    <3>3. CASE DtorGen
      BY <2>1, <3>3 DEF DtorGen, Mutex, Locked
    <3> QED BY <1>6, <3>1, <3>2, <3>3
  <2>4. Missed'
    <3>1. CASE DtorLock \/ DtorStop
      BY <2>1, <3>1 DEF DtorLock, DtorStop, Missed, NoLostWakeup
    <3>2. CASE DtorGen
      <4>1. \A w \in Workers : pc[w] # "pred_stop"
        BY <2>1, <3>2 DEF DtorGen, Mutex, Locked
      <4> QED BY <2>1, <3>2, <4>1 DEF DtorGen, Missed, NoLostWakeup
    <3> QED BY <1>6, <3>1, <3>2
  <2> QED BY <2>2, <2>3, <2>4 DEF ParkInv
<1>7. ASSUME NEW w \in Workers, WorkerStep(w) PROVE ParkInv'
  <2>0. w \in Threads /\ w # Caller
    OBVIOUS
  <2>1. CASE SpinExit(w) \/ Recheck(w) \/ StopCheck(w) \/ Load(w) \/ Join(w) \/ Match(w) \/ Leave(w)
    <3>1. /\ pc[w] \in {"spin", "recheck", "stopcheck", "load", "join", "match", "leave"}
          /\ pc'[w] \in {"recheck", "lock", "stopcheck", "exit", "load", "join", "match", "take", "leave", "spin"}
          /\ gen' = gen /\ stop' = stop /\ mu' = mu /\ sleepers' = sleepers /\ waiting' = waiting
          /\ \A u \in Threads : u # w => pc'[u] = pc[u] /\ g'[u] = g[u]
      BY <2>0, <2>1 DEF SpinExit, Recheck, StopCheck, Load, Join, Match, Leave, Types
    <3> QED BY <1>1, <2>0, <3>1 DEF Locked, Counted
  <2>2. CASE Park(w)
    <3>1. /\ gen' = gen /\ stop' = stop /\ g' = g
          /\ \A u \in Threads : u # w => pc'[u] = pc[u]
      BY <2>0, <2>2 DEF Park, Lock, AddSleeper, PredGen, PredStop, Relock, DropSleeper, Unlock, Acquire, Count, Types
    <3>2. CASE Lock(w)
      <4>1. mu = {} /\ mu' = {w} /\ pc[w] = "lock" /\ pc'[w] = "count" /\ waiting' = waiting /\ sleepers' = sleepers
        BY <2>0, <3>2 DEF Lock, Acquire, Types
      <4> QED BY <2>0, <3>1, <4>1, SleepersFrame DEF Mutex, Sleepers, Missed, NoLostWakeup, Locked, Counted, ParkInv
    <3>3. CASE Relock(w)
      <4>1. /\ mu = {} /\ mu' = {w} /\ pc[w] = "wait" /\ pc'[w] = "pred" /\ waiting' = waiting /\ sleepers' = sleepers
            /\ w \notin waiting
        BY <2>0, <3>3 DEF Relock, Acquire, Types
      <4> QED BY <2>0, <3>1, <4>1, SleepersFrame DEF Mutex, Sleepers, Missed, NoLostWakeup, Locked, Counted, ParkInv
    <3>4. CASE AddSleeper(w)
      <4>1. /\ pc[w] = "count" /\ pc'[w] = "pred" /\ sleepers' = sleepers + 1 /\ mu' = mu /\ waiting' = waiting
        BY <2>0, <3>4 DEF AddSleeper, Count, Types
      <4>2. Counted' = Counted \cup {w} /\ w \notin Counted
        BY <2>0, <3>1, <4>1 DEF Counted
      <4>3. Sleepers'
        BY <2>0, <3>1, <4>1, <4>2, FS_AddElement DEF Sleepers
      <4>4. Mutex'
        BY <2>0, <3>1, <4>1, MutexFrame DEF Locked
      <4> QED BY <2>0, <3>1, <4>1, <4>3, <4>4 DEF Missed, NoLostWakeup, ParkInv
    <3>5. CASE PredGen(w)
      <4>1. /\ pc[w] = "pred" /\ pc'[w] = (IF gen # g[w] THEN "uncount" ELSE "pred_stop")
            /\ sleepers' = sleepers /\ mu' = mu /\ waiting' = waiting
        BY <2>0, <3>5 DEF PredGen, Types
      <4>2. Sleepers' /\ Mutex'
        BY <2>0, <3>1, <4>1, SleepersFrame, MutexFrame DEF Locked, Counted, Sleepers
      <4> QED BY <2>0, <3>1, <4>1, <4>2 DEF Missed, NoLostWakeup, ParkInv
    <3>6. CASE PredStop(w) /\ stop
      <4>1. /\ pc[w] = "pred_stop" /\ pc'[w] = "uncount" /\ sleepers' = sleepers /\ mu' = mu /\ waiting' = waiting
        BY <2>0, <3>6 DEF PredStop, Types
      <4>2. Sleepers' /\ Mutex'
        BY <2>0, <3>1, <4>1, SleepersFrame, MutexFrame DEF Locked, Counted, Sleepers
      <4> QED BY <2>0, <3>1, <4>1, <4>2 DEF Missed, NoLostWakeup, ParkInv
    <3>7. CASE PredStop(w) /\ ~stop
      <4>1. /\ pc[w] = "pred_stop" /\ pc'[w] = "wait" /\ sleepers' = sleepers /\ mu' = {}
            /\ waiting' = waiting \cup {w}
        BY <2>0, <3>7 DEF PredStop, Types
      <4>2. Counted' = Counted
        BY <2>0, <3>1, <4>1 DEF Counted
      <4>3. Sleepers'
        BY <2>0, <3>1, <4>1, <4>2 DEF Sleepers
      <4>4. Mutex'
        BY <2>0, <3>1, <4>1 DEF Mutex, Locked
      <4>5. Missed'
        BY <2>0, <3>1, <3>7, <4>1 DEF Missed, NoLostWakeup
      <4> QED BY <4>3, <4>4, <4>5 DEF ParkInv
    <3>8. CASE DropSleeper(w)
      <4>1. /\ pc[w] = "uncount" /\ pc'[w] = "unlock" /\ sleepers' = sleepers - 1 /\ mu' = mu /\ waiting' = waiting
        BY <2>0, <3>8 DEF DropSleeper, Count, Types
      <4>2. Counted' = Counted \ {w} /\ w \in Counted
        BY <2>0, <3>1, <4>1 DEF Counted
      <4>3. Sleepers'
        BY <2>0, <3>1, <4>1, <4>2, FS_RemoveElement DEF Sleepers
      <4>4. Mutex'
        BY <2>0, <3>1, <4>1, MutexFrame DEF Locked
      <4> QED BY <2>0, <3>1, <4>1, <4>3, <4>4 DEF Missed, NoLostWakeup, ParkInv
    <3>9. CASE Unlock(w)
      <4>1. pc[w] = "unlock" /\ pc'[w] = "stopcheck" /\ mu' = {} /\ waiting' = waiting /\ sleepers' = sleepers
        BY <2>0, <3>9 DEF Unlock, Types
      <4>2. Sleepers'
        BY <2>0, <3>1, <4>1, SleepersFrame DEF Counted, Sleepers
      <4> QED BY <2>0, <3>1, <4>1, <4>2 DEF Mutex, Missed, NoLostWakeup, Locked, ParkInv
    <3> QED BY <2>2, <3>2, <3>3, <3>4, <3>5, <3>6, <3>7, <3>8, <3>9 DEF Park
  <2> QED BY <1>2, <1>7, <2>0, <2>1, <2>2 DEF WorkerStep
<1>8. ASSUME NEW w \in Workers, Spurious(w) PROVE ParkInv'
  <2>1. pc' = pc /\ mu' = mu /\ sleepers' = sleepers /\ waiting' \subseteq waiting /\ gen' = gen /\ stop' = stop /\ g' = g
    BY <1>8 DEF Spurious
  <2>2. Mutex' /\ Sleepers'
    BY <2>1, MutexFrame, SleepersFrame DEF Counted
  <2> QED BY <2>1, <2>2 DEF Missed, NoLostWakeup, ParkInv
<1>9. CASE UNCHANGED vars
  BY <1>9, MutexFrame, SleepersFrame DEF vars, Missed, NoLostWakeup, Counted, ParkInv
<1> QED BY <1>2, <1>3, <1>4, <1>5, <1>6, <1>7, <1>8, <1>9 DEF Next, Terminated, CallerStep, Dispatch

\* NoLostWakeup for every number of workers: between the counter that the publisher reads and the lock
\* that it takes, every worker which decided to sleep on an old generation is woken.
THEOREM NobodySleepsOn == Spec => []NoLostWakeup
<1>1. ParkInv => NoLostWakeup
  BY DEF ParkInv, Missed
<1> QED BY <1>1, ParkInvInit, ParkInvNext, PTL DEF Spec

-----------------------------------------------------------------------------
(* Work: the items of a call, each run once, inside the call               *)

-----------------------------------------------------------------------------
(* The invariant                                                           *)

\* The points at which the caller's slot holds the job of the call, and before: nothing has been run.
Begun == {"reset", "mark"} \cup Live
Before == {"retire", "drain", "fill", "reset", "mark", "inline"}
Over == {"idle"} \cup InDtor \cup {"gone"}
Held == {"call", "run", "credit"}
Current(s) == pc[Caller] \in Begun /\ s = Slot(Caller)
J == Job(Caller)

\* Everything of an earlier job has been handed out and done: what its stragglers take is past its end.
Spent ==
  /\ \A s \in 0..1 : Current(s) \/ jobs[s].next >= jobs[s].total
  /\ \A w \in Workers : pc[w] \in InChunks /\ ~Current(Slot(w)) =>
       pc[w] = "take" \/ (pc[w] = "call" /\ chunk[w].lo >= Job(w).total)

\* What the caller has put into the slot, and what has not been run before the job is there.
Filled ==
  /\ pc[Caller] \notin Over => req.n > 0
  /\ pc[Caller] \in Begun => J.total = req.n /\ J.ctx = call
  /\ pc[Caller] = "mark" => J.next = 0 /\ J.done = 0
  /\ pc[Caller] \in Before => \A i \in 0..req.n-1 : hits[i] = 0

\* The threads that hold a chunk of the current job, and its items.
Holder(t) == pc[t] \in Held /\ Slot(t) = Slot(Caller)
ChunkEnd(t) == Least(J.total, chunk[t].lo + J.grain)
Claim(t) == chunk[t].lo .. ChunkEnd(t) - 1
Holding(t) ==
  /\ chunk[t].lo + J.grain <= J.next
  /\ pc[t] # "call" => chunk[t].lo < J.total /\ chunk[t].hi = ChunkEnd(t) /\ chunk[t].ctx = call
Apart(t, u) == chunk[t].lo + J.grain <= chunk[u].lo \/ chunk[u].lo + J.grain <= chunk[t].lo
\* The items that have been run, and those of them that done counts.
Ran == {i \in 0..req.n-1 : i < J.next /\ \A t \in Threads : Holder(t) /\ pc[t] # "credit" => i \notin Claim(t)}
Credited == {i \in 0..req.n-1 : i < J.next /\ \A t \in Threads : Holder(t) => i \notin Claim(t)}
Shared ==
  /\ \A t \in Threads : Holder(t) => Holding(t)
  /\ \A t, u \in Threads : t # u /\ Holder(t) /\ Holder(u) => Apart(t, u)
  /\ J.done = Cardinality(Credited)
  /\ \A i \in 0..req.n-1 : hits[i] = IF i \in Ran THEN 1 ELSE 0

\* What Types leaves to be shown: no subtraction goes below zero, and hits covers the items of the call.
NonNegative ==
  /\ \A s \in 0..1 : jobs[s].total >= 0 /\ jobs[s].done >= 0
  /\ \A t \in Threads : chunk[t].hi >= 0
  /\ hits \in [0..req.n-1 -> Nat]

Work == Spent /\ Filled /\ (pc[Caller] \in Live => Shared) /\ NonNegative /\ CompleteOnReturn
WorkInv == SlotInv /\ Work

\* The invariant holds at the start.
LEMMA WorkInit == Init => Work
<1> SUFFICES ASSUME Init PROVE Work
  OBVIOUS
<1> Caller \in Threads /\ Caller \notin Workers
  BY PoolAssumption DEF PoolAssumption, Threads
<1>1. /\ pc[Caller] = "idle" /\ \A w \in Workers : pc[w] = "spin"
      /\ \A s \in 0..1 : jobs[s].next = 0 /\ jobs[s].total = 0 /\ jobs[s].done = 0
      /\ \A t \in Threads : chunk[t].hi = 0
      /\ req.n = 0 /\ hits = [i \in 0..-1 |-> 0]
  BY DEF Init, NewJob, NoChunk, Threads
<1>2. Spent /\ Filled
  BY <1>1 DEF Spent, Filled, InChunks, Over, Begun, Before, Live
<1>3. NonNegative /\ CompleteOnReturn
  BY <1>1 DEF NonNegative, CompleteOnReturn
<1> QED BY <1>1, <1>2, <1>3 DEF Work, Live

\* A step that takes no chunk, hands none back and leaves the stage of the call.
LEMMA WorkFrame ==
  ASSUME WorkInv,
         call' = call, req' = req, hits' = hits, chunk' = chunk,
         \A s \in 0..1 : /\ jobs'[s].next = jobs[s].next /\ jobs'[s].done = jobs[s].done
                         /\ jobs'[s].total = jobs[s].total /\ jobs'[s].grain = jobs[s].grain
                         /\ jobs'[s].ctx = jobs[s].ctx,
         g'[Caller] = g[Caller],
         \A t \in Threads : pc[t] \in Held \/ pc'[t] \in Held => pc'[t] = pc[t],
         \A t \in Threads : pc[t] \in InChunks \/ pc'[t] \in InChunks => g'[t] = g[t],
         pc'[Caller] \in Over <=> pc[Caller] \in Over,
         pc'[Caller] \in Live <=> pc[Caller] \in Live,
         pc'[Caller] \in Before <=> pc[Caller] \in Before,
         pc'[Caller] \in Begun <=> pc[Caller] \in Begun,
         pc'[Caller] = "mark" <=> pc[Caller] = "mark"
  PROVE  Work'
<1> Caller \in Threads /\ Workers \subseteq Threads
  BY DEF Threads
<1> \A t \in Threads : Slot(t) \in 0..1
  BY SlotType DEF WorkInv, SlotInv
<1>1. /\ Slot(Caller)' = Slot(Caller)
      /\ \A t \in Threads : pc[t] \in InChunks \/ pc'[t] \in InChunks => Slot(t)' = Slot(t)
      /\ \A s : Current(s)' = Current(s)
  BY DEF Slot, Current
<1>2. Spent'
  <2>1. \A w \in Workers : pc'[w] \in InChunks => pc'[w] = "take" \/ (pc[w] = pc'[w] /\ Slot(w)' = Slot(w))
    BY <1>1 DEF InChunks, Held
  <2> QED BY <1>1, <2>1 DEF WorkInv, Work, Spent, Job
<1>3. /\ J'.next = J.next /\ J'.done = J.done /\ J'.total = J.total /\ J'.grain = J.grain /\ J'.ctx = J.ctx
  BY <1>1 DEF J, Job
<1>4. Filled'
  BY <1>3 DEF WorkInv, Work, Filled
<1>5. /\ \A t \in Threads : Holder(t)' = Holder(t) /\ Claim(t)' = Claim(t) /\ ChunkEnd(t)' = ChunkEnd(t)
      /\ \A t \in Threads : Holder(t) => pc'[t] = pc[t]
  BY <1>1, <1>3 DEF Holder, Claim, ChunkEnd, Held, InChunks
<1>6. Ran' = Ran /\ Credited' = Credited
  BY <1>3, <1>5 DEF Ran, Credited, Threads
<1>7. Shared => Shared'
  <2> HIDE DEF Claim, ChunkEnd, Holder, Ran, Credited
  <2> SUFFICES ASSUME Shared PROVE Shared'
    OBVIOUS
  <2>1. \A t \in Threads : Holder(t) => Holding(t)'
    BY <1>3, <1>5 DEF Shared, Holding
  <2>2. \A t, u \in Threads : t # u /\ Holder(t) /\ Holder(u) => Apart(t, u)'
    BY <1>3 DEF Shared, Apart
  <2> QED BY <1>3, <1>5, <1>6, <2>1, <2>2 DEF Shared, Threads
<1>8. NonNegative' /\ CompleteOnReturn'
  BY DEF WorkInv, Work, NonNegative, CompleteOnReturn, Over, Threads
<1> QED BY <1>2, <1>4, <1>7, <1>8 DEF WorkInv, Work

-----------------------------------------------------------------------------
(* run_chunks                                                              *)

\* A straggler, on a slot that does not hold the job of the call: it finds nothing to do.
LEMMA StragglerStep ==
  ASSUME WorkInv, NEW t \in Threads, RunChunks(t), ~Current(Slot(t))
  PROVE  Work'
<1> USE DEF Go, KeepWork, KeepPark, KeepGens, Write, WorkInv
<1>1. Types /\ Caller \in Threads /\ Caller \notin Workers /\ Workers \subseteq Threads
  BY PoolAssumption DEF SlotInv, PoolAssumption, Threads
<1>2. Slot(t) \in 0..1 /\ Job(t) \in IntJobType /\ Slot(Caller) \in 0..1
  BY <1>1, SlotType
<1>3. pc[t] \in InChunks /\ t \in Workers
  <2>1. pc[t] \in InChunks
    BY DEF RunChunks, Take, Drained, Call, Run, Credit, InChunks
  <2> QED BY <2>1 DEF Current, Begun, Live, InChunks, Threads
<1>4. pc[t] = "take" \/ (pc[t] = "call" /\ chunk[t].lo >= Job(t).total)
  BY <1>3 DEF Work, Spent
<1>5. /\ call' = call /\ req' = req /\ hits' = hits /\ g' = g
      /\ \A u \in Threads : u # t => pc'[u] = pc[u] /\ chunk'[u] = chunk[u]
      /\ \A s \in 0..1 : s # Slot(t) => jobs'[s] = jobs[s]
      /\ jobs'[Slot(t)].total = Job(t).total /\ jobs'[Slot(t)].done = Job(t).done
      /\ jobs'[Slot(t)].next >= Job(t).next /\ jobs'[Slot(t)].next \in Nat
      /\ \/ pc'[t] = "call" /\ chunk'[t].lo = Job(t).next /\ chunk'[t].hi = 0
         \/ pc'[t] = "leave" /\ chunk'[t].hi = 0
  <2>1. CASE Take(t)
    <3>1. jobs' = [jobs EXCEPT ![Slot(t)] = [Job(t) EXCEPT !.next = @ + Job(t).grain]]
      BY <2>1 DEF Take
    <3>2. /\ jobs'[Slot(t)] = [Job(t) EXCEPT !.next = @ + Job(t).grain]
          /\ \A s \in 0..1 : s # Slot(t) => jobs'[s] = jobs[s]
      BY <1>1, <1>2, <3>1 DEF Types
    <3>3. /\ jobs'[Slot(t)].total = Job(t).total /\ jobs'[Slot(t)].done = Job(t).done
          /\ jobs'[Slot(t)].next >= Job(t).next /\ jobs'[Slot(t)].next \in Nat
      BY <1>2, <3>2 DEF IntJobType
    <3>4. chunk'[t].lo = Job(t).next /\ chunk'[t].hi = 0 /\ \A u \in Threads : u # t => chunk'[u] = chunk[u]
      BY <1>1, <2>1 DEF Take, Types, NoChunk
    <3> QED BY <1>1, <2>1, <3>2, <3>3, <3>4 DEF Take, Types
  <2>2. CASE Drained(t)
    BY <1>1, <1>2, <1>3, <2>2, PoolAssumption DEF Drained, Types, NoChunk, Job, IntJobType
  <2>3. Take(t) \/ Drained(t)
    <3>1. ~Run(t) /\ ~Credit(t)
      BY <1>4 DEF Run, Credit
    <3>2. ~Call(t)
      BY <1>1, <1>2, <1>4 DEF Call, Types, IntJobType
    <3> QED BY <3>1, <3>2 DEF RunChunks
  <2> QED BY <2>1, <2>2, <2>3
<1>6. pc'[Caller] = pc[Caller] /\ Slot(Caller)' = Slot(Caller) /\ \A u \in Threads : Slot(u)' = Slot(u)
  BY <1>1, <1>3, <1>5 DEF Slot
<1>7. \A s : Current(s)' = Current(s)
  BY <1>6 DEF Current
<1>8. Spent'
  <2>1. Job(t).next >= Job(t).total
    BY <1>2, <1>3 DEF Work, Spent, Job
  <2>2. \A s \in 0..1 : Current(s)' \/ jobs'[s].next >= jobs'[s].total
    BY <1>2, <1>5, <1>7, <2>1 DEF Work, Spent, IntJobType
  <2>3. ASSUME NEW w \in Workers, pc'[w] \in InChunks, ~Current(Slot(w))'
        PROVE  pc'[w] = "take" \/ (pc'[w] = "call" /\ chunk'[w].lo >= Job(w)'.total)
    <3>1. CASE w = t
      BY <1>5, <1>6, <2>1, <2>3, <3>1 DEF Job, InChunks
    <3>2. CASE w # t
      <4>1. Slot(w) \in 0..1 /\ jobs'[Slot(w)].total = jobs[Slot(w)].total
        BY <1>1, <1>2, <1>5, SlotType DEF Job
      <4> QED BY <1>1, <1>5, <1>6, <1>7, <2>3, <3>2, <4>1 DEF Job, Work, Spent
    <3> QED BY <3>1, <3>2
  <2> QED BY <2>2, <2>3 DEF Spent
<1>9. Filled' /\ (pc'[Caller] \in Live => Shared')
  <2>1. CASE pc[Caller] \notin Begun
    BY <1>5, <1>6, <2>1 DEF Work, Filled, Begun, Live
  <2>2. CASE pc[Caller] \in Begun
    <3>1. Slot(t) # Slot(Caller) /\ J' = J
      BY <1>2, <1>5, <1>6, <2>2 DEF Current, J, Job
    <3>2. \A u \in Threads : (Holder(u)' <=> Holder(u)) /\ (Holder(u) => pc'[u] = pc[u] /\ chunk'[u] = chunk[u])
      BY <1>5, <1>6, <3>1 DEF Holder
    <3>3. \A u \in Threads : Holder(u) => Claim(u)' = Claim(u) /\ ChunkEnd(u)' = ChunkEnd(u)
      BY <3>1, <3>2 DEF Claim, ChunkEnd
    <3>4. Ran' = Ran /\ Credited' = Credited
      BY <1>5, <3>1, <3>2, <3>3 DEF Ran, Credited, Threads
    <3>5. \A u \in Threads : Holder(u) => (Holding(u)' <=> Holding(u))
      BY <1>5, <3>1, <3>2, <3>3 DEF Holding
    <3>6. \A u, v \in Threads : Holder(u) /\ Holder(v) => (Apart(u, v)' <=> Apart(u, v))
      BY <3>1, <3>2 DEF Apart
    <3>7. Shared => Shared'
      BY <1>5, <3>1, <3>2, <3>4, <3>5, <3>6 DEF Shared, Threads
    <3> QED BY <1>5, <1>6, <3>1, <3>7 DEF Work, Filled
  <2> QED BY <2>1, <2>2
<1>10. NonNegative' /\ CompleteOnReturn'
  <2>1. \A s \in 0..1 : jobs'[s].total = jobs[s].total /\ jobs'[s].done = jobs[s].done
    BY <1>2, <1>5 DEF Job
  <2> QED BY <1>5, <1>6, <2>1 DEF Work, NonNegative, CompleteOnReturn, Threads
<1> QED BY <1>8, <1>9, <1>10 DEF Work

\* The types of what run_chunks works with.
LEMMA JobFacts ==
  ASSUME WorkInv, pc[Caller] \in Live
  PROVE  /\ J.next \in Nat /\ J.done \in Int /\ J.total = req.n /\ J.ctx = call /\ J.grain \in Nat \ {0}
         /\ req.n \in Int /\ req.n > 0 /\ Slot(Caller) \in 0..1 /\ call \in Nat
         /\ \A t \in Threads : chunk[t].lo \in Nat /\ chunk[t].hi \in Int /\ ChunkEnd(t) \in Int
<1> Caller \in Threads /\ Types
  BY DEF Threads, WorkInv, SlotInv
<1>1. J \in IntJobType /\ Slot(Caller) \in 0..1
  BY SlotType DEF J
<1>2. J.total = req.n /\ J.ctx = call /\ req.n > 0 /\ req.n \in Int
  BY DEF WorkInv, Work, Filled, Begun, Live, Over, InDtor, Types, InChunks
<1>3. \A t \in Threads : chunk[t].lo \in Nat /\ chunk[t].hi \in Int
  BY DEF Types
<1>4. J.next \in Nat /\ J.done \in Int /\ J.grain \in Nat \ {0} /\ call \in Nat
  BY <1>1 DEF IntJobType, Types
<1>5. \A t \in Threads : ChunkEnd(t) \in Int
  BY <1>2, <1>3, <1>4 DEF ChunkEnd, Least
<1> QED BY <1>1, <1>2, <1>3, <1>4, <1>5

\* How many items a chunk has.
LEMMA RangeSize ==
  ASSUME NEW a \in Int, NEW b \in Int, a <= b
  PROVE  IsFiniteSet(a..b-1) /\ Cardinality(a..b-1) = b - a
<1> DEFINE c == b - 1
<1> c \in Int /\ c + 1 = b
  OBVIOUS
<1> HIDE DEF c
<1>1. IsFiniteSet(a..c) /\ Cardinality(a..c) = IF a > c THEN 0 ELSE c - a + 1
  BY FS_Interval
<1>2. Cardinality(a..c) = b - a
  BY <1>1
<1> QED BY <1>1, <1>2 DEF c

\* Finite sets of items.
LEMMA ItemsFinite ==
  ASSUME WorkInv, pc[Caller] \in Live
  PROVE  IsFiniteSet(Credited) /\ Cardinality(0..req.n-1) = req.n /\ Cardinality(Credited) \in Nat
<1>0. req.n \in Int /\ req.n > 0
  BY JobFacts
<1>1. IsFiniteSet(0..req.n-1) /\ Cardinality(0..req.n-1) = req.n
  BY <1>0, RangeSize
<1>2. Credited \subseteq 0..req.n-1
  BY DEF Credited
<1> QED BY <1>1, <1>2, FS_Subset, FS_CardinalityType

\* A step of a thread at the job of the call: what is to be shown of it.
LEMMA TeamFrame ==
  ASSUME WorkInv, NEW t \in Threads, pc[t] \in InChunks, Slot(t) = Slot(Caller), pc[Caller] \in Live,
         call' = call, req' = req, g' = g,
         \A u \in Threads : u # t => pc'[u] = pc[u] /\ chunk'[u] = chunk[u],
         \A s \in 0..1 : s # Slot(t) => jobs'[s] = jobs[s],
         J'.total = J.total, J'.ctx = J.ctx, J'.done \in Int, J'.done >= J.done,
         pc'[t] \in InChunks \cup {IF t = Caller THEN "await" ELSE "leave"},
         chunk'[t].hi >= 0, hits' \in [0..req.n-1 -> Nat],
         Shared'
  PROVE  Work'
<1> USE DEF WorkInv
<1>1. Types /\ Caller \in Threads /\ Caller \notin Workers /\ Workers \subseteq Threads
  BY PoolAssumption DEF SlotInv, PoolAssumption, Threads
<1>2. \A u \in Threads : Slot(u) \in 0..1 /\ Slot(u)' = Slot(u)
  BY <1>1, SlotType DEF Slot
<1>3. pc'[Caller] \in Live
  <2>1. CASE t = Caller
    BY <2>1 DEF Live, InChunks
  <2>2. CASE t # Caller
    BY <1>1, <2>2
  <2> QED BY <2>1, <2>2
<1>4. \A s : Current(s) <=> s = Slot(Caller)
  BY DEF Current, Begun
<1>5. \A s : Current(s)' <=> s = Slot(Caller)
  BY <1>1, <1>2, <1>3 DEF Current, Begun
<1>6. Spent'
  <2>1. \A s \in 0..1 : Current(s)' \/ jobs'[s].next >= jobs'[s].total
    BY <1>4, <1>5 DEF Work, Spent
  <2>2. ASSUME NEW w \in Workers, pc'[w] \in InChunks, ~Current(Slot(w))'
        PROVE  pc'[w] = "take" \/ (pc'[w] = "call" /\ chunk'[w].lo >= Job(w)'.total)
    <3>1. w # t /\ Slot(w) # Slot(Caller)
      BY <1>1, <1>2, <1>5, <2>2
    <3> QED BY <1>1, <1>2, <1>4, <2>2, <3>1 DEF Work, Spent, Job
  <2> QED BY <2>1, <2>2 DEF Spent
<1>7. Filled'
  BY <1>3, JobFacts DEF Work, Filled, Over, Live, Before, InDtor, InChunks
<1>8. NonNegative'
  <2>1. \A s \in 0..1 : jobs'[s].total >= 0 /\ jobs'[s].done >= 0
    <3>1. jobs'[Slot(Caller)] = J' /\ jobs[Slot(Caller)] = J
      BY <1>1, <1>2 DEF J, Job
    <3>2. J.total >= 0 /\ J.done >= 0
      BY <1>1, <1>2, <3>1 DEF Work, NonNegative
    <3>3. J'.done >= 0
      BY <3>2, JobFacts
    <3> QED BY <3>1, <3>2, <3>3 DEF Work, NonNegative
  <2> QED BY <2>1 DEF Work, NonNegative, Threads
<1>9. CompleteOnReturn'
  BY <1>3 DEF CompleteOnReturn, Live, InDtor, InChunks
<1> QED BY <1>6, <1>7, <1>8, <1>9 DEF Work

\* What the other threads hold, when thread t takes a step on its chunk.
LEMMA OthersKeep ==
  ASSUME WorkInv, NEW t \in Threads, Slot(t) = Slot(Caller), pc[Caller] \in Live,
         call' = call, g' = g, \A u \in Threads : u # t => pc'[u] = pc[u] /\ chunk'[u] = chunk[u],
         J'.total = J.total, J'.grain = J.grain, J'.ctx = J.ctx, J'.next \in Nat, J'.next >= J.next
  PROVE  /\ Slot(t)' = Slot(t) /\ Slot(Caller)' = Slot(Caller)
         /\ \A u \in Threads : u # t => /\ Holder(u)' <=> Holder(u)
                                        /\ pc'[u] = pc[u]
                                        /\ Claim(u)' = Claim(u)
                                        /\ Holder(u) => Holding(u)' /\ Holding(u)
         /\ \A u, v \in Threads : u # t /\ v # t /\ u # v /\ Holder(u) /\ Holder(v) => Apart(u, v)'
<1> Shared
  BY DEF WorkInv, Work
<1>1. \A u \in Threads : Slot(u)' = Slot(u)
  BY DEF Slot
<1>2. Caller \in Threads
  BY DEF Threads
<1>3. \A u \in Threads : u # t => (Holder(u)' <=> Holder(u)) /\ Claim(u)' = Claim(u) /\ ChunkEnd(u)' = ChunkEnd(u)
  BY <1>1, <1>2 DEF Holder, Claim, ChunkEnd
<1>4. \A u \in Threads : u # t /\ Holder(u) => Holding(u)' /\ Holding(u)
  <2> TAKE u \in Threads
  <2> HAVE u # t /\ Holder(u)
  <2>1. Holding(u)
    BY DEF Shared
  <2>2. chunk[u].lo + J.grain <= J.next /\ chunk[u].lo + J.grain \in Nat /\ J.next \in Nat
    BY <2>1, JobFacts DEF Holding
  <2>3. chunk'[u].lo + J'.grain <= J'.next
    BY <2>2
  <2> QED BY <1>3, <2>1, <2>3 DEF Holding
<1>5. \A u, v \in Threads : u # t /\ v # t /\ u # v /\ Holder(u) /\ Holder(v) => Apart(u, v)'
  BY DEF Shared, Apart
<1> QED BY <1>1, <1>2, <1>3, <1>4, <1>5

\* A step of run_chunks on the job of the call.
LEMMA TeamStep ==
  ASSUME WorkInv, NEW t \in Threads, RunChunks(t), Current(Slot(t))
  PROVE  Work'
<1> USE DEF Go, KeepWork, KeepPark, KeepGens, Write
<1>1. Types /\ Caller \in Threads /\ Caller \notin Workers /\ Workers \subseteq Threads
  BY PoolAssumption DEF WorkInv, SlotInv, PoolAssumption, Threads
<1>2. pc[t] \in InChunks
  BY DEF RunChunks, Take, Drained, Call, Run, Credit, InChunks
<1>3. Slot(t) = Slot(Caller) /\ pc[Caller] \in Live
  <2>1. CASE t = Caller
    BY <1>2, <2>1 DEF Live, InChunks
  <2>2. CASE t \in Workers
    BY <1>2, <2>2, SlotInvExclusive DEF SlotExclusive, WorkInv, Current, Begun
  <2> QED BY <2>1, <2>2 DEF Threads, Current
<1>4. Slot(t) \in 0..1 /\ Job(t) \in IntJobType /\ Job(t) = J /\ J \in IntJobType
  BY <1>1, <1>3, SlotType DEF J, Job
<1>5. /\ J.next \in Nat /\ J.done \in Int /\ J.total = req.n /\ J.ctx = call /\ J.grain \in Nat \ {0}
      /\ req.n \in Int /\ req.n > 0
      /\ \A u \in Threads : chunk[u].lo \in Nat /\ chunk[u].hi \in Int /\ ChunkEnd(u) \in Int
  BY <1>3, JobFacts
<1>6. Shared /\ hits \in [0..req.n-1 -> Nat] /\ \A u \in Threads : chunk[u].hi >= 0
  BY <1>3 DEF WorkInv, Work, NonNegative
<1>7. /\ call' = call /\ req' = req /\ g' = g
      /\ \A u \in Threads : u # t => pc'[u] = pc[u]
  BY <1>1 DEF RunChunks, Take, Drained, Call, Run, Credit, Types
<1>8. J' = jobs'[Slot(t)]
  BY <1>1, <1>3, <1>7 DEF J, Job, Slot
\* What is left to show of a step that keeps the plain fields of the job.
<1>9. ASSUME \A u \in Threads : u # t => chunk'[u] = chunk[u],
             jobs' = [jobs EXCEPT ![Slot(t)] = J'],
             J'.total = J.total, J'.grain = J.grain, J'.ctx = J.ctx, J'.next \in Nat, J'.next >= J.next,
             J'.done \in Int, J'.done >= J.done,
             pc'[t] \in InChunks \cup {IF t = Caller THEN "await" ELSE "leave"},
             chunk'[t].hi >= 0, hits' \in [0..req.n-1 -> Nat],
             Holder(t)' => Holding(t)' /\ \A u \in Threads : u # t /\ Holder(u) => Apart(t, u)',
             J'.done = Cardinality(Credited)',
             \A i \in 0..req.n-1 : hits'[i] = IF i \in Ran' THEN 1 ELSE 0
      PROVE  Work'
  <2>1. \A s \in 0..1 : s # Slot(t) => jobs'[s] = jobs[s]
    BY <1>1, <1>4, <1>9 DEF Types
  <2>2. /\ \A u \in Threads : u # t => (Holder(u)' <=> Holder(u)) /\ (Holder(u) => Holding(u)')
        /\ \A u, v \in Threads : u # t /\ v # t /\ u # v /\ Holder(u) /\ Holder(v) => Apart(u, v)'
    BY <1>3, <1>7, <1>9, OthersKeep
  <2>3. \A u, v : Apart(u, v)' <=> Apart(v, u)'
    BY DEF Apart
  <2>4. Shared'
    BY <1>7, <1>9, <2>2, <2>3 DEF Shared, Threads
  <2> QED BY <1>2, <1>3, <1>7, <1>9, <2>1, <2>4, TeamFrame
<1>10. CASE Take(t)
  <2>1. /\ jobs' = [jobs EXCEPT ![Slot(t)] = [J EXCEPT !.next = @ + J.grain]]
        /\ pc[t] = "take" /\ pc'[t] = "call" /\ hits' = hits
        /\ chunk'[t].lo = J.next /\ chunk'[t].hi = 0 /\ \A u \in Threads : u # t => chunk'[u] = chunk[u]
    BY <1>1, <1>4, <1>10 DEF Take, Types, NoChunk
  <2>2. J' = [J EXCEPT !.next = @ + J.grain]
    BY <1>1, <1>4, <1>8, <2>1 DEF Types
  <2>3. /\ J'.total = J.total /\ J'.grain = J.grain /\ J'.ctx = J.ctx /\ J'.done = J.done
        /\ J'.next = J.next + J.grain /\ J'.next \in Nat /\ J'.next >= J.next
    BY <1>4, <1>5, <2>2 DEF IntJobType
  <2>4. /\ Slot(t)' = Slot(Caller)'
        /\ \A u \in Threads : u # t => /\ (Holder(u)' <=> Holder(u)) /\ pc'[u] = pc[u] /\ Claim(u)' = Claim(u)
                                       /\ Holder(u) => Holding(u)
    BY <1>3, <1>7, <2>1, <2>3, OthersKeep
  <2>5. ~Holder(t) /\ Holder(t)'
    BY <2>1, <2>4 DEF Holder, Held
  <2>6. Holding(t)' /\ \A u \in Threads : u # t /\ Holder(u) => Apart(t, u)'
    <3>1. Holding(t)'
      BY <1>5, <2>1, <2>3 DEF Holding
    <3>2. ASSUME NEW u \in Threads, u # t, Holder(u) PROVE Apart(t, u)'
      BY <2>1, <2>3, <2>4, <3>2 DEF Holding, Apart
    <3> QED BY <3>1, <3>2
  <2>7. \A i \in 0..req.n-1 : i < J'.next /\ i \notin Claim(t)' <=> i < J.next
    <3>1. Claim(t)' = J.next .. Least(J.total, J.next + J.grain) - 1
      BY <2>1, <2>3 DEF Claim, ChunkEnd
    <3> QED BY <1>5, <2>3, <3>1 DEF Least
  <2>8. Ran' = Ran /\ Credited' = Credited
    <3>1. Ran' = {i \in 0..req.n-1 : i < J'.next /\ i \notin Claim(t)' /\
                    \A u \in Threads : u # t /\ Holder(u) /\ pc[u] # "credit" => i \notin Claim(u)}
      BY <1>7, <2>1, <2>4, <2>5 DEF Ran, Threads
    <3>2. Credited' = {i \in 0..req.n-1 : i < J'.next /\ i \notin Claim(t)' /\
                         \A u \in Threads : u # t /\ Holder(u) => i \notin Claim(u)}
      BY <1>7, <2>1, <2>4, <2>5 DEF Credited, Threads
    <3> QED BY <2>5, <2>7, <3>1, <3>2 DEF Ran, Credited
  <2> QED BY <1>5, <1>6, <1>9, <2>1, <2>2, <2>3, <2>6, <2>8 DEF Shared, InChunks
\* The steps that leave the job alone, but for done.
<1>11. ASSUME \A u \in Threads : u # t => chunk'[u] = chunk[u],
              J'.total = J.total, J'.grain = J.grain, J'.ctx = J.ctx, J'.next = J.next
       PROVE  /\ Slot(t)' = Slot(Caller)'
              /\ \A u \in Threads : u # t => /\ (Holder(u)' <=> Holder(u)) /\ pc'[u] = pc[u] /\ Claim(u)' = Claim(u)
                                             /\ Holder(u) => Holding(u)
              /\ Ran' = {i \in 0..req.n-1 : i < J.next /\ (Holder(t)' /\ pc'[t] # "credit" => i \notin Claim(t)') /\
                           \A u \in Threads : u # t /\ Holder(u) /\ pc[u] # "credit" => i \notin Claim(u)}
              /\ Credited' = {i \in 0..req.n-1 : i < J.next /\ (Holder(t)' => i \notin Claim(t)') /\
                                \A u \in Threads : u # t /\ Holder(u) => i \notin Claim(u)}
              /\ Ran = {i \in 0..req.n-1 : i < J.next /\ (Holder(t) /\ pc[t] # "credit" => i \notin Claim(t)) /\
                           \A u \in Threads : u # t /\ Holder(u) /\ pc[u] # "credit" => i \notin Claim(u)}
              /\ Credited = {i \in 0..req.n-1 : i < J.next /\ (Holder(t) => i \notin Claim(t)) /\
                                \A u \in Threads : u # t /\ Holder(u) => i \notin Claim(u)}
  <2>1. /\ Slot(t)' = Slot(Caller)'
        /\ \A u \in Threads : u # t => /\ (Holder(u)' <=> Holder(u)) /\ pc'[u] = pc[u] /\ Claim(u)' = Claim(u)
                                       /\ Holder(u) => Holding(u)
    BY <1>3, <1>5, <1>7, <1>11, OthersKeep
  <2> QED BY <1>7, <1>11, <2>1 DEF Ran, Credited, Threads
<1>12. CASE Drained(t)
  <2>1. /\ jobs' = jobs /\ hits' = hits
        /\ pc[t] = "call" /\ pc'[t] = (IF t = Caller THEN "await" ELSE "leave")
        /\ chunk'[t].hi = 0 /\ \A u \in Threads : u # t => chunk'[u] = chunk[u]
        /\ chunk[t].lo >= J.total
    BY <1>1, <1>4, <1>12 DEF Drained, Types, NoChunk
  <2>2. J' = J /\ jobs' = [jobs EXCEPT ![Slot(t)] = J']
    BY <1>1, <1>3, <1>4, <1>8, <2>1 DEF Types, J, Job
  <2>0. /\ J'.total = J.total /\ J'.grain = J.grain /\ J'.ctx = J.ctx /\ J'.next = J.next /\ J'.done = J.done
        /\ J'.next \in Nat /\ J'.next >= J.next /\ J'.done \in Int /\ J'.done >= J.done
    BY <1>5, <2>2
  <2>3. ~Holder(t)' /\ Holder(t) /\ pc[t] # "credit"
    BY <1>3, <2>1 DEF Holder, Held
  <2>4. Claim(t) = {}
    BY <1>5, <2>1 DEF Claim, ChunkEnd, Least
  <2>5. Ran' = Ran /\ Credited' = Credited
    BY <1>11, <2>1, <2>2, <2>3, <2>4
  <2>6. pc'[t] \in InChunks \cup {IF t = Caller THEN "await" ELSE "leave"} /\ chunk'[t].hi >= 0
    BY <2>1
  <2>7. J'.done = Cardinality(Credited)' /\ \A i \in 0..req.n-1 : hits'[i] = IF i \in Ran' THEN 1 ELSE 0
    BY <1>6, <2>0, <2>1, <2>5 DEF Shared
  <2> QED BY <1>6, <1>9, <2>0, <2>1, <2>2, <2>3, <2>6, <2>7
<1>13. CASE Call(t)
  <2>1. /\ jobs' = jobs /\ hits' = hits
        /\ pc[t] = "call" /\ pc'[t] = "run"
        /\ chunk'[t].lo = chunk[t].lo /\ chunk'[t].hi = ChunkEnd(t) /\ chunk'[t].ctx = J.ctx
        /\ \A u \in Threads : u # t => chunk'[u] = chunk[u]
        /\ chunk[t].lo < J.total
    BY <1>1, <1>4, <1>13 DEF Call, Types, ChunkEnd
  <2>2. J' = J /\ jobs' = [jobs EXCEPT ![Slot(t)] = J']
    BY <1>1, <1>3, <1>4, <1>8, <2>1 DEF Types, J, Job
  <2>0. /\ J'.total = J.total /\ J'.grain = J.grain /\ J'.ctx = J.ctx /\ J'.next = J.next /\ J'.done = J.done
        /\ J'.next \in Nat /\ J'.next >= J.next /\ J'.done \in Int /\ J'.done >= J.done
    BY <1>5, <2>2
  <2>3. Holder(t)' /\ Holder(t) /\ Claim(t)' = Claim(t) /\ ChunkEnd(t)' = ChunkEnd(t)
    BY <1>3, <1>11, <2>1, <2>2 DEF Holder, Held, Claim, ChunkEnd
  <2>4. Ran' = Ran /\ Credited' = Credited
    <3> DEFINE Elsewhere(i) == \A u \in Threads : u # t /\ Holder(u) => i \notin Claim(u)
               Running(i) == \A u \in Threads : u # t /\ Holder(u) /\ pc[u] # "credit" => i \notin Claim(u)
    <3>1. /\ Ran' = {i \in 0..req.n-1 : i < J.next /\ (Holder(t)' /\ pc'[t] # "credit" => i \notin Claim(t)') /\ Running(i)}
          /\ Ran = {i \in 0..req.n-1 : i < J.next /\ (Holder(t) /\ pc[t] # "credit" => i \notin Claim(t)) /\ Running(i)}
          /\ Credited' = {i \in 0..req.n-1 : i < J.next /\ (Holder(t)' => i \notin Claim(t)') /\ Elsewhere(i)}
          /\ Credited = {i \in 0..req.n-1 : i < J.next /\ (Holder(t) => i \notin Claim(t)) /\ Elsewhere(i)}
      BY <1>11, <2>0, <2>1
    <3> HIDE DEF Elsewhere, Running
    <3> QED BY <2>1, <2>3, <3>1
  <2>5. Holding(t)' /\ \A u \in Threads : u # t /\ Holder(u) => Apart(t, u)'
    BY <1>5, <1>6, <1>7, <2>1, <2>2, <2>3 DEF Shared, Holding, Apart
  <2>6. chunk'[t].hi >= 0
    BY <1>5, <2>1 DEF ChunkEnd, Least
  <2> QED BY <1>6, <1>9, <2>0, <2>1, <2>2, <2>4, <2>5, <2>6 DEF Shared, InChunks
<1>14. ASSUME Run(t) \/ Credit(t)
       PROVE  /\ Holder(t) /\ Holding(t) /\ Items(t) = Claim(t) /\ chunk[t].hi > chunk[t].lo
              /\ Claim(t) = chunk[t].lo .. chunk[t].hi - 1
              /\ \A i \in Claim(t) : i \in 0..req.n-1 /\ i < J.next
              /\ \A u \in Threads : u # t /\ Holder(u) => \A i \in Claim(t) : i \notin Claim(u)
  <2>1. Holder(t) /\ Holding(t) /\ pc[t] # "call"
    BY <1>3, <1>6, <1>14 DEF Run, Credit, Holder, Held, Shared
  <2>2. /\ chunk[t].hi = ChunkEnd(t) /\ chunk[t].hi > chunk[t].lo /\ chunk[t].hi <= req.n
        /\ chunk[t].hi <= chunk[t].lo + J.grain /\ chunk[t].lo + J.grain <= J.next
    BY <1>5, <2>1 DEF Holding, ChunkEnd, Least
  <2>3. Items(t) = Claim(t) /\ Claim(t) = chunk[t].lo .. chunk[t].hi - 1
    BY <2>2 DEF Items, Claim
  <2>4. \A i \in Claim(t) : i \in 0..req.n-1 /\ i < J.next
    BY <1>5, <2>2, <2>3
  <2>5. ASSUME NEW u \in Threads, u # t, Holder(u), NEW i \in Claim(t) PROVE i \notin Claim(u)
    <3>1. Apart(t, u) /\ ChunkEnd(u) <= chunk[u].lo + J.grain
      BY <1>5, <1>6, <2>1, <2>5 DEF Shared, ChunkEnd, Least
    <3> QED BY <1>5, <2>2, <2>3, <2>5, <3>1, SMTT(40) DEF Apart, Claim
  <2> QED BY <2>1, <2>2, <2>3, <2>4, <2>5
<1>15. CASE Run(t)
  <2>1. /\ jobs' = jobs /\ chunk' = chunk /\ pc[t] = "run" /\ pc'[t] = "credit"
        /\ hits' = [i \in DOMAIN hits \cup Items(t) |->
                      (IF i \in DOMAIN hits THEN hits[i] ELSE 0) + (IF i \in Items(t) THEN 1 ELSE 0)]
    BY <1>1, <1>15 DEF Run, Types
  <2>2. J' = J /\ jobs' = [jobs EXCEPT ![Slot(t)] = J']
    BY <1>1, <1>3, <1>4, <1>8, <2>1 DEF Types, J, Job
  <2>0. /\ J'.total = J.total /\ J'.grain = J.grain /\ J'.ctx = J.ctx /\ J'.next = J.next /\ J'.done = J.done
        /\ J'.next \in Nat /\ J'.next >= J.next /\ J'.done \in Int /\ J'.done >= J.done
    BY <1>5, <2>2
  <2>3. DOMAIN hits = 0..req.n-1 /\ DOMAIN hits \cup Items(t) = 0..req.n-1
    BY <1>6, <1>14, <1>15
  <2>4. /\ hits' \in [0..req.n-1 -> Nat]
        /\ \A i \in 0..req.n-1 : hits'[i] = hits[i] + (IF i \in Claim(t) THEN 1 ELSE 0)
    BY <1>6, <1>14, <1>15, <2>1, <2>3
  <2>5. Holder(t)' /\ Claim(t)' = Claim(t) /\ ChunkEnd(t)' = ChunkEnd(t)
    BY <1>3, <1>11, <2>1, <2>2 DEF Holder, Held, Claim, ChunkEnd
  <2>6. Credited' = Credited
    BY <1>11, <1>14, <1>15, <2>1, <2>2, <2>5, ZenonT(40)
  <2>7. \A i \in 0..req.n-1 : i \in Ran' <=> i \in Ran \/ i \in Claim(t)
    BY <1>11, <1>14, <1>15, <2>1, <2>2, <2>5
  <2>8. \A i \in Claim(t) : i \notin Ran
    BY <1>14, <1>15, <2>1 DEF Ran
  <2>9. \A i \in 0..req.n-1 : hits'[i] = IF i \in Ran' THEN 1 ELSE 0
    BY <1>6, <2>4, <2>7, <2>8 DEF Shared
  <2>10. Holding(t)' /\ \A u \in Threads : u # t /\ Holder(u) => Apart(t, u)'
    BY <1>6, <1>7, <1>14, <1>15, <2>1, <2>2, <2>5 DEF Shared, Holding, Apart
  <2> QED BY <1>6, <1>9, <2>0, <2>1, <2>2, <2>4, <2>6, <2>9, <2>10 DEF Shared, InChunks
<1>16. CASE Credit(t)
  <2>1. /\ jobs' = [jobs EXCEPT ![Slot(t)] = [J EXCEPT !.done = @ + (chunk[t].hi - chunk[t].lo)]]
        /\ pc[t] = "credit" /\ pc'[t] = "take" /\ hits' = hits /\ chunk' = chunk
    BY <1>1, <1>4, <1>16 DEF Credit, Types
  <2>2. J' = [J EXCEPT !.done = @ + (chunk[t].hi - chunk[t].lo)]
    BY <1>1, <1>4, <1>8, <2>1 DEF Types
  <2>3. /\ J'.total = J.total /\ J'.grain = J.grain /\ J'.ctx = J.ctx /\ J'.next = J.next
        /\ J'.done = J.done + (chunk[t].hi - chunk[t].lo)
    BY <1>4, <2>2 DEF IntJobType
  <2>4. J'.done \in Int /\ J'.done >= J.done
    BY <1>5, <1>14, <1>16, <2>3
  <2>5. ~Holder(t)'
    BY <2>1 DEF Holder, Held
  <2>6. Ran' = Ran
    BY <1>11, <1>14, <1>16, <2>1, <2>3, <2>5
  <2>7. Credited' = Credited \cup Claim(t) /\ Credited \cap Claim(t) = {}
    BY <1>11, <1>14, <1>16, <2>1, <2>3, <2>5
  <2>8. IsFiniteSet(Claim(t)) /\ Cardinality(Claim(t)) = chunk[t].hi - chunk[t].lo
    <3>1. chunk[t].lo \in Int /\ chunk[t].hi \in Int /\ chunk[t].lo <= chunk[t].hi
      BY <1>5, <1>14, <1>16
    <3> QED BY <1>14, <1>16, <3>1, RangeSize
  <2>9. Cardinality(Credited') = Cardinality(Credited) + (chunk[t].hi - chunk[t].lo)
    <3>1. IsFiniteSet(Credited) /\ Cardinality(Credited) \in Nat
      BY <1>3, ItemsFinite
    <3>2. Cardinality(Credited \cup Claim(t)) = Cardinality(Credited) + Cardinality(Claim(t)) - Cardinality({})
      BY <2>7, <2>8, <3>1, FS_Union
    <3>3. Cardinality({}) = 0
      BY FS_EmptySet
    <3> QED BY <1>5, <2>7, <2>8, <3>1, <3>2, <3>3
  <2> QED BY <1>5, <1>6, <1>9, <2>1, <2>2, <2>3, <2>4, <2>5, <2>6, <2>9 DEF Shared, InChunks
<1> QED BY <1>10, <1>12, <1>13, <1>15, <1>16 DEF RunChunks

-----------------------------------------------------------------------------
(* The caller, and the workers outside run_chunks                          *)

\* What the caller changes in its slot while it fills it.
LEMMA FillingStep ==
  ASSUME WorkInv, Fill \/ Reset \/ Mark
  PROVE  Work'
<1> USE DEF Go, KeepWork, KeepPark, KeepGens, Write, Refill
<1>1. Types /\ Caller \in Threads /\ Caller \notin Workers /\ Workers \subseteq Threads
  BY PoolAssumption DEF WorkInv, SlotInv, PoolAssumption, Threads
<1>2. \A t \in Threads : Slot(t) \in 0..1 /\ Slot(t)' = Slot(t) /\ Job(t) \in IntJobType
  BY <1>1, SlotType DEF Slot, Fill, Reset, Mark
<1>3. /\ pc[Caller] \in {"fill", "reset", "mark"}
      /\ pc'[Caller] = CASE Fill -> "reset" [] Reset -> "mark" [] OTHER -> "publish"
      /\ call' = call /\ req' = req /\ hits' = hits /\ chunk' = chunk
      /\ \A w \in Workers : pc'[w] = pc[w]
      /\ Fill <=> pc[Caller] = "fill"
      /\ Reset <=> pc[Caller] = "reset"
  BY <1>1 DEF Fill, Reset, Mark, Types
<1>4. /\ J'.total = (IF pc[Caller] = "fill" THEN req.n ELSE J.total)
      /\ J'.ctx = (IF pc[Caller] = "fill" THEN call ELSE J.ctx)
      /\ J'.next = (IF pc[Caller] = "reset" THEN 0 ELSE J.next)
      /\ J'.done = (IF pc[Caller] = "reset" THEN 0 ELSE J.done)
      /\ \A s \in 0..1 : s # Slot(Caller) => jobs'[s] = jobs[s]
  <2>1. ASSUME NEW k, jobs' = [jobs EXCEPT ![Slot(Caller)] = k]
        PROVE  J' = k /\ \A s \in 0..1 : s # Slot(Caller) => jobs'[s] = jobs[s]
    BY <1>1, <1>2, <2>1 DEF Types, J, Job
  <2>2. CASE Fill
    <3> DEFINE k == [Job(Caller) EXCEPT !.ctx = call, !.total = req.n,
                       !.grain = IF req.grain > 1 THEN req.grain ELSE 1]
    <3>1. jobs' = [jobs EXCEPT ![Slot(Caller)] = k] /\ pc[Caller] = "fill"
      BY <2>2 DEF Fill
    <3>2. k.ctx = call /\ k.total = req.n /\ k.next = J.next /\ k.done = J.done
      BY <1>1, <1>2 DEF IntJobType, J
    <3> HIDE DEF k
    <3> QED BY <2>1, <3>1, <3>2
  <2>3. CASE Reset
    <3> DEFINE k == [Job(Caller) EXCEPT !.next = 0, !.done = 0]
    <3>1. jobs' = [jobs EXCEPT ![Slot(Caller)] = k] /\ pc[Caller] = "reset"
      BY <2>3 DEF Reset
    <3>2. k.ctx = J.ctx /\ k.total = J.total /\ k.next = 0 /\ k.done = 0
      BY <1>1, <1>2 DEF IntJobType, J
    <3> HIDE DEF k
    <3> QED BY <2>1, <3>1, <3>2
  <2>4. CASE Mark
    <3> DEFINE k == [Job(Caller) EXCEPT !.gen = g[Caller]]
    <3>1. jobs' = [jobs EXCEPT ![Slot(Caller)] = k] /\ pc[Caller] = "mark"
      BY <2>4 DEF Mark
    <3>2. k.ctx = J.ctx /\ k.total = J.total /\ k.next = J.next /\ k.done = J.done
      BY <1>1, <1>2 DEF IntJobType, J
    <3> HIDE DEF k
    <3> QED BY <2>1, <3>1, <3>2
  <2> QED BY <2>2, <2>3, <2>4
<1>5. \A w \in Workers : pc[w] \in InChunks => Slot(w) # Slot(Caller)
  BY <1>3, SlotInvExclusive DEF WorkInv, SlotExclusive
<1>6. pc[Caller] \in Before /\ pc'[Caller] \in Begun /\ pc'[Caller] \notin Over /\ req.n > 0
  BY <1>3 DEF Before, Begun, Live, Over, InDtor, WorkInv, Work, Filled
<1>7. \A s : Current(s)' <=> s = Slot(Caller)
  BY <1>1, <1>2, <1>6 DEF Current
<1>8. Spent'
  <2>1. \A s \in 0..1 : Current(s)' \/ jobs'[s].next >= jobs'[s].total
    BY <1>4, <1>7 DEF WorkInv, Work, Spent, Current
  <2>2. ASSUME NEW w \in Workers, pc'[w] \in InChunks
        PROVE  pc'[w] = "take" \/ (pc'[w] = "call" /\ chunk'[w].lo >= Job(w)'.total)
    <3>1. pc[w] \in InChunks /\ ~Current(Slot(w)) /\ Job(w)' = Job(w)
      BY <1>1, <1>2, <1>3, <1>4, <1>5, <2>2 DEF Current, Job
    <3> QED BY <1>3, <3>1 DEF WorkInv, Work, Spent
  <2> QED BY <2>1, <2>2 DEF Spent
<1>9. Filled'
  BY <1>3, <1>4, <1>6 DEF WorkInv, Work, Filled, Begun
<1>10. NonNegative'
  <2>1. jobs[Slot(Caller)] = J /\ jobs'[Slot(Caller)] = J' /\ Slot(Caller) \in 0..1
    BY <1>1, <1>2 DEF J, Job
  <2>2. \A s \in 0..1 : jobs'[s].total >= 0 /\ jobs'[s].done >= 0
    BY <1>1, <1>4, <1>6, <2>1 DEF WorkInv, Work, NonNegative, Types
  <2> QED BY <1>3, <2>2 DEF WorkInv, Work, NonNegative, Threads
<1>11. ASSUME pc'[Caller] \in Live PROVE Shared'
  <2>1. pc[Caller] = "mark" /\ J'.next = 0 /\ J'.done = 0 /\ \A i \in 0..req.n-1 : hits[i] = 0
    BY <1>3, <1>4, <1>6, <1>11 DEF Live, WorkInv, Work, Filled, InChunks
  <2>2. \A t \in Threads : ~Holder(t)'
    BY <1>2, <1>3, <1>5, <1>11 DEF Holder, Held, Threads, InChunks
  <2>3. Ran' = {} /\ Credited' = {}
    BY <2>1 DEF Ran, Credited
  <2> QED BY <1>3, <2>1, <2>2, <2>3, FS_EmptySet DEF Shared, Threads
<1>12. CompleteOnReturn'
  BY <1>6 DEF CompleteOnReturn, Over
<1> QED BY <1>8, <1>9, <1>10, <1>11, <1>12 DEF Work

\* The call returns: done counts all items, so no thread holds any, and each has been run.
LEMMA AwaitStep ==
  ASSUME WorkInv, Await
  PROVE  Work'
<1> USE DEF Go, KeepWork, KeepPark, KeepGens, Move
<1>1. Types /\ Caller \in Threads /\ Caller \notin Workers /\ Workers \subseteq Threads
  BY PoolAssumption DEF WorkInv, SlotInv, PoolAssumption, Threads
<1>2. /\ J.done >= req.n /\ pc[Caller] = "await" /\ pc'[Caller] = "idle" /\ \A w \in Workers : pc'[w] = pc[w]
      /\ jobs' = jobs /\ chunk' = chunk /\ call' = call /\ req' = req /\ hits' = hits /\ g' = g
  BY <1>1 DEF Await, Types, J
<1>3. pc[Caller] \in Live /\ Shared
  BY <1>2 DEF Live, WorkInv, Work
<1>4. /\ J.next \in Nat /\ J.total = req.n /\ J.grain \in Nat \ {0} /\ req.n \in Int /\ req.n > 0
      /\ \A u \in Threads : chunk[u].lo \in Nat /\ ChunkEnd(u) \in Int
  BY <1>3, JobFacts
<1>5. Credited = 0..req.n-1
  <2>1. IsFiniteSet(0..req.n-1) /\ Cardinality(0..req.n-1) = req.n
    BY <1>4, RangeSize
  <2>2. Credited \in SUBSET (0..req.n-1) /\ Cardinality(Credited) \in Nat
    BY <1>3, ItemsFinite DEF Credited
  <2>3. Cardinality(Credited) >= req.n
    BY <1>2, <1>3 DEF Shared
  <2>4. Cardinality(Credited) <= Cardinality(0..req.n-1) /\ (Cardinality(0..req.n-1) = Cardinality(Credited) => 0..req.n-1 = Credited)
    BY <2>1, <2>2, FS_Subset
  <2> QED BY <1>4, <2>1, <2>2, <2>3, <2>4
<1>6. \A i \in 0..req.n-1 : i < J.next /\ \A t \in Threads : Holder(t) => i \notin Claim(t)
  BY <1>5 DEF Credited
<1>7. J.next >= J.total
  <2>1. req.n - 1 \in 0..req.n-1
    BY <1>4
  <2>2. req.n - 1 < J.next
    BY <1>6, <2>1
  <2> QED BY <1>4, <2>2
<1>8. ASSUME NEW t \in Threads, Holder(t) PROVE pc[t] = "call" /\ chunk[t].lo >= J.total
  <2>1. SUFFICES ASSUME chunk[t].lo < J.total PROVE FALSE
    BY <1>3, <1>8, <1>4 DEF Shared, Holding, Held, Holder
  <2>2. chunk[t].lo \in Claim(t) /\ chunk[t].lo \in 0..req.n-1
    BY <1>4, <2>1 DEF Claim, ChunkEnd, Least
  <2> QED BY <1>6, <1>8, <2>2
<1>9. Spent'
  <2>1. Slot(Caller) \in 0..1 /\ \A s : ~Current(s)' /\ (Current(s) <=> s = Slot(Caller))
    BY <1>1, <1>2, <1>3, SlotType DEF Current, Begun, Live, InChunks
  <2>2. \A s \in 0..1 : jobs'[s].next >= jobs'[s].total
    BY <1>2, <1>7, <2>1 DEF WorkInv, Work, Spent, J, Job
  <2>3. ASSUME NEW w \in Workers, pc[w] \in InChunks
        PROVE  pc[w] = "take" \/ (pc[w] = "call" /\ chunk[w].lo >= Job(w).total)
    <3>1. CASE Slot(w) = Slot(Caller)
      BY <1>1, <1>8, <2>3, <3>1 DEF Holder, Held, InChunks, J, Job
    <3>2. CASE Slot(w) # Slot(Caller)
      BY <2>1, <2>3, <3>2 DEF WorkInv, Work, Spent
    <3> QED BY <3>1, <3>2
  <2> QED BY <1>2, <2>2, <2>3 DEF Spent, Job, Slot
<1>10. Filled' /\ pc'[Caller] \notin Live
  BY <1>2 DEF Filled, Over, Begun, Live, Before, InChunks
<1>11. NonNegative'
  BY <1>2 DEF WorkInv, Work, NonNegative, Threads
<1>12. CompleteOnReturn'
  <2>1. \A i \in 0..req.n-1 : i \in Ran
    BY <1>6 DEF Ran
  <2> QED BY <1>2, <1>3, <2>1 DEF CompleteOnReturn, Shared
<1> QED BY <1>9, <1>10, <1>11, <1>12 DEF Work

\* A call begins: its items have not been run, except when there are none, or one thread runs them all.
LEMMA BeginStep ==
  ASSUME WorkInv, (\E r \in Requests : ParallelFor(r[1], r[2])) \/ Inline
  PROVE  Work'
<1> USE DEF Go, KeepWork, KeepPark, KeepGens
<1>1. Types /\ Caller \in Threads /\ Caller \notin Workers /\ Workers \subseteq Threads
  BY PoolAssumption DEF WorkInv, SlotInv, PoolAssumption, Threads
<1>2. /\ jobs' = jobs /\ chunk' = chunk /\ pc[Caller] \in {"idle", "inline"}
      /\ pc'[Caller] \in {"idle", "inline", "retire"}
      /\ \A w \in Workers : pc'[w] = pc[w] /\ g'[w] = g[w]
  BY <1>1 DEF ParallelFor, Inline, Types
<1>3. \A s : ~Current(s) /\ ~Current(s)'
  BY <1>2 DEF Current, Begun, Live, InChunks
<1>4. Spent'
  BY <1>2, <1>3 DEF WorkInv, Work, Spent, Job, Slot
<1>5. pc'[Caller] \notin Begun /\ pc'[Caller] \notin Live
  BY <1>2 DEF Begun, Live, InChunks
<1>6. ASSUME NEW r \in Requests, ParallelFor(r[1], r[2]) PROVE Filled' /\ NonNegative' /\ CompleteOnReturn'
  <2>1. /\ r[1] \in Int /\ req'.n = r[1] /\ hits' = [i \in 0..r[1]-1 |-> 0]
        /\ pc'[Caller] \in {"inline", "retire"} <=> r[1] > 0
    BY <1>1, <1>6, PoolAssumption DEF PoolAssumption, ParallelFor, Types
  <2>2. Filled'
    BY <1>2, <1>5, <2>1 DEF Filled, Over, Begun
  <2>3. NonNegative'
    BY <1>2, <2>1 DEF WorkInv, Work, NonNegative, Threads
  <2>4. CompleteOnReturn'
    <3>1. CASE r[1] > 0
      BY <1>2, <2>1, <3>1 DEF CompleteOnReturn, InDtor
    <3>2. CASE ~(r[1] > 0)
      BY <2>1, <3>2 DEF CompleteOnReturn
    <3> QED BY <3>1, <3>2
  <2> QED BY <2>2, <2>3, <2>4
<1>7. CASE Inline
  <2>1. /\ pc[Caller] = "inline" /\ pc'[Caller] = "idle" /\ req' = req /\ call' = call
        /\ hits' = [i \in DOMAIN hits |-> hits[i] + 1]
    BY <1>1, <1>7 DEF Inline, Types
  <2>2. hits \in [0..req.n-1 -> Nat] /\ \A i \in 0..req.n-1 : hits[i] = 0
    BY <2>1 DEF WorkInv, Work, NonNegative, Filled, Before
  <2>3. hits' \in [0..req.n-1 -> Nat] /\ \A i \in 0..req.n-1 : hits'[i] = 1
    BY <2>1, <2>2
  <2>4. Filled'
    BY <2>1 DEF Filled, Over, Begun, Live, Before, InChunks
  <2>5. NonNegative' /\ CompleteOnReturn'
    BY <1>2, <2>1, <2>3 DEF WorkInv, Work, NonNegative, CompleteOnReturn, Threads
  <2> QED BY <1>4, <1>5, <2>4, <2>5 DEF Work
<1> QED BY <1>4, <1>5, <1>6, <1>7 DEF Work

\* Every step of the caller and of the workers keeps the invariant.
LEMMA WorkNext == WorkInv /\ [Next]_vars => WorkInv'
<1> SUFFICES ASSUME WorkInv, [Next]_vars PROVE Work'
  BY SlotInvNext DEF WorkInv
<1> USE DEF Go, KeepWork, KeepPark, KeepGens, Move, Write, Refill
<1>1. Types /\ Caller \in Threads /\ Caller \notin Workers /\ Workers \subseteq Threads
  BY PoolAssumption DEF WorkInv, SlotInv, PoolAssumption, Threads
\* A step of t that is none of run_chunks, and for the caller does not change the stage of the call.
<1>2. ASSUME NEW t \in Threads, call' = call, req' = req, hits' = hits, chunk' = chunk,
             \A s \in 0..1 : /\ jobs'[s].next = jobs[s].next /\ jobs'[s].done = jobs[s].done
                             /\ jobs'[s].total = jobs[s].total /\ jobs'[s].grain = jobs[s].grain
                             /\ jobs'[s].ctx = jobs[s].ctx,
             \A u \in Threads : u # t => pc'[u] = pc[u] /\ g'[u] = g[u],
             pc[t] \notin InChunks, pc'[t] \notin Held, pc'[t] = "take" => g'[t] = g[t],
             t = Caller => /\ g'[t] = g[t]
                           /\ \/ pc[t] \in Over /\ pc'[t] \in Over
                              \/ pc[t] \in {"retire", "drain"} /\ pc'[t] \in {"drain", "fill"}
                              \/ pc[t] \in {"publish", "peek", "notify"} /\ pc'[t] \in {"peek", "notify", "take"}
      PROVE  Work'
  <2>1. \A u \in Threads : /\ pc[u] \in Held \/ pc'[u] \in Held => pc'[u] = pc[u]
                           /\ pc[u] \in InChunks \/ pc'[u] \in InChunks => g'[u] = g[u]
    BY <1>2 DEF Held, InChunks
  <2>2. /\ g'[Caller] = g[Caller]
        /\ pc'[Caller] \in Over <=> pc[Caller] \in Over
        /\ pc'[Caller] \in Live <=> pc[Caller] \in Live
        /\ pc'[Caller] \in Before <=> pc[Caller] \in Before
        /\ pc'[Caller] \in Begun <=> pc[Caller] \in Begun
        /\ pc'[Caller] = "mark" <=> pc[Caller] = "mark"
    BY <1>1, <1>2 DEF Over, Live, Before, Begun, InDtor, InChunks
  <2> QED BY <1>2, <2>1, <2>2, WorkFrame
<1>3. ASSUME NEW t \in Threads, RunChunks(t) PROVE Work'
  BY <1>3, StragglerStep, TeamStep
<1>4. CASE (\E r \in Requests : ParallelFor(r[1], r[2])) \/ Inline
  BY <1>4, BeginStep
<1>5. CASE Fill \/ Reset \/ Mark
  BY <1>5, FillingStep
<1>6. CASE Await
  BY <1>6, AwaitStep
\* A step that writes gen or refs only.
<1>7. ASSUME NEW t \in Threads, NEW k, jobs' = [jobs EXCEPT ![Slot(t)] = k],
             k.next = Job(t).next, k.done = Job(t).done, k.total = Job(t).total, k.grain = Job(t).grain,
             k.ctx = Job(t).ctx
      PROVE  \A s \in 0..1 : /\ jobs'[s].next = jobs[s].next /\ jobs'[s].done = jobs[s].done
                             /\ jobs'[s].total = jobs[s].total /\ jobs'[s].grain = jobs[s].grain
                             /\ jobs'[s].ctx = jobs[s].ctx
  BY <1>1, <1>7, SlotType DEF Types, Job
<1>8. CASE Retire
  <2> DEFINE k == [Job(Caller) EXCEPT !.gen = kInvalid]
  <2>1. k.next = J.next /\ k.done = J.done /\ k.total = J.total /\ k.grain = J.grain /\ k.ctx = J.ctx
    BY <1>1, SlotType DEF IntJobType, J
  <2>2. /\ jobs' = [jobs EXCEPT ![Slot(Caller)] = k] /\ pc[Caller] = "retire" /\ pc'[Caller] = "drain"
        /\ call' = call /\ req' = req /\ hits' = hits /\ chunk' = chunk /\ g' = g
        /\ \A u \in Threads : u # Caller => pc'[u] = pc[u]
    BY <1>1, <1>8 DEF Retire, Types
  <2> HIDE DEF k
  <2>3. \A s \in 0..1 : /\ jobs'[s].next = jobs[s].next /\ jobs'[s].done = jobs[s].done
                        /\ jobs'[s].total = jobs[s].total /\ jobs'[s].grain = jobs[s].grain
                        /\ jobs'[s].ctx = jobs[s].ctx
    BY <1>1, <1>7, <2>1, <2>2 DEF J
  <2> QED BY <1>1, <1>2, <2>2, <2>3 DEF Held, InChunks
<1>9. CASE Drain \/ Publish \/ Peek \/ Notify
  <2>1. /\ jobs' = jobs /\ call' = call /\ req' = req /\ hits' = hits /\ chunk' = chunk /\ g' = g
        /\ \A u \in Threads : u # Caller => pc'[u] = pc[u]
        /\ \/ pc[Caller] = "drain" /\ pc'[Caller] = "fill"
           \/ pc[Caller] \in {"publish", "peek", "notify"} /\ pc'[Caller] \in {"peek", "notify", "take"}
    BY <1>1, <1>9 DEF Drain, Publish, Peek, Notify, Types
  <2> QED BY <1>1, <1>2, <2>1 DEF Held, InChunks
<1>10. CASE DtorLock \/ DtorStop \/ DtorGen \/ DtorNotify \/ DtorJoin
  <2>1. /\ jobs' = jobs /\ call' = call /\ req' = req /\ hits' = hits /\ chunk' = chunk /\ g' = g
        /\ \A u \in Threads : u # Caller => pc'[u] = pc[u]
        /\ pc[Caller] \in Over /\ pc'[Caller] \in Over
    BY <1>1, <1>10 DEF DtorLock, DtorStop, DtorGen, DtorNotify, DtorJoin, Types, Over, InDtor
  <2> QED BY <1>1, <1>2, <2>1 DEF Held, InChunks, Over, InDtor
<1>11. ASSUME NEW w \in Workers, WorkerStep(w) PROVE Work'
  <2>1. CASE SpinExit(w) \/ Recheck(w) \/ StopCheck(w) \/ Load(w) \/ Match(w) \/ Park(w)
    <3>1. /\ jobs' = jobs /\ call' = call /\ req' = req /\ hits' = hits /\ chunk' = chunk
          /\ \A u \in Threads : u # w => pc'[u] = pc[u] /\ g'[u] = g[u]
          /\ pc[w] \notin InChunks /\ pc'[w] \notin Held /\ (pc'[w] = "take" => g'[w] = g[w])
      BY <1>1, <2>1 DEF SpinExit, Recheck, StopCheck, Load, Match, Park, Lock, AddSleeper, PredGen, PredStop,
         Relock, DropSleeper, Unlock, Acquire, Count, Types, Held, InChunks
    <3> QED BY <1>1, <1>2, <3>1
  <2>2. CASE Join(w) \/ Leave(w)
    <3>1. /\ call' = call /\ req' = req /\ hits' = hits /\ chunk' = chunk /\ g' = g
          /\ \A u \in Threads : u # w => pc'[u] = pc[u]
          /\ pc[w] \notin InChunks /\ pc'[w] \notin InChunks
      BY <1>1, <2>2 DEF Join, Leave, Types, InChunks
    <3>2. \E k : /\ jobs' = [jobs EXCEPT ![Slot(w)] = k]
                 /\ k.next = Job(w).next /\ k.done = Job(w).done /\ k.total = Job(w).total
                 /\ k.grain = Job(w).grain /\ k.ctx = Job(w).ctx
      <4> Job(w) \in IntJobType
        BY <1>1, SlotType
      <4> DEFINE k1 == [Job(w) EXCEPT !.refs = @ + 1]
                 k2 == [Job(w) EXCEPT !.refs = @ - 1]
      <4>1. CASE Join(w)
        <5>1. jobs' = [jobs EXCEPT ![Slot(w)] = k1]
          BY <4>1 DEF Join
        <5>2. /\ k1.next = Job(w).next /\ k1.done = Job(w).done /\ k1.total = Job(w).total
              /\ k1.grain = Job(w).grain /\ k1.ctx = Job(w).ctx
          BY DEF IntJobType
        <5> HIDE DEF k1
        <5> QED BY <5>1, <5>2
      <4>2. CASE Leave(w)
        <5>1. jobs' = [jobs EXCEPT ![Slot(w)] = k2]
          BY <4>2 DEF Leave
        <5>2. /\ k2.next = Job(w).next /\ k2.done = Job(w).done /\ k2.total = Job(w).total
              /\ k2.grain = Job(w).grain /\ k2.ctx = Job(w).ctx
          BY DEF IntJobType
        <5> HIDE DEF k2
        <5> QED BY <5>1, <5>2
      <4> QED BY <2>2, <4>1, <4>2
    <3>3. \A s \in 0..1 : /\ jobs'[s].next = jobs[s].next /\ jobs'[s].done = jobs[s].done
                          /\ jobs'[s].total = jobs[s].total /\ jobs'[s].grain = jobs[s].grain
                          /\ jobs'[s].ctx = jobs[s].ctx
      BY <1>1, <1>7, <3>2
    <3> QED BY <1>1, <1>2, <3>1, <3>3 DEF Held, InChunks
  <2> QED BY <1>1, <1>3, <1>11, <2>1, <2>2 DEF WorkerStep
<1>12. CASE (\E w \in Workers : Spurious(w)) \/ UNCHANGED vars
  BY <1>12, WorkFrame DEF Spurious, vars
<1> QED BY <1>1, <1>3, <1>4, <1>5, <1>6, <1>8, <1>9, <1>10, <1>11, <1>12
     DEF Next, Terminated, CallerStep, Dispatch

\* The invariant of every behaviour.
LEMMA AlwaysWorkInv == Spec => []WorkInv
<1>1. Init => WorkInv
  BY SlotInvInit, WorkInit DEF WorkInv
<1> QED BY <1>1, WorkNext, PTL DEF Spec
-----------------------------------------------------------------------------
(* What follows                                                            *)

\* A thread that is about to run a chunk, is running one or has run it holds it of the current job.
LEMMA RunnersHold ==
  ASSUME WorkInv, NEW t \in Threads, pc[t] \in {"run", "credit"}
  PROVE  /\ pc[Caller] \in Live /\ Slot(t) = Slot(Caller) /\ g[t] = g[Caller]
         /\ Holder(t) /\ Holding(t) /\ Items(t) = Claim(t)
<1>1. Types /\ Caller \in Threads /\ Caller \notin Workers /\ Workers \subseteq Threads
  BY PoolAssumption DEF WorkInv, SlotInv, PoolAssumption, Threads
<1>2. pc[t] \in InChunks
  BY DEF InChunks
<1>3. Current(Slot(t))
  <2>1. CASE t = Caller
    BY <2>1 DEF Current, Begun, Live, InChunks
  <2>2. CASE t \in Workers
    BY <1>2, <2>2 DEF WorkInv, Work, Spent
  <2> QED BY <2>1, <2>2 DEF Threads
<1>4. Slot(t) = Slot(Caller) /\ pc[Caller] \in Live
  <2>1. CASE t = Caller
    BY <1>2, <2>1 DEF Live, InChunks
  <2>2. CASE t \in Workers
    BY <1>2, <1>3, <2>2, SlotInvExclusive DEF SlotExclusive, WorkInv, Current, Begun
  <2> QED BY <2>1, <2>2 DEF Threads
<1>5. g[t] = g[Caller]
  BY <1>1, <1>2, <1>4 DEF WorkInv, SlotInv, Marks, Live, InChunks, Job, Threads
<1>6. Holder(t) /\ Holding(t) /\ pc[t] # "call"
  BY <1>4 DEF Holder, Held, WorkInv, Work, Shared
<1>7. Items(t) = Claim(t)
  BY <1>6 DEF Holding, Items, Claim
<1> QED BY <1>4, <1>5, <1>6, <1>7

\* NoStrayTask for every number of workers and every sequence of calls.
THEOREM TasksStayInTheirCall == Spec => []NoStrayTask
<1>1. WorkInv => NoStrayTask
  <2> SUFFICES ASSUME WorkInv, NEW t \in Threads, pc[t] \in {"run", "credit"}
               PROVE  pc[Caller] \in InCall /\ g[t] = g[Caller] /\ chunk[t].ctx = call
    BY DEF NoStrayTask
  <2> QED BY RunnersHold DEF Holding, Live, InCall, InChunks
<1> QED BY <1>1, AlwaysWorkInv, PTL

\* OneOwner for every number of workers and every sequence of calls: fetch_add hands out disjoint chunks.
THEOREM ItemsHaveOneOwner == Spec => []OneOwner
<1>1. WorkInv => OneOwner
  <2> SUFFICES ASSUME WorkInv PROVE OneOwner
    OBVIOUS
  <2>1. ASSUME NEW t \in Threads, pc[t] = "run", NEW i \in Items(t) PROVE i \in 0..req.n-1 /\ hits[i] = 0
    <3>1. pc[Caller] \in Live /\ Holder(t) /\ Holding(t) /\ Items(t) = Claim(t)
      BY <2>1, RunnersHold
    <3>2. /\ J.total = req.n /\ req.n \in Int /\ J.grain \in Nat \ {0}
          /\ chunk[t].lo \in Nat /\ ChunkEnd(t) \in Int
      BY <3>1, JobFacts
    <3>3. i \in 0..req.n-1 /\ i \notin Ran
      BY <2>1, <3>1, <3>2 DEF Claim, ChunkEnd, Least, Ran
    <3> QED BY <3>1, <3>3 DEF WorkInv, Work, Shared
  <2>2. ASSUME NEW t \in Threads, NEW u \in Threads, t # u, pc[t] = "run", pc[u] = "run"
        PROVE  Items(t) \cap Items(u) = {}
    <3>1. /\ pc[Caller] \in Live /\ Holder(t) /\ Items(t) = Claim(t) /\ Holder(u) /\ Items(u) = Claim(u)
      BY <2>2, RunnersHold
    <3>2. /\ J.total \in Int /\ J.grain \in Nat \ {0}
          /\ chunk[t].lo \in Nat /\ chunk[u].lo \in Nat
      BY <3>1, JobFacts
    <3>3. Apart(t, u)
      BY <2>2, <3>1 DEF WorkInv, Work, Shared
    <3> QED BY <3>1, <3>2, <3>3 DEF Apart, Claim, ChunkEnd, Least
  <2> QED BY <2>1, <2>2 DEF OneOwner
<1> QED BY <1>1, AlwaysWorkInv, PTL

\* CompleteOnReturn for every number of workers and every sequence of calls: when done has counted all
\* items, each of them has been run, and once.
THEOREM CallsAreComplete == Spec => []CompleteOnReturn
<1>1. WorkInv => CompleteOnReturn
  BY DEF WorkInv, Work
<1> QED BY <1>1, AlwaysWorkInv, PTL

\* TypeOK for every number of workers and every sequence of calls: refs_ and sleepers_ never go below zero.
THEOREM CountersStayNatural == Spec => []TypeOK
<1>1. WorkInv /\ ParkInv => TypeOK
  <2> SUFFICES ASSUME WorkInv, ParkInv PROVE TypeOK
    OBVIOUS
  <2>1. Types /\ NonNegative
    BY DEF WorkInv, SlotInv, Work
  <2>2. ASSUME NEW s \in 0..1 PROVE jobs[s] \in JobType
    <3>1. jobs[s] \in IntJobType /\ jobs[s].total >= 0 /\ jobs[s].done >= 0
      BY <2>1 DEF Types, NonNegative
    <3>2. jobs[s].refs \in Nat
      BY <2>1, InsideFinite, FS_CardinalityType DEF WorkInv, SlotInv, Refs
    <3> QED BY <3>1, <3>2 DEF IntJobType, JobType
  <2>3. jobs \in [0..1 -> JobType]
    BY <2>1, <2>2 DEF Types
  <2>4. sleepers \in Nat
    <3>1. IsFiniteSet(Counted)
      BY FS_Subset, PoolAssumption DEF PoolAssumption, Counted
    <3> QED BY <3>1, FS_CardinalityType DEF ParkInv, Sleepers
  <2>5. chunk \in [Threads -> [lo : Nat, hi : Nat, ctx : Nat]]
    <3>1. \A t \in Threads : chunk[t] \in [lo : Nat, hi : Nat, ctx : Nat]
      BY <2>1 DEF Types, NonNegative
    <3> QED BY <2>1, <3>1 DEF Types
  <2> QED BY <2>1, <2>3, <2>4, <2>5 DEF TypeOK, Types, NonNegative
<1>2. Spec => []ParkInv
  BY ParkInvInit, ParkInvNext, PTL DEF Spec
<1> QED BY <1>1, <1>2, AlwaysWorkInv, PTL

-----------------------------------------------------------------------------
(* Refinement: the safety part of ImplementsParallelFor.  That calls       *)
(* return is liveness, and is left to TLC.                                 *)

\* Where the caller is, as ParallelFor sees it, before and after a step.
LEMMA Phases ==
  /\ pc[Caller] = "idle" => Phase = "idle"
  /\ pc[Caller] \in InCall \cup {"inline"} => Phase = "busy"
  /\ pc[Caller] \in InDtor => Phase = "closing"
  /\ pc[Caller] = "gone" => Phase = "gone"
  /\ pc'[Caller] = "idle" => Phase' = "idle"
  /\ pc'[Caller] \in InCall \cup {"inline"} => Phase' = "busy"
  /\ pc'[Caller] \in InDtor => Phase' = "closing"
  /\ pc'[Caller] = "gone" => Phase' = "gone"
  BY DEF Phase, InCall, InDtor

\* A step that neither runs a task nor takes the caller out of its phase is one nobody sees.
LEMMA Unseen ==
  ASSUME Types, hits' = hits,
         \/ pc'[Caller] = pc[Caller]
         \/ pc[Caller] \in InCall /\ pc'[Caller] \in InCall
         \/ pc[Caller] \in InDtor /\ pc'[Caller] \in InDtor
  PROVE  UNCHANGED PF!vars
<1>1. pc[Caller] \in InCall \cup {"inline"} \cup InDtor \cup {"idle", "gone"}
  BY DEF Types, CallerPC
<1>2. Phase' = Phase
  BY <1>1, Phases
<1> QED BY <1>2 DEF PF!vars

\* A call is entered.
LEMMA EnterIsBegin ==
  ASSUME Types, NEW r \in Requests, ParallelFor(r[1], r[2])
  PROVE  PF!Next
<1> DEFINE n == r[1]
<1>1. pc[Caller] = "idle" /\ hits' = [i \in 0..n-1 |-> 0] /\ n \in Int
  BY PoolAssumption DEF PoolAssumption, ParallelFor, Go
<1>2. pc'[Caller] = IF n > 0 THEN pc'[Caller] ELSE "idle"
  BY DEF ParallelFor, Go, Types, Threads
<1>3. n > 0 => pc'[Caller] \in {"inline", "retire"}
  BY <1>1 DEF ParallelFor, Go, Types, Threads
<1>4. Phase = "idle" /\ Phase' = IF n > 0 THEN "busy" ELSE "idle"
  BY <1>1, <1>2, <1>3, Phases DEF InCall
<1>5. PF!Begin(n)
  BY <1>1, <1>4 DEF PF!Begin
<1> QED BY <1>5 DEF PF!Next

\* The body of a task is an execution of fn on items it has not run on.
LEMMA RunIsExecute ==
  ASSUME WorkInv, OneOwner, NEW t \in Threads, Run(t)
  PROVE  [PF!Next]_PF!vars
<1>1. pc[t] = "run" /\ pc[Caller] \in Live /\ Items(t) \in SUBSET (0..req.n-1)
  BY RunnersHold DEF Run, Go, OneOwner
<1>2. pc'[Caller] \in InCall /\ pc[Caller] \in InCall
  BY <1>1 DEF Run, Go, WorkInv, SlotInv, Types, Live, InCall, InChunks, Threads
<1>3. Phase = "busy" /\ Phase' = "busy"
  BY <1>2, Phases
<1>4. /\ hits = [i \in DOMAIN hits |-> hits[i]] /\ DOMAIN hits = 0..req.n-1
      /\ \A i \in DOMAIN hits : hits[i] \in Nat
  BY DEF WorkInv, Work, NonNegative
<1>5. \A i \in Items(t) : hits[i] = 0
  BY <1>1 DEF OneOwner
<1>6. hits' = [i \in DOMAIN hits |-> IF i \in Items(t) THEN 1 ELSE hits[i]]
  <2>1. DOMAIN hits \cup Items(t) = DOMAIN hits
    BY <1>1, <1>4
  <2>2. \A i \in DOMAIN hits :
          (IF i \in DOMAIN hits THEN hits[i] ELSE 0) + (IF i \in Items(t) THEN 1 ELSE 0)
            = IF i \in Items(t) THEN 1 ELSE hits[i]
    BY <1>4, <1>5
  <2> QED BY <2>1, <2>2 DEF Run
<1>7. PF!Execute(Items(t))
  BY <1>3, <1>5, <1>6 DEF PF!Execute
<1>8. CASE Items(t) = {}
  BY <1>3, <1>4, <1>6, <1>8 DEF PF!vars
<1>9. CASE Items(t) # {}
  BY <1>1, <1>4, <1>7, <1>9 DEF PF!Next
<1> QED BY <1>8, <1>9

\* Every step of the pool is a step of parallel_for, or one that nobody sees.
LEMMA StepRefines ==
  ASSUME WorkInv, WorkInv', OneOwner, [Next]_vars
  PROVE  [PF!Next]_PF!vars
<1> Types /\ Caller \in Threads /\ Caller \notin Workers /\ Workers \subseteq Threads
  BY PoolAssumption DEF WorkInv, SlotInv, PoolAssumption, Threads
<1> USE DEF Go, KeepWork, KeepPark, KeepGens, Move, Write, Refill
<1>0. /\ hits \in [0..req.n-1 -> Nat] /\ CompleteOnReturn
      /\ CompleteOnReturn'
  BY DEF WorkInv, Work, NonNegative
<1>1. ASSUME NEW t \in Threads, RunChunks(t) PROVE [PF!Next]_PF!vars
  <2>1. CASE Run(t)
    BY <2>1, RunIsExecute
  <2>2. CASE Take(t) \/ Drained(t) \/ Call(t) \/ Credit(t)
    <3>1. hits' = hits /\ (pc'[Caller] = pc[Caller] \/ (pc[Caller] \in InCall /\ pc'[Caller] \in InCall))
      BY <2>2 DEF Take, Drained, Call, Credit, InCall, Types
    <3> QED BY <3>1, Unseen
  <2> QED BY <1>1, <2>1, <2>2 DEF RunChunks
<1>2. CASE Inline
  <2>1. /\ pc[Caller] = "inline" /\ pc'[Caller] = "idle"
        /\ hits' = [i \in DOMAIN hits |-> hits[i] + 1]
    BY <1>2 DEF Inline, Types
  <2>2. \A i \in DOMAIN hits : hits[i] = 0
    BY <1>0, <2>1 DEF WorkInv, Work, Filled, Before
  <2>3. Phase = "busy" /\ Phase' = "idle"
    BY <2>1, Phases
  <2>4. hits' = [i \in DOMAIN hits |-> 1]
    BY <2>1, <2>2
  <2> QED BY <2>2, <2>3, <2>4 DEF PF!Next, PF!RunInline
<1>3. CASE Await
  <2>1. pc[Caller] = "await" /\ pc'[Caller] = "idle" /\ hits' = hits /\ req' = req
    BY <1>3 DEF Await, Types
  <2>2. Phase = "busy" /\ Phase' = "idle"
    BY <2>1, Phases DEF InCall
  <2>3. \A i \in DOMAIN hits : hits[i] = 1
    BY <1>0, <2>1 DEF CompleteOnReturn
  <2> QED BY <2>1, <2>2, <2>3 DEF PF!Next, PF!Return
<1>4. CASE Retire \/ Drain \/ Fill \/ Reset \/ Mark \/ Publish \/ Peek \/ Notify
  <2>1. hits' = hits /\ pc[Caller] \in InCall /\ pc'[Caller] \in InCall
    BY <1>4 DEF Retire, Drain, Fill, Reset, Mark, Publish, Peek, Notify, InCall, Types
  <2> QED BY <2>1, Unseen
<1>5. CASE DtorLock
  <2>1. pc[Caller] = "idle" /\ pc'[Caller] \in InDtor /\ hits' = hits
    BY <1>5 DEF DtorLock, InDtor, Types
  <2>2. Phase = "idle" /\ Phase' = "closing"
    BY <2>1, Phases
  <2> QED BY <2>1, <2>2 DEF PF!Next, PF!Close
<1>6. CASE DtorStop \/ DtorGen \/ DtorNotify
  <2>1. hits' = hits /\ pc[Caller] \in InDtor /\ pc'[Caller] \in InDtor
    BY <1>6 DEF DtorStop, DtorGen, DtorNotify, InDtor, Types
  <2> QED BY <2>1, Unseen
<1>7. CASE DtorJoin
  <2>1. pc[Caller] \in InDtor /\ pc'[Caller] = "gone" /\ hits' = hits
    BY <1>7 DEF DtorJoin, InDtor, Types
  <2>2. Phase = "closing" /\ Phase' = "gone"
    BY <2>1, Phases
  <2> QED BY <2>1, <2>2 DEF PF!Next, PF!Closed
<1>8. ASSUME NEW w \in Workers, (WorkerStep(w) /\ ~RunChunks(w)) \/ Spurious(w) PROVE [PF!Next]_PF!vars
  <2>1. hits' = hits /\ pc'[Caller] = pc[Caller]
    BY <1>8 DEF WorkerStep, Park, Spurious, SpinExit, Recheck, Lock, AddSleeper, PredGen, PredStop, Relock,
       DropSleeper, Unlock, Acquire, Count, StopCheck, Load, Join, Match, Leave, Types
  <2> QED BY <2>1, Unseen
<1>9. CASE UNCHANGED vars
  BY <1>9, Unseen DEF vars
<1>10. ASSUME NEW r \in Requests, ParallelFor(r[1], r[2]) PROVE [PF!Next]_PF!vars
  BY <1>10, EnterIsBegin
<1> QED BY <1>1, <1>2, <1>3, <1>4, <1>5, <1>6, <1>7, <1>8, <1>9, <1>10
     DEF Next, CallerStep, Dispatch, WorkerStep, Terminated

\* The pool is a parallel-for for every number of workers and every sequence of calls: between a call and
\* its return each item is run exactly once, and outside a call nothing is.
THEOREM PoolImplementsParallelFor == Spec => PF!Spec
<1>1. Init => PF!Init
  <2> SUFFICES ASSUME Init PROVE PF!Init
    OBVIOUS
  <2>1. pc[Caller] = "idle" /\ hits = [i \in 0..-1 |-> 0]
    BY DEF Init, Threads
  <2> QED BY <2>1, Phases DEF PF!Init
<1> QED BY <1>1, StepRefines, AlwaysWorkInv, ItemsHaveOneOwner, PTL DEF Spec, PF!Spec
=============================================================================
