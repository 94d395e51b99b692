---------------------------- MODULE ParallelFor -----------------------------
(***************************************************************************)
(* What ThreadPool promises the operators that call it: between a call of  *)
(* parallel_for(n, grain, fn) and its return, fn runs on every item of     *)
(* [0, n) exactly once, in pieces and in an order nobody is promised;      *)
(* outside a call nothing runs; and once the pool is destroyed nothing     *)
(* runs any more.                                                          *)
(***************************************************************************)
EXTENDS Integers

CONSTANTS Sizes  \* the item counts n that callers ask for

VARIABLES
  phase,  \* "idle", "busy" (in a call), "closing" (being destroyed) or "gone"
  hits    \* how often each item of the call in progress, or of the last one, has run

vars == <<phase, hits>>

Init == phase = "idle" /\ hits = [i \in 0..-1 |-> 0]

\* parallel_for(n, ...) is entered; with nothing to do it has returned already.
Begin(n) ==
  /\ phase = "idle"
  /\ phase' = IF n > 0 THEN "busy" ELSE "idle"
  /\ hits' = [i \in 0..n-1 |-> 0]

\* fn runs on some of the items that it has not run on yet.
Execute(S) ==
  /\ phase = "busy"
  /\ \A i \in S : hits[i] = 0
  /\ hits' = [i \in DOMAIN hits |-> IF i \in S THEN 1 ELSE hits[i]]
  /\ UNCHANGED phase

\* parallel_for returns: every item has run.
Return ==
  /\ phase = "busy"
  /\ \A i \in DOMAIN hits : hits[i] = 1
  /\ phase' = "idle"
  /\ UNCHANGED hits

\* An inline call is one execution of fn on everything, with the return.
RunInline ==
  /\ phase = "busy"
  /\ \A i \in DOMAIN hits : hits[i] = 0
  /\ hits' = [i \in DOMAIN hits |-> 1]
  /\ phase' = "idle"

Close == phase = "idle" /\ phase' = "closing" /\ UNCHANGED hits
Closed == phase = "closing" /\ phase' = "gone" /\ UNCHANGED hits

Next ==
  \/ \E n \in Sizes : Begin(n)
  \/ \E S \in SUBSET DOMAIN hits : S # {} /\ Execute(S)
  \/ Return \/ RunInline \/ Close \/ Closed

\* Calls return and destructions end.
Spec == Init /\ [][Next]_vars
FairSpec == Spec /\ WF_vars(Return \/ RunInline) /\ WF_vars(Closed)
                 /\ WF_vars(\E S \in SUBSET DOMAIN hits : S # {} /\ Execute(S))
=============================================================================
