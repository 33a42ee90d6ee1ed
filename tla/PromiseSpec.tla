---------------------------- MODULE PromiseSpec ----------------------------
(***************************************************************************)
(* What promises promise to those who use them: each settles at most once, *)
(* and the reactions that wait on it run after that, each once and one at  *)
(* a time; where the host queues drains, in the order in which they were   *)
(* registered.                                                             *)
(***************************************************************************)
EXTENDS Naturals, Sequences, SequencesExt

CONSTANT Promise

VARIABLES
  outcome,   \* the state and value of each promise
  waiting,   \* the reactions registered on it and not yet run
  ordered    \* whether reactions run in order; the host decides

vars == <<outcome, waiting, ordered>>
Final == {"FULFILLED", "REJECTED"}
Settled(p) == outcome[p].st \in Final

Init == \A p \in Promise : outcome[p].st = "UNBORN" /\ waiting[p] = <<>>

\* It starts out pending, or settled.
Make(p) ==
  /\ outcome[p].st = "UNBORN" /\ outcome'[p].st # "UNBORN"
  /\ waiting'[p] = waiting[p]

Register(p) ==
  /\ outcome[p].st # "UNBORN"
  /\ outcome'[p] = outcome[p]
  /\ Len(waiting'[p]) = Len(waiting[p]) + 1
  /\ SubSeq(waiting'[p], 1, Len(waiting[p])) = waiting[p]

Settle(p) ==
  /\ outcome[p].st = "PENDING" /\ outcome'[p].st \in Final
  /\ waiting'[p] = waiting[p]

Run(p) ==
  /\ Settled(p) /\ waiting[p] # <<>>
  /\ outcome'[p] = outcome[p]
  /\ \E i \in DOMAIN waiting[p] :
       /\ ordered => i = 1
       /\ waiting'[p] = RemoveAt(waiting[p], i)

Rest(p) == outcome'[p] = outcome[p] /\ waiting'[p] = waiting[p]

\* One reaction may settle other promises and register on yet others.
Next ==
  /\ ordered' = ordered
  /\ \A p \in Promise : Make(p) \/ Register(p) \/ Settle(p) \/ Run(p) \/ Rest(p)
  /\ \A p, q \in Promise : Run(p) /\ Run(q) => p = q

Spec == Init /\ [][Next]_vars

\* What waits on a settled promise is eventually run.
Live == \A p \in Promise : (Settled(p) /\ waiting[p] # <<>>) ~> (waiting[p] = <<>>)
=============================================================================
