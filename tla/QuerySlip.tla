----------------------------- MODULE QuerySlip ------------------------------
(***************************************************************************)
(* Overload protection of jojo: the counter slip, which resolver threads   *)
(* raise when they find a request too old, on which route refuses queries, *)
(* and which the vacuum thread resets.  All three use atomic operations;   *)
(* what matters is how they interleave.                                    *)
(***************************************************************************)
EXTENDS Naturals

CONSTANTS
  Handlers,   \* goroutines of route
  SlipMod     \* 2^32 in the code: slip is a uint32

SlipAssumption == SlipMod \in Nat /\ SlipMod > 1

VARIABLES
  slip,
  hpc,        \* where a handler is in route
  slipValue,  \* what a handler has loaded
  late,       \* handlers told "Request too old", slip not raised yet
  oldSince    \* history: slip was raised since the last reset

vars == <<slip, hpc, slipValue, late, oldSince>>

Init ==
  /\ slip = 0
  /\ hpc = [h \in Handlers |-> "idle"] /\ slipValue = [h \in Handlers |-> 0]
  /\ late = [h \in Handlers |-> FALSE] /\ oldSince = FALSE

\* A query whose key is valid, whose name is not special, and which finds no
\* fresh entry in the cache.  All others are answered without looking at slip.
Miss(h) ==
  /\ hpc[h] = "idle"
  /\ hpc' = [hpc EXCEPT ![h] = "miss"]
  /\ UNCHANGED <<slip, slipValue, late, oldSince>>

Refused(v) == v > 0 /\ v % 2 = 0

LoadSlip(h) ==
  /\ hpc[h] = "miss"
  /\ slipValue' = [slipValue EXCEPT ![h] = slip]
  /\ hpc' = [hpc EXCEPT ![h] = IF Refused(slip) THEN "refuse" ELSE "resolve"]
  /\ UNCHANGED <<slip, late, oldSince>>

\* Mutant: the counter is incremented, whatever it is by now.
Swapped_Add(h) == (slip + 1) % SlipMod

\* CompareAndSwapUint32(&slip, slipValue, slipValue+1)
Swapped(h) == IF slip = slipValue[h] THEN (slip + 1) % SlipMod ELSE slip

\* Then the client gets a truncated response or none.
Refuse(h) ==
  /\ hpc[h] = "refuse"
  /\ slip' = Swapped(h)
  /\ hpc' = [hpc EXCEPT ![h] = "idle"] /\ slipValue' = [slipValue EXCEPT ![h] = 0]
  /\ UNCHANGED <<late, oldSince>>

\* The query is resolved, or it fails; the thread that finds it too old says
\* so before it raises slip.  Every query has a handler of its own, and so one
\* for which a thread still has to raise slip is not used again.
Resolve(h) ==
  /\ hpc[h] = "resolve" /\ ~late[h]
  /\ \E tooOld \in BOOLEAN : late' = [late EXCEPT ![h] = tooOld]
  /\ hpc' = [hpc EXCEPT ![h] = "idle"] /\ slipValue' = [slipValue EXCEPT ![h] = 0]
  /\ UNCHANGED <<slip, oldSince>>

\* AddUint32(&slip, 1)
Raised == (slip + 1) % SlipMod

RaiseSlip(h) ==
  /\ late[h]
  /\ slip' = Raised
  /\ late' = [late EXCEPT ![h] = FALSE] /\ oldSince' = TRUE
  /\ UNCHANGED <<hpc, slipValue>>

\* vacuumThread
Vacuum ==
  /\ slip' = 0 /\ oldSince' = FALSE
  /\ UNCHANGED <<hpc, slipValue, late>>

Next ==
  \/ \E h \in Handlers : Miss(h) \/ LoadSlip(h) \/ Refuse(h) \/ Resolve(h) \/ RaiseSlip(h)
  \/ Vacuum

Spec == Init /\ [][Next]_vars

-----------------------------------------------------------------------------
(* Properties.                                                             *)

TypeOK ==
  /\ slip \in 0..(SlipMod - 1)
  /\ hpc \in [Handlers -> {"idle", "miss", "refuse", "resolve"}]
  /\ slipValue \in [Handlers -> 0..(SlipMod - 1)]
  /\ late \in [Handlers -> BOOLEAN] /\ oldSince \in BOOLEAN

\* Queries are refused only when a request was too old since the last reset: a
\* handler that was about to refuse does not undo the reset.
SlipNeedsOldRequest == slip > 0 => oldSince

RefusalHasCause ==
  Refused(slip') /\ slip' # slip => \E h \in Handlers : late[h] /\ ~late'[h]

\* Only a request that was too old makes route start to refuse queries: by
\* refusing some, handlers never bring about that more are refused, however
\* many of them have loaded the same value.
OnlyOldRequestsRefuse == [][RefusalHasCause]_vars
=============================================================================
