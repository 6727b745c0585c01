----------------------------- MODULE LeakyBucket ----------------------------
(***************************************************************************)
(* The rate limiter of leakybucket: the goroutine that leaks slots at each *)
(* tick, the HTTP client that fetches once per slot, and the debug         *)
(* goroutine that takes the client's counts, over unbuffered channels.     *)
(***************************************************************************)
EXTENDS Integers

CONSTANTS MaxCapacity, Leak

BucketAssumption ==
  /\ MaxCapacity \in Nat /\ Leak \in Nat \ {0}
  /\ Leak <= MaxCapacity

VARIABLES
  dynamicCapacity,
  ticked,    \* a tick waits in leakTicker.C, which holds one
  ppc,       \* process, which keeps the lock while it offers slots
  slots,     \* what the client still has to fetch
  cpc,       \* where the client is
  burst      \* history: requests since the ticker fired last

vars == <<dynamicCapacity, ticked, ppc, slots, cpc, burst>>

Init ==
  /\ dynamicCapacity = MaxCapacity
  /\ ticked = FALSE /\ ppc = "select" /\ slots = 0 /\ cpc = "select" /\ burst = 0

\* The ticker drops a tick that nobody has taken (external).
TickerFires ==
  /\ ticked' = TRUE /\ burst' = 0
  /\ UNCHANGED <<dynamicCapacity, ppc, slots, cpc>>

Empty == dynamicCapacity <= 0

LeakSlots ==
  /\ ppc = "select" /\ ticked
  /\ ticked' = FALSE /\ ppc' = "offer"
  /\ dynamicCapacity' = (IF Empty THEN MaxCapacity ELSE dynamicCapacity) - Leak
  /\ UNCHANGED <<slots, cpc, burst>>

\* Mutant: the loop over the slots runs down to zero.
Received_OneMore == Leak + 1

Received == Leak

\* The send on ready meets the client's receive.
TakeSlots ==
  /\ ppc = "offer" /\ cpc = "select"
  /\ ppc' = "select" /\ slots' = Received /\ cpc' = "fetch"
  /\ UNCHANGED <<dynamicCapacity, ticked, burst>>

FetchRequest ==
  /\ cpc = "fetch"
  /\ burst' = burst + 1
  /\ cpc' \in {"count", "exit"}   \* a failed request ends the program
  /\ UNCHANGED <<dynamicCapacity, ticked, ppc, slots>>

\* Mutant: nobody receives from counterCh.
DebugRuns_Not == FALSE

\* debug receives whether it prints or not.
DebugRuns == TRUE

Count ==
  /\ cpc = "count" /\ DebugRuns
  /\ slots' = slots - 1
  /\ cpc' = IF slots > 1 THEN "fetch" ELSE "select"
  /\ UNCHANGED <<dynamicCapacity, ticked, ppc, burst>>

Fetching == cpc = "fetch"

Running == cpc # "exit"

Next ==
  /\ Running
  /\ TickerFires \/ LeakSlots \/ TakeSlots \/ FetchRequest \/ Count

Spec == Init /\ [][Next]_vars

\* The ticker fires for ever and the goroutines are scheduled.
FairSpec ==
  /\ Spec
  /\ WF_vars(Running /\ TickerFires) /\ WF_vars(Running /\ LeakSlots)
  /\ WF_vars(TakeSlots) /\ WF_vars(FetchRequest) /\ WF_vars(Count)

-----------------------------------------------------------------------------
(* Properties.                                                             *)

TypeOK ==
  /\ dynamicCapacity \in (1 - Leak)..MaxCapacity
  /\ ticked \in BOOLEAN /\ ppc \in {"select", "offer"}
  /\ slots \in 0..Leak /\ cpc \in {"select", "fetch", "count", "exit"}
  /\ burst \in Nat

\* However slow the server was, the client makes at most three leaks' worth of
\* requests before the ticker fires again: one it was working on, one that
\* process was offering, and one whose tick was waiting.
BurstBounded == burst <= 3 * Leak

\* The three goroutines never come to wait for each other: as long as requests
\* succeed there is always another one.
KeepsFetching == []<>Fetching \/ <>~Running

\* "can't leak more than the dynamic capacity of the bucket"
LeakWithinCapacity == dynamicCapacity >= 0

\* "leak four element every leak interval duration"
OneLeakPerInterval == burst <= Leak
=============================================================================
