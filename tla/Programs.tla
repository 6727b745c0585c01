------------------------------ MODULE Programs ------------------------------
(***************************************************************************)
(* The small programs of the repository in one specification.  They have   *)
(* nothing to do with each other: one of them is chosen in the initial     *)
(* state, and it alone runs.  The variables of the others stay None.       *)
(***************************************************************************)
EXTENDS Integers, Sequences

CONSTANTS
  MaxCapacity, Leak,                             \* leakybucket
  Samples, Rates, MayWarn, restartKafkaService,  \* kafka-rolling-restarter
  Handlers, SlipMod,                             \* the slip counter of jojo
  Procs, Tids, MapSize, MaxCalls,                \* gobpf-explore
  Files, Titles, Fields, Values, MaxRuns,        \* vault-secrets
  Elements, K, M, Digests, MaxAdds,              \* bloomfilter-explore
  Items, MaxLen,                                 \* list-intersect, slice-delete
  None

VARIABLES
  program,
  dynamicCapacity, ticked, ppc, slots, cpc, burst,
  history, timeRange, pc, sums, warned,
  slip, hpc, slipValue, late, oldSince,
  attached, calls, inside, probed, chowncall, events,
  ipc, records, pos, secret, vault, runs,
  digest, residue, bitset, n, added,
  function, left, right, at, loop, high, out, over

Leaky == INSTANCE LeakyBucket
Kafka == INSTANCE KafkaRestarter
Slip == INSTANCE QuerySlip
Trace == INSTANCE ChownTrace
Vault == INSTANCE VaultImport
Bloom == INSTANCE BloomFilter WITH Items <- Elements
Slices == INSTANCE SliceAlgorithms WITH fn <- function, a <- left, b <- right, i <- at, done <- over

leaky == <<dynamicCapacity, ticked, ppc, slots, cpc, burst>>
kafka == <<history, timeRange, pc, sums, warned>>
refusal == <<slip, hpc, slipValue, late, oldSince>>
trace == <<attached, calls, inside, probed, chowncall, events>>
import == <<ipc, records, pos, secret, vault, runs>>
bloom == <<digest, residue, bitset, n, added>>
slices == <<function, left, right, at, loop, high, out, over>>
all == <<program, leaky, kafka, refusal, trace, import, bloom, slices>>

ASSUME ProgramsAssumption ==
  /\ Leaky!BucketAssumption /\ Kafka!RestarterAssumption /\ Slip!SlipAssumption
  /\ Trace!TraceAssumption /\ Vault!ImportAssumption /\ Bloom!FilterAssumption
  /\ Slices!SliceAssumption

\* The variables of a program that does not run.
LeakyOff ==
  /\ dynamicCapacity = None /\ ticked = None /\ ppc = None /\ slots = None /\ cpc = None
  /\ burst = None

KafkaOff == history = None /\ timeRange = None /\ pc = None /\ sums = None /\ warned = None

SlipOff == slip = None /\ hpc = None /\ slipValue = None /\ late = None /\ oldSince = None

TraceOff ==
  /\ attached = None /\ calls = None /\ inside = None /\ probed = None /\ chowncall = None
  /\ events = None

VaultOff ==
  /\ ipc = None /\ records = None /\ pos = None /\ secret = None /\ vault = None /\ runs = None

BloomOff == digest = None /\ residue = None /\ bitset = None /\ n = None /\ added = None

SlicesOff ==
  /\ function = None /\ left = None /\ right = None /\ at = None
  /\ loop = None /\ high = None /\ out = None /\ over = None

Init ==
  /\ program \in {"leakybucket", "kafka-rolling-restarter", "jojo slip", "gobpf-explore",
                  "vault-secrets", "bloomfilter-explore", "slices"}
  /\ IF program = "leakybucket" THEN Leaky!Init ELSE LeakyOff
  /\ IF program = "kafka-rolling-restarter" THEN Kafka!Init ELSE KafkaOff
  /\ IF program = "jojo slip" THEN Slip!Init ELSE SlipOff
  /\ IF program = "gobpf-explore" THEN Trace!Init ELSE TraceOff
  /\ IF program = "vault-secrets" THEN Vault!Init ELSE VaultOff
  /\ IF program = "bloomfilter-explore" THEN Bloom!Init ELSE BloomOff
  /\ IF program = "slices" THEN Slices!Init ELSE SlicesOff

Next ==
  /\ UNCHANGED program
  /\ IF program = "leakybucket" THEN Leaky!Next ELSE UNCHANGED leaky
  /\ IF program = "kafka-rolling-restarter" THEN Kafka!Next ELSE UNCHANGED kafka
  /\ IF program = "jojo slip" THEN Slip!Next ELSE UNCHANGED refusal
  /\ IF program = "gobpf-explore" THEN Trace!Next ELSE UNCHANGED trace
  /\ IF program = "vault-secrets" THEN Vault!Next ELSE UNCHANGED import
  /\ IF program = "bloomfilter-explore" THEN Bloom!Next ELSE UNCHANGED bloom
  /\ IF program = "slices" THEN Slices!Next ELSE UNCHANGED slices

Spec == Init /\ [][Next]_all

\* The fairness of LeakyBucket's FairSpec, in the runs of leakybucket.
InLeaky(A) == program = "leakybucket" /\ A /\ Next

FairSpec ==
  /\ Spec
  /\ WF_all(InLeaky(Leaky!TickerFires)) /\ WF_all(InLeaky(Leaky!LeakSlots))
  /\ WF_all(InLeaky(Leaky!TakeSlots)) /\ WF_all(InLeaky(Leaky!FetchRequest))
  /\ WF_all(InLeaky(Leaky!Count))

-----------------------------------------------------------------------------
(* Properties: each is stated, and explained, in the program's module.     *)

\* leakybucket: bursts are at most three leaks long.
BurstBounded == program = "leakybucket" => Leaky!BurstBounded

\* leakybucket: the goroutines never come to wait for each other.
KeepsFetching ==
  \/ []<>(program = "leakybucket" => Leaky!Fetching)
  \/ <>(program = "leakybucket" /\ ~Leaky!Running)

\* kafka-rolling-restarter: what looks like a calm cluster is missing data.
RestartNeedsWarnings == program = "kafka-rolling-restarter" => Kafka!RestartNeedsWarnings

\* jojo: refusing queries never brings about that more are refused.
OnlyOldRequestsRefuse == [][program = "jojo slip" => Slip!RefusalHasCause]_all

\* gobpf-explore: an event has arguments and return value of one call.
EventIsOneCall == program = "gobpf-explore" => Trace!EventIsOneCall

\* vault-secrets: a run that ends well has imported its file.
ImportComplete == program = "vault-secrets" => Vault!ImportComplete

\* bloomfilter-explore: what was added is reported present.
NoFalseNegatives == program = "bloomfilter-explore" => Bloom!NoFalseNegatives

\* list-intersect and slice-delete: no element is made up or lost.
ElementsAccounted == program = "slices" => Slices!ElementsAccounted
=============================================================================
