--------------------------- MODULE KafkaRestarter ---------------------------
(***************************************************************************)
(* kafka-rolling-restarter: polls Prometheus over a sliding time range and *)
(* restarts the local broker when the sums of the answers are right.  The  *)
(* queries for under-replicated partitions (urp), in-sync-replica changes  *)
(* (isr) and active controllers (acc) are one and the same expression in   *)
(* the code, so that there is one series of samples, taken once a minute.  *)
(***************************************************************************)
EXTENDS Naturals, Sequences

CONSTANTS
  Samples,             \* evaluation points of the time range, ends included
  Rates,               \* the values of a sample
  MayWarn,             \* whether Prometheus answers with warnings
  restartKafkaService  \* -r

RestarterAssumption ==
  /\ Samples \in Nat \ {0} /\ Rates \subseteq Nat
  /\ MayWarn \in BOOLEAN /\ restartKafkaService \in BOOLEAN

VARIABLES
  history,     \* the last samples, oldest first (external)
  timeRange,   \* the samples that p.timeRange covers
  pc,          \* where the loop of main is
  sums,        \* what each answer adds up to
  warned       \* history: the queries of this round that got warnings

vars == <<history, timeRange, pc, sums, warned>>

Queries == {"urp", "isr", "acc"}

Init ==
  /\ history \in [1..Samples -> Rates] /\ timeRange = history
  /\ pc = "urp" /\ sums = [q \in Queries |-> 0] /\ warned = {}

\* A minute goes by (external).
MinutePasses ==
  /\ \E r \in Rates : history' = Append(Tail(history), r)
  /\ UNCHANGED <<timeRange, pc, sums, warned>>

\* The sum of the samples from the n-th on; those the query drops are zero.
SumFrom[n \in Nat] == IF n > Samples THEN 0 ELSE timeRange[n] + SumFrom[n + 1]

After(q) == CASE q = "urp" -> "isr" [] q = "isr" -> "acc" [] q = "acc" -> "decide"

PromQueryRange(q) ==
  /\ pc = q
  /\ sums' = [sums EXCEPT ![q] = SumFrom[1]]
  /\ pc' = After(q)
  /\ UNCHANGED <<history, timeRange, warned>>

\* With warnings the matrix is nil, and so is the error.
QueryWarns(q) ==
  /\ MayWarn /\ pc = q
  /\ pc' = After(q) /\ warned' = warned \cup {q}
  /\ UNCHANGED <<history, timeRange, sums>>

QueryFails(q) ==
  /\ pc = q
  /\ pc' = "exit"
  /\ UNCHANGED <<history, timeRange, sums, warned>>

\* Mutant: one of the two conditions is enough.
IsRestartRequired_Either == sums["urp"] + sums["isr"] = 0 \/ sums["acc"] = 1

IsRestartRequired == sums["urp"] + sums["isr"] = 0 /\ sums["acc"] = 1

Decide ==
  /\ pc = "decide"
  /\ pc' = IF IsRestartRequired /\ restartKafkaService THEN "restart" ELSE "sleep"
  /\ UNCHANGED <<history, timeRange, sums, warned>>

\* exec.Command passes its second argument on as one word.
Argv == <<"restart kafka-server.service">>

\* systemctl takes a verb and a unit (external).
Accepted(argv) == Len(argv) = 2

\* The program ends, by the break or with an exit code.
Restart ==
  /\ pc = "restart"
  /\ pc' \in IF Accepted(Argv) THEN {"done", "exit"} ELSE {"exit"}
  /\ UNCHANGED <<history, timeRange, sums, warned>>

NewRange == history

\* The end of the round: the range slides, and the sums start at zero.
Sleep ==
  /\ pc = "sleep"
  /\ timeRange' = NewRange
  /\ pc' = "urp" /\ sums' = [q \in Queries |-> 0] /\ warned' = {}
  /\ UNCHANGED history

Next ==
  \/ MinutePasses
  \/ \E q \in Queries : PromQueryRange(q) \/ QueryWarns(q) \/ QueryFails(q)
  \/ Decide \/ Restart \/ Sleep

Spec == Init /\ [][Next]_vars

-----------------------------------------------------------------------------
(* Properties.                                                             *)

TypeOK ==
  /\ history \in [1..Samples -> Rates] /\ timeRange \in [1..Samples -> Rates]
  /\ pc \in Queries \cup {"decide", "restart", "sleep", "done", "exit"}
  /\ sums \in [Queries -> Nat] /\ warned \subseteq Queries

\* As all queries are the same, a restart comes about only if the answers for
\* both replication metrics were lost to warnings and that for the
\* controllers was not: what main takes for a calm cluster is missing data.
RestartNeedsWarnings == pc = "restart" => warned = {"urp", "isr"}

\* "Kafka service is still replicating data so not restarting": the broker is
\* restarted only when no replication was seen in the range.
RestartOnlyWhenCalm == pc = "restart" => \A n \in 1..Samples : timeRange[n] = 0

\* "sum of active controller count *should* be 1.0": when the query is 1 all
\* the time, so is the sum that is compared with controllersSum.
StableSumIsOne ==
  pc = "decide" /\ warned = {} /\ (\A n \in 1..Samples : timeRange[n] = 1) => sums["acc"] = 1

\* "we are done restarting this node's kafka service": systemctl understands
\* what it is asked to do.
RestartAccepted == pc = "restart" => Accepted(Argv)
=============================================================================
