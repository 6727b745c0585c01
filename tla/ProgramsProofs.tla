--------------------------- MODULE ProgramsProofs ---------------------------
(***************************************************************************)
(* What the small programs promise, for every value of their constants.    *)
(* Each part has the inductive invariant of one program, which says        *)
(* something only in the behaviours in which that program is chosen.       *)
(***************************************************************************)
EXTENDS Programs, TLAPS

\* The solvers that a leaf without one of its own tries in turn, with their time
\* limits in seconds.
USE SMTT(15), ZenonT(20), SMTT(30), SMTT(60), SMTT(120)

-----------------------------------------------------------------------------
(* leakybucket.                                                            *)

\* Requests the client can still make without another tick: those of the
\* slots it has, of the slots offered to it, and of the tick that waits.
OnTheWay ==
  (IF cpc = "count" THEN slots - 1 ELSE slots)
    + (IF ppc = "offer" THEN Leak ELSE 0) + (IF ticked THEN Leak ELSE 0)

\* A client between requests has slots, an idle one has none, and what has
\* been made since the last tick together with what is on the way is bounded.
BucketInv ==
  /\ Leaky!TypeOK
  /\ cpc \in {"fetch", "count"} => slots > 0
  /\ cpc = "select" => slots = 0
  /\ cpc # "exit" => burst + OnTheWay <= 3 * Leak
  /\ burst <= 3 * Leak

LeakyInv == program = "leakybucket" => BucketInv

\* The bounds hold initially and every step of the goroutines keeps them.
THEOREM LeakyInvariance == Spec => []LeakyInv
<1> USE ProgramsAssumption DEF Leaky!BucketAssumption
<1>1. Init => LeakyInv
  <2> SUFFICES ASSUME Leaky!Init PROVE BucketInv
    BY DEF Init, LeakyInv
  <2>1. OnTheWay = 0
    BY DEF Leaky!Init, OnTheWay
  <2>2. Leaky!TypeOK
    <3>1. ticked \in BOOLEAN
      BY ZenonT(30) DEF Leaky!Init
    <3>2. MaxCapacity \in (1 - Leak)..MaxCapacity /\ 0 \in 0..Leak
      OBVIOUS
    <3> QED
      BY <3>1, <3>2 DEF Leaky!Init, Leaky!TypeOK
  <2> QED
    BY <2>1, <2>2 DEF Leaky!Init, BucketInv
<1>2. LeakyInv /\ [Next]_all => LeakyInv'
  <2> SUFFICES ASSUME BucketInv, Leaky!Next \/ UNCHANGED leaky PROVE BucketInv'
    BY DEF LeakyInv, Next, all
  <2> USE DEF BucketInv, Leaky!TypeOK, OnTheWay
  <2>1. CASE Leaky!Running /\ Leaky!TickerFires
    BY <2>1 DEF Leaky!Running, Leaky!TickerFires
  <2>2. CASE Leaky!Running /\ Leaky!LeakSlots
    <3> DEFINE c == IF dynamicCapacity <= 0 THEN MaxCapacity ELSE dynamicCapacity
    <3>1. c \in 1..MaxCapacity
      OBVIOUS
    <3>2. dynamicCapacity' \in (1 - Leak)..MaxCapacity
      BY <2>2, <3>1 DEF Leaky!LeakSlots, Leaky!Empty
    <3>3. OnTheWay' = OnTheWay
      BY <2>2 DEF Leaky!LeakSlots
    <3> QED
      BY <2>2, <3>2, <3>3, ZenonT(30) DEF Leaky!Running, Leaky!LeakSlots
  <2>3. CASE Leaky!Running /\ Leaky!TakeSlots
    BY <2>3 DEF Leaky!Running, Leaky!TakeSlots, Leaky!Received
  <2>4. CASE Leaky!Running /\ Leaky!FetchRequest
    BY <2>4 DEF Leaky!Running, Leaky!FetchRequest
  <2>5. CASE Leaky!Running /\ Leaky!Count
    BY <2>5 DEF Leaky!Running, Leaky!Count, Leaky!DebugRuns
  <2>6. CASE UNCHANGED leaky
    BY <2>6 DEF leaky
  <2> QED
    BY <2>1, <2>2, <2>3, <2>4, <2>5, <2>6 DEF Leaky!Next
<1> QED
  BY <1>1, <1>2, PTL DEF Spec

\* The capacity that process leaves behind never falls to minus the leak or
\* below, and the client never has more slots than one leak.
THEOREM BucketTypeCorrect == Spec => [](program = "leakybucket" => Leaky!TypeOK)
<1>1. LeakyInv => (program = "leakybucket" => Leaky!TypeOK)
  BY DEF LeakyInv, BucketInv
<1> QED
  BY <1>1, LeakyInvariance, PTL

\* Between two ticks the client makes at most three leaks' worth of requests,
\* however the goroutines are scheduled and however slow the server is.
THEOREM BurstIsBounded == Spec => []BurstBounded
<1>1. LeakyInv => BurstBounded
  BY DEF LeakyInv, BucketInv, BurstBounded, Leaky!BurstBounded
<1> QED
  BY <1>1, LeakyInvariance, PTL

-----------------------------------------------------------------------------
(* kafka-rolling-restarter.                                                *)

\* What every query of a round adds up to, if it gets an answer.
Total == Kafka!SumFrom[1]

\* The queries of the round that are over.
Past == CASE pc = "urp" -> {} [] pc = "isr" -> {"urp"} [] pc = "acc" -> {"urp", "isr"}
          [] OTHER -> Kafka!Queries

\* A query that is over has the total of the range, or a warning and zero.
RoundInv ==
  /\ pc \in Kafka!Queries \cup {"decide", "restart", "sleep", "done", "exit"}
  /\ pc \in Kafka!Queries \cup {"decide"} =>
       /\ sums = [q \in Kafka!Queries |-> IF q \in Past \ warned THEN Total ELSE 0]
       /\ warned \subseteq Past
  /\ Kafka!RestartNeedsWarnings

KafkaInv == program = "kafka-rolling-restarter" => RoundInv

\* The total is one of the range, which slides only between rounds.
LEMMA TotalOfRange == UNCHANGED timeRange => Total' = Total
BY DEF Total, Kafka!SumFrom

\* Every step of the loop keeps it.
THEOREM KafkaInvariance == Spec => []KafkaInv
<1> USE DEF Kafka!Queries
<1>1. Init => KafkaInv
  BY DEF Init, KafkaInv, Kafka!Init, RoundInv, Past, Kafka!RestartNeedsWarnings
<1>2. KafkaInv /\ [Next]_all => KafkaInv'
  <2> SUFFICES ASSUME RoundInv, Kafka!Next \/ UNCHANGED kafka PROVE RoundInv'
    BY DEF KafkaInv, Next, all
  <2>1. CASE Kafka!MinutePasses \/ UNCHANGED kafka
    <3>1. UNCHANGED <<timeRange, pc, sums, warned>>
      BY <2>1 DEF Kafka!MinutePasses, kafka
    <3> QED
      BY <3>1, TotalOfRange DEF RoundInv, Past, Kafka!RestartNeedsWarnings
  <2>2. ASSUME NEW q \in Kafka!Queries, Kafka!PromQueryRange(q) PROVE RoundInv'
    <3>1. pc = q /\ pc' = Kafka!After(q) /\ UNCHANGED <<timeRange, warned>>
      BY <2>2 DEF Kafka!PromQueryRange
    <3>2. sums' = [sums EXCEPT ![q] = Total] /\ Total' = Total
      BY <2>2, <3>1, TotalOfRange DEF Kafka!PromQueryRange, Total
    <3>3. Past' = Past \cup {q} /\ q \notin Past /\ pc' \in {"isr", "acc", "decide"}
      BY <3>1 DEF Past, Kafka!After
    <3>4. sums' = [x \in Kafka!Queries |-> IF x \in Past' \ warned THEN Total ELSE 0]
      BY <3>1, <3>2, <3>3, ZenonT(30) DEF RoundInv
    <3> QED
      BY <3>1, <3>2, <3>3, <3>4, ZenonT(30) DEF RoundInv, Kafka!RestartNeedsWarnings
  <2>3. ASSUME NEW q \in Kafka!Queries, Kafka!QueryWarns(q) PROVE RoundInv'
    <3>1. pc = q /\ pc' = Kafka!After(q) /\ UNCHANGED <<timeRange, sums>> /\ warned' = warned \cup {q}
      BY <2>3 DEF Kafka!QueryWarns
    <3>2. Total' = Total
      BY <3>1, TotalOfRange
    <3>3. Past' = Past \cup {q} /\ q \notin Past /\ pc' \in {"isr", "acc", "decide"}
      BY <3>1 DEF Past, Kafka!After
    <3>4. Past' \ warned' = Past \ warned
      BY <3>1, <3>3
    <3> QED
      BY <3>1, <3>2, <3>3, <3>4 DEF RoundInv, Kafka!RestartNeedsWarnings
  <2>4. ASSUME NEW q \in Kafka!Queries, Kafka!QueryFails(q) PROVE RoundInv'
    BY <2>4 DEF Kafka!QueryFails, RoundInv, Kafka!RestartNeedsWarnings
  <2>5. CASE Kafka!Decide
    <3>1. pc = "decide" /\ pc' \in {"restart", "sleep"} /\ warned' = warned
      BY <2>5 DEF Kafka!Decide
    <3>2. pc' = "restart" => Kafka!IsRestartRequired
      BY <2>5 DEF Kafka!Decide
    <3>3. \A q \in Kafka!Queries : sums[q] = IF q \in warned THEN 0 ELSE Total
      BY <3>1 DEF RoundInv, Past
    <3>4. pc' = "restart" => sums["acc"] = 1 /\ sums["urp"] + sums["isr"] = 0
      BY <3>2 DEF Kafka!IsRestartRequired
    <3>5. pc' = "restart" => "acc" \notin warned /\ Total = 1
      BY <3>3, <3>4
    <3>6. pc' = "restart" => sums["urp"] \in {0, 1} /\ sums["isr"] \in {0, 1}
      BY <3>3, <3>5
    <3>7. pc' = "restart" => sums["urp"] = 0 /\ sums["isr"] = 0
      BY <3>4, <3>6
    <3>8. pc' = "restart" => "urp" \in warned /\ "isr" \in warned
      BY <3>3, <3>5, <3>7
    <3>9. warned \subseteq Kafka!Queries
      BY <3>1 DEF RoundInv, Past
    <3> QED
      BY <3>1, <3>5, <3>8, <3>9, ZenonT(30) DEF RoundInv, Kafka!RestartNeedsWarnings
  <2>6. CASE Kafka!Restart
    BY <2>6 DEF Kafka!Restart, RoundInv, Kafka!RestartNeedsWarnings
  <2>7. CASE Kafka!Sleep
    BY <2>7 DEF Kafka!Sleep, RoundInv, Past, Kafka!RestartNeedsWarnings
  <2> QED
    BY <2>1, <2>2, <2>3, <2>4, <2>5, <2>6, <2>7 DEF Kafka!Next
<1> QED
  BY <1>1, <1>2, PTL DEF Spec

\* A restart comes about only when the answers for both replication metrics
\* were lost to warnings, whatever the samples and the length of the range.
THEOREM RestartMissesData == Spec => []RestartNeedsWarnings
<1>1. KafkaInv => RestartNeedsWarnings
  BY DEF KafkaInv, RoundInv, RestartNeedsWarnings
<1> QED
  BY <1>1, KafkaInvariance, PTL

-----------------------------------------------------------------------------
(* jojo, the counter of refused queries.                                   *)

\* A handler about to refuse has loaded a value at which route refuses, and
\* slip is positive only if it was raised since the last reset.
CounterInv ==
  /\ Slip!TypeOK
  /\ Slip!SlipNeedsOldRequest
  /\ \A h \in Handlers : hpc[h] = "refuse" => Slip!Refused(slipValue[h])

SlipInv == program = "jojo slip" => CounterInv

\* What the increment of a counter of this width gives.
LEMMA Increment ==
  ASSUME NEW x \in 0..(SlipMod - 1)
  PROVE  /\ (x + 1) % SlipMod \in 0..(SlipMod - 1)
         /\ (x + 1) % SlipMod \in {0, x + 1}
<1> USE ProgramsAssumption DEF Slip!SlipAssumption
<1>1. CASE x + 1 = SlipMod
  BY <1>1
<1>2. CASE x + 1 < SlipMod
  BY <1>2
<1> QED
  BY <1>1, <1>2

\* An even value is followed by one at which route does not refuse.
LEMMA NextIsNotRefused ==
  ASSUME NEW x \in 0..(SlipMod - 1), Slip!Refused(x)
  PROVE  ~Slip!Refused((x + 1) % SlipMod)
<1> USE ProgramsAssumption DEF Slip!SlipAssumption
<1>1. (x + 1) % 2 = 1
  BY DEF Slip!Refused
<1> QED
  BY <1>1, Increment DEF Slip!Refused

\* Every step of handlers, resolver threads and vacuum thread keeps it.
THEOREM SlipInvariance == Spec => []SlipInv
<1> USE ProgramsAssumption DEF Slip!SlipAssumption
<1>1. Init => SlipInv
  <2> SUFFICES ASSUME Slip!Init PROVE CounterInv
    BY DEF Init, SlipInv
  <2>1. late \in [Handlers -> BOOLEAN] /\ oldSince \in BOOLEAN
    BY ZenonT(30) DEF Slip!Init
  <2>2. 0 \in 0..(SlipMod - 1)
    OBVIOUS
  <2> QED
    BY <2>1, <2>2 DEF Slip!Init, CounterInv, Slip!TypeOK, Slip!SlipNeedsOldRequest
<1>2. SlipInv /\ [Next]_all => SlipInv'
  <2> SUFFICES ASSUME CounterInv, Slip!Next \/ UNCHANGED refusal PROVE CounterInv'
    BY DEF SlipInv, Next, all
  <2> USE DEF CounterInv, Slip!TypeOK, Slip!SlipNeedsOldRequest
  <2>1. ASSUME NEW h \in Handlers, Slip!Miss(h) PROVE CounterInv'
    BY <2>1 DEF Slip!Miss
  <2>2. ASSUME NEW h \in Handlers, Slip!LoadSlip(h) PROVE CounterInv'
    BY <2>2 DEF Slip!LoadSlip
  <2>3. ASSUME NEW h \in Handlers, Slip!Refuse(h) PROVE CounterInv'
    <3>1. slip' \in 0..(SlipMod - 1) /\ (slip' > 0 => slip > 0)
      BY <2>3, Increment DEF Slip!Refuse, Slip!Swapped, Slip!Refused
    <3> QED
      BY <2>3, <3>1 DEF Slip!Refuse
  <2>4. ASSUME NEW h \in Handlers, Slip!Resolve(h) PROVE CounterInv'
    BY <2>4 DEF Slip!Resolve
  <2>5. ASSUME NEW h \in Handlers, Slip!RaiseSlip(h) PROVE CounterInv'
    <3>1. slip' \in 0..(SlipMod - 1)
      BY <2>5, Increment DEF Slip!RaiseSlip, Slip!Raised
    <3> QED
      BY <2>5, <3>1 DEF Slip!RaiseSlip
  <2>6. CASE Slip!Vacuum
    <3>1. oldSince' \in BOOLEAN
      BY <2>6, ZenonT(30) DEF Slip!Vacuum
    <3> QED
      BY <2>6, <3>1 DEF Slip!Vacuum
  <2>7. CASE UNCHANGED refusal
    BY <2>7 DEF refusal
  <2> QED
    BY <2>1, <2>2, <2>3, <2>4, <2>5, <2>6, <2>7 DEF Slip!Next
<1> QED
  BY <1>1, <1>2, PTL DEF Spec

\* Queries are refused only when a request was too old since the last reset.
THEOREM RefusedAfterOld == Spec => [](program = "jojo slip" => Slip!SlipNeedsOldRequest)
<1>1. SlipInv => (program = "jojo slip" => Slip!SlipNeedsOldRequest)
  BY DEF SlipInv, CounterInv
<1> QED
  BY <1>1, SlipInvariance, PTL

\* Only a request that was too old makes route start to refuse queries.
THEOREM RefusalsDoNotSpread == Spec => OnlyOldRequestsRefuse
<1> USE ProgramsAssumption DEF Slip!SlipAssumption
<1>1. SlipInv /\ [Next]_all => [program = "jojo slip" => Slip!RefusalHasCause]_all
  <2> SUFFICES ASSUME CounterInv, Slip!Next, Slip!Refused(slip'), slip' # slip
               PROVE  \E h \in Handlers : late[h] /\ ~late'[h]
    BY DEF Slip!RefusalHasCause, SlipInv, Next
  <2>1. ASSUME NEW h \in Handlers, Slip!Refuse(h) PROVE FALSE
    <3>1. slip = slipValue[h] /\ slip' = (slip + 1) % SlipMod
      BY <2>1 DEF Slip!Refuse, Slip!Swapped
    <3>2. Slip!Refused(slip) /\ slip \in 0..(SlipMod - 1)
      BY <2>1, <3>1 DEF Slip!Refuse, CounterInv, Slip!TypeOK
    <3> QED
      BY <3>1, <3>2, NextIsNotRefused
  <2>2. ASSUME NEW h \in Handlers, Slip!RaiseSlip(h) PROVE late[h] /\ ~late'[h]
    BY <2>2 DEF Slip!RaiseSlip, CounterInv, Slip!TypeOK
  <2>3. ~Slip!Vacuum
    BY DEF Slip!Vacuum, Slip!Refused
  <2> QED
    BY <2>1, <2>2, <2>3 DEF Slip!Next, Slip!Miss, Slip!LoadSlip, Slip!Resolve
<1> QED
  BY <1>1, SlipInvariance, PTL DEF Spec, OnlyOldRequestsRefuse

-----------------------------------------------------------------------------
(* gobpf-explore.                                                          *)

Call(t) == [thread |-> t, call |-> calls[t]]

\* What the map has for a thread whose return is probed was kept when that
\* very call began: an entry of an earlier call, whose return went unseen, was
\* overwritten, because an entry that exists needs no room.
ProbesInv ==
  /\ calls \in [Trace!Threads -> Nat]
  /\ DOMAIN chowncall = Trace!Threads
  /\ probed \subseteq inside /\ inside \subseteq Trace!Threads
  /\ \A t \in probed : chowncall[t] \in {None, Call(t)}
  /\ \A e \in events : e.args = e.ret

TraceInv == program = "gobpf-explore" => ProbesInv

\* Every step of the program, of the threads and of the probes keeps it.
THEOREM TraceInvariance == Spec => []TraceInv
<1>1. Init => TraceInv
  BY DEF Init, TraceInv, Trace!Init, ProbesInv
<1>2. TraceInv /\ [Next]_all => TraceInv'
  <2> SUFFICES ASSUME ProbesInv, Trace!Next \/ UNCHANGED trace PROVE ProbesInv'
    BY DEF TraceInv, Next, all
  <2> USE DEF ProbesInv, Call, Trace!KeyOf
  <2>1. CASE Trace!AttachKprobe \/ Trace!AttachKretprobe \/ Trace!Receive
    BY <2>1 DEF Trace!AttachKprobe, Trace!AttachKretprobe, Trace!Receive
  <2>2. CASE Trace!Close
    BY <2>2 DEF Trace!Close
  <2>3. ASSUME NEW t \in Trace!Threads, Trace!Enter(t) PROVE ProbesInv'
    <3>1. calls' \in [Trace!Threads -> Nat] /\ inside' = inside \cup {t} /\ events' = events
      BY <2>3 DEF Trace!Enter
    <3>2. DOMAIN chowncall' = Trace!Threads
      BY <2>3 DEF Trace!Enter, Trace!Kept
    <3>3. probed' \subseteq probed \cup {t}
      BY <2>3 DEF Trace!Enter
    <3>4. \A s \in Trace!Threads \ {t} : chowncall'[s] = chowncall[s] /\ calls'[s] = calls[s]
      BY <2>3 DEF Trace!Enter, Trace!Kept
    <3>5. t \in probed' => chowncall'[t] \in {None, [thread |-> t, call |-> calls'[t]]}
      <4> SUFFICES ASSUME t \in probed' PROVE chowncall'[t] \in {None, [thread |-> t, call |-> calls'[t]]}
        OBVIOUS
      <4>1. t \notin probed
        BY <2>3 DEF Trace!Enter
      <4>2. attached = "both"
        BY <2>3, <4>1 DEF Trace!Enter
      <4>3. calls'[t] = calls[t] + 1
        BY <2>3 DEF Trace!Enter
      <4>4. CASE Trace!Fits(t)
        BY <2>3, <4>2, <4>3, <4>4 DEF Trace!Enter, Trace!Kept
      <4>5. CASE ~Trace!Fits(t)
        BY <2>3, <4>2, <4>5 DEF Trace!Enter, Trace!Kept, Trace!Fits
      <4> QED
        BY <4>4, <4>5
    <3>6. \A s \in probed' : chowncall'[s] \in {None, [thread |-> s, call |-> calls'[s]]}
      BY <3>3, <3>4, <3>5
    <3> QED
      BY <3>1, <3>2, <3>3, <3>6
  <2>4. ASSUME NEW t \in Trace!Threads, Trace!Return(t) PROVE ProbesInv'
    <3>1. UNCHANGED calls /\ probed' = probed \ {t} /\ inside' = inside \ {t}
      BY <2>4 DEF Trace!Return
    <3>2. CASE chowncall[t] = None
      BY <2>4, <3>1, <3>2 DEF Trace!Return
    <3>3. CASE chowncall[t] # None
      <4>1. chowncall[t] = [thread |-> t, call |-> calls[t]]
        BY <2>4, <3>3 DEF Trace!Return
      <4>2. events' = events \cup {[args |-> chowncall[t], ret |-> [thread |-> t, call |-> calls[t]]]}
        BY <2>4, <3>3 DEF Trace!Return
      <4>3. \A e \in events' : e.args = e.ret
        BY <4>1, <4>2
      <4>4. chowncall' = [chowncall EXCEPT ![t] = None]
        BY <2>4, <3>3 DEF Trace!Return
      <4> QED
        BY <3>1, <4>3, <4>4
    <3> QED
      BY <3>2, <3>3
  <2>5. ASSUME NEW t \in Trace!Threads, Trace!ReturnUnseen(t) PROVE ProbesInv'
    BY <2>5 DEF Trace!ReturnUnseen
  <2>6. CASE UNCHANGED trace
    BY <2>6 DEF trace
  <2> QED
    BY <2>1, <2>2, <2>3, <2>4, <2>5, <2>6 DEF Trace!Next
<1> QED
  BY <1>1, <1>2, PTL DEF Spec

\* The arguments and the return value of an event are those of one call, for
\* any number of processes and threads and any size of the map.
THEOREM EventsJoinOneCall == Spec => []EventIsOneCall
<1>1. TraceInv => EventIsOneCall
  BY DEF TraceInv, ProbesInv, EventIsOneCall, Trace!EventIsOneCall
<1> QED
  BY <1>1, TraceInvariance, PTL

-----------------------------------------------------------------------------
(* vault-secrets.                                                          *)

\* The rows of a title that the loop has written.
Seen(t) == {i \in Vault!Rows(t) : i <= pos}

\* Vault has, for every title that the loop has come by, the last row of it.
RowsInv ==
  \A t \in Titles :
    \/ Seen(t) = {}
    \/ \E i \in Seen(t) : (\A j \in Seen(t) : j <= i) /\ vault[t] = records[i]

FileInv ==
  /\ vault = [t \in Titles |-> vault[t]]
  /\ ipc \in {"off", "loop", "failed", "done"}
  /\ ipc \in {"loop", "done"} => records \in Files /\ pos \in Nat /\ RowsInv
  /\ ipc = "done" => pos >= Len(records)

VaultInv == program = "vault-secrets" => FileInv

\* The shared map holds the record, and nothing else, when it is written.
LEMMA FilledIsRecord ==
  ASSUME records \in Files, NEW i \in 1..Len(records), i = pos + 1
  PROVE  Vault!Filled = records[i]
<1>1. records[i] \in [Fields -> Values]
  BY ProgramsAssumption DEF Vault!ImportAssumption
<1> QED
  BY <1>1 DEF Vault!Filled, Vault!Set, Vault!Record

\* A row that is written is the last one of its title so far.
LEMMA WriteKeepsRows ==
  ASSUME FileInv, Vault!Write PROVE RowsInv'
<1>1. /\ ipc = "loop" /\ pos > 0 /\ pos < Len(records) /\ pos' = pos + 1 /\ records' = records
      /\ vault' = Vault!Written
  BY DEF Vault!Write, Vault!AtRecord
<1>2. records \in Files /\ pos \in Nat /\ RowsInv /\ Len(records) \in Nat
  BY <1>1, ProgramsAssumption DEF FileInv, Vault!ImportAssumption
<1> DEFINE row == pos + 1
<1>3. row \in 2..Len(records) /\ vault' = [vault EXCEPT ![records[row]["Title"]] = records[row]]
  <2>1. row \in 2..Len(records) /\ row \in 1..Len(records)
    BY <1>1, <1>2
  <2>2. Vault!Filled = records[row] /\ Vault!Record = records[row]
    BY <1>2, <2>1, FilledIsRecord DEF Vault!Record
  <2> QED
    BY <1>1, <2>1, <2>2 DEF Vault!Written
<1>4. \A t \in Titles : Vault!Rows(t)' = Vault!Rows(t)
  BY <1>1 DEF Vault!Rows
<1> SUFFICES ASSUME NEW t \in Titles
             PROVE  \/ Seen(t)' = {}
                    \/ \E i \in Seen(t)' : (\A j \in Seen(t)' : j <= i) /\ vault'[t] = records[i]
  BY <1>1 DEF RowsInv
<1>5. CASE records[row]["Title"] = t
  <2>1. row \in Seen(t)' /\ \A j \in Seen(t)' : j <= row
    BY <1>1, <1>3, <1>4, <1>5 DEF Seen, Vault!Rows
  <2>2. vault'[t] = records[row]
    BY <1>3, <1>5 DEF FileInv
  <2> QED
    BY <2>1, <2>2
<1>6. CASE records[row]["Title"] # t
  <2>1. \A i \in Vault!Rows(t) : i <= row <=> i <= pos
    BY <1>2, <1>6 DEF Vault!Rows
  <2>2. Seen(t)' = Seen(t)
    BY <1>1, <1>4, <2>1 DEF Seen
  <2>3. vault'[t] = vault[t]
    BY <1>3, <1>6 DEF FileInv
  <2> QED
    BY <1>2, <2>2, <2>3 DEF RowsInv
<1> QED
  BY <1>5, <1>6

\* Every step of a run, and every new run, keeps it.
THEOREM VaultInvariance == Spec => []VaultInv
<1>1. Init => VaultInv
  BY DEF Init, VaultInv, Vault!Init, FileInv
<1>2. VaultInv /\ [Next]_all => VaultInv'
  <2> SUFFICES ASSUME FileInv, Vault!Next \/ UNCHANGED import PROVE FileInv'
    BY DEF VaultInv, Next, all
  <2>0. ASSUME NEW v, vault' = [vault EXCEPT ![Vault!Record["Title"]] = v]
        PROVE  vault' = [t \in Titles |-> vault'[t]]
    BY <2>0 DEF FileInv
  <2>1. CASE Vault!Start
    <3>1. records' \in Files /\ pos' = 0 /\ ipc' = "loop" /\ vault' = vault
      BY <2>1 DEF Vault!Start
    <3>2. \A t \in Titles : Seen(t)' = {}
      BY <3>1 DEF Seen, Vault!Rows
    <3> QED
      BY <3>1, <3>2 DEF FileInv, RowsInv
  <2>2. CASE Vault!Skip
    <3>1. pos = 0 /\ pos' = 1 /\ ipc = "loop" /\ UNCHANGED <<ipc, records, vault>>
      BY <2>2 DEF Vault!Skip
    <3>2. \A t \in Titles : Seen(t)' = {}
      BY <3>1 DEF Seen, Vault!Rows
    <3> QED
      BY <3>1, <3>2 DEF FileInv, RowsInv
  <2>3. CASE Vault!Write
    <3>1. ipc = "loop" /\ pos' = pos + 1 /\ UNCHANGED <<ipc, records>>
      BY <2>3 DEF Vault!Write, Vault!AtRecord
    <3>2. vault' = [t \in Titles |-> vault'[t]]
      BY <2>3, <2>0, ZenonT(30) DEF Vault!Write, Vault!Written
    <3> QED
      BY <2>3, <3>1, <3>2, WriteKeepsRows DEF FileInv
  <2>4. CASE Vault!WriteFails
    <3>1. ipc' = "failed" /\ vault' \in {vault, Vault!Written}
      BY <2>4 DEF Vault!WriteFails
    <3>2. vault' = [t \in Titles |-> vault'[t]]
      BY <3>1, <2>0 DEF Vault!Written, FileInv
    <3> QED
      BY <3>1, <3>2 DEF FileInv
  <2>5. CASE Vault!Finish
    BY <2>5 DEF Vault!Finish, FileInv, RowsInv, Seen, Vault!Rows
  <2>6. CASE UNCHANGED import
    BY <2>6 DEF import, FileInv, RowsInv, Seen, Vault!Rows
  <2> QED
    BY <2>1, <2>2, <2>3, <2>4, <2>5, <2>6 DEF Vault!Next
<1> QED
  BY <1>1, <1>2, PTL DEF Spec

\* A run that ends well leaves the last row of every title in Vault, whole,
\* for any files and any fields, and whatever runs there were before.
THEOREM ImportIsComplete == Spec => []ImportComplete
<1>1. VaultInv => ImportComplete
  <2> SUFFICES ASSUME FileInv, ipc = "done", NEW t \in Titles, Vault!Rows(t) # {}
               PROVE  \E i \in Vault!Rows(t) : (\A j \in Vault!Rows(t) : j <= i) /\ vault[t] = records[i]
    BY DEF VaultInv, ImportComplete, Vault!ImportComplete
  <2>1. RowsInv /\ pos \in Nat /\ pos >= Len(records) /\ Len(records) \in Nat
    BY ProgramsAssumption DEF FileInv, Vault!ImportAssumption
  <2>2. Seen(t) = Vault!Rows(t)
    BY <2>1 DEF Seen, Vault!Rows
  <2> QED
    BY <2>1, <2>2 DEF RowsInv
<1> QED
  BY <1>1, VaultInvariance, PTL

-----------------------------------------------------------------------------
(* bloomfilter-explore.                                                    *)

\* The hash functions are reset between operations, and every added item has
\* all its bits set at the positions of its plain digests.
FilterInv ==
  /\ digest \in [Elements -> [Bloom!Funcs -> Digests]]
  /\ residue = [i \in Bloom!Funcs |-> 0]
  /\ bitset \in [Bloom!Positions -> BOOLEAN]
  /\ added \subseteq Elements
  /\ \A x \in added, i \in Bloom!Funcs : bitset[digest[x][i] % M]

BloomInv == program = "bloomfilter-explore" => FilterInv

\* Digests are mapped into the bitset.
LEMMA PositionInBitset ==
  ASSUME FilterInv, NEW x \in Elements, NEW i \in Bloom!Funcs
  PROVE  Bloom!Position(x, i) = digest[x][i] % M /\ Bloom!Position(x, i) \in Bloom!Positions
<1> USE ProgramsAssumption DEF Bloom!FilterAssumption
<1>1. digest[x][i] \in Nat
  BY ZenonT(30) DEF FilterInv
<1>2. Bloom!Sum64(x, i) = digest[x][i]
  BY <1>1 DEF FilterInv, Bloom!Sum64
<1>3. digest[x][i] % M \in 0..(M - 1)
  BY <1>1
<1> QED
  BY <1>2, <1>3 DEF Bloom!Position, Bloom!Positions

\* Adding sets bits and clears none; both operations leave the functions reset.
THEOREM BloomInvariance == Spec => []BloomInv
<1> USE ProgramsAssumption DEF Bloom!FilterAssumption
<1>1. Init => BloomInv
  <2> SUFFICES ASSUME Bloom!Init PROVE FilterInv
    BY DEF Init, BloomInv
  <2>1. bitset \in [Bloom!Positions -> BOOLEAN]
    BY ZenonT(30) DEF Bloom!Init
  <2> QED
    BY <2>1 DEF Bloom!Init, FilterInv
<1>2. BloomInv /\ [Next]_all => BloomInv'
  <2> SUFFICES ASSUME FilterInv, Bloom!Next \/ UNCHANGED bloom PROVE FilterInv'
    BY DEF BloomInv, Next, all
  <2>1. ASSUME NEW x \in Elements, Bloom!Add(x) PROVE FilterInv'
    <3>1. digest' = digest /\ residue' = [i \in Bloom!Funcs |-> 0]
      BY <2>1 DEF Bloom!Add, Bloom!Reset
    <3>2. bitset' \in [Bloom!Positions -> BOOLEAN]
      BY <2>1, ZenonT(30) DEF Bloom!Add
    <3>3. \A p \in Bloom!Positions : bitset[p] => bitset'[p]
      BY <2>1, ZenonT(30) DEF Bloom!Add
    <3>4. added' = added \cup {x} /\ added' \subseteq Elements
      BY <2>1 DEF Bloom!Add, FilterInv
    <3>5. ASSUME NEW i \in Bloom!Funcs PROVE bitset'[digest[x][i] % M]
      BY <2>1, PositionInBitset, ZenonT(30) DEF Bloom!Add
    <3>6. ASSUME NEW y \in added, NEW i \in Bloom!Funcs PROVE bitset'[digest[y][i] % M]
      <4>1. y \in Elements /\ bitset[digest[y][i] % M]
        BY DEF FilterInv
      <4>2. digest[y][i] % M \in Bloom!Positions
        BY <4>1, PositionInBitset
      <4> QED
        BY <4>1, <4>2, <3>3
    <3>7. \A y \in added', i \in Bloom!Funcs : bitset'[digest'[y][i] % M]
      BY <3>1, <3>4, <3>5, <3>6
    <3> QED
      BY <3>1, <3>2, <3>4, <3>7 DEF FilterInv
  <2>2. ASSUME NEW x \in Elements, Bloom!TestIsPresent(x) PROVE FilterInv'
    BY <2>2 DEF Bloom!TestIsPresent, Bloom!Reset, FilterInv
  <2>3. CASE UNCHANGED bloom
    BY <2>3 DEF bloom, FilterInv
  <2> QED
    BY <2>1, <2>2, <2>3 DEF Bloom!Next
<1> QED
  BY <1>1, <1>2, PTL DEF Spec

\* An item that was added is never reported missing, whatever the hash
\* functions, the size of the bitset and the operations since.
THEOREM NothingIsMissed == Spec => []NoFalseNegatives
<1>1. BloomInv => NoFalseNegatives
  <2> SUFFICES ASSUME FilterInv, NEW x \in added, NEW i \in Bloom!Funcs PROVE bitset[Bloom!Position(x, i)]
    BY DEF BloomInv, NoFalseNegatives, Bloom!NoFalseNegatives, Bloom!Present
  <2>1. x \in Elements
    BY DEF FilterInv
  <2> QED
    BY <2>1, PositionInBitset DEF FilterInv
<1> QED
  BY <1>1, BloomInvariance, PTL
=============================================================================
