--------------------------- MODULE UpstreamServers --------------------------
(***************************************************************************)
(* The table of upstream servers of jojo: resolver threads pick a live     *)
(* server and report failures under the lock, while the vacuum thread      *)
(* probes the servers and writes their entries without it.  Every slice    *)
(* called "servers" in the code has the same backing array.                *)
(***************************************************************************)
EXTENDS Naturals, FiniteSets

CONSTANTS
  NumServers,    \* servers named by -upstream, in that order
  Resolvers,     \* goroutines of resolverThread
  MaxFailures,   \* -maxfailures
  MaxChanges     \* bound on how often servers go up or down

ASSUME UpstreamAssumption ==
  /\ NumServers \in Nat \ {0}
  /\ MaxFailures \in Nat \ {0}
  /\ MaxChanges \in Nat

Servers == 1..NumServers
None == 0

VARIABLES
  failures, offline,   \* of each entry of upstreamServers.servers
  live,                \* upstreamServers.live
  marking,             \* the thread that holds the lock in markFailed
  picked,              \* the server a thread has asked, or None
  ppc,                 \* where probeUpstreamServers is
  idx,                 \* the entry it looks at
  found,               \* its local variable live
  started,             \* the resolver threads run
  status,              \* what a server is like (external)
  probeFailed,         \* history: the last probe of a server got no answer
  changes

table == <<failures, offline, live>>
probe == <<ppc, idx, found, started, probeFailed>>
serversVars == <<table, marking, picked, probe, status, changes>>

Unlocked == [by |-> None, pc |-> "none", n |-> 0]

LockFree == marking = Unlocked

\* Waiting for the server's answer.
Asking(t) == picked[t] # None /\ marking.by # t

\* main probes once before it starts the resolver threads.
ServersInit ==
  /\ failures = [s \in Servers |-> 0] /\ offline = [s \in Servers |-> FALSE]
  /\ live = Servers
  /\ marking = Unlocked /\ picked = [t \in Resolvers |-> None]
  /\ ppc = "next" /\ idx = 1 /\ found = {} /\ started = FALSE
  /\ status \in [Servers -> {"up", "slow", "down"}]
  /\ probeFailed = [s \in Servers |-> FALSE]
  /\ changes = 0

-----------------------------------------------------------------------------
(* syncResolve.                                                            *)

\* pickUpstream: the name decides, so it may be any live server.
PickUpstream(t) ==
  /\ started /\ picked[t] = None /\ LockFree
  /\ \E s \in live : picked' = [picked EXCEPT ![t] = s]
  /\ UNCHANGED <<table, marking, probe, status, changes>>

\* resetUpstreamServersNoLock
Reset ==
  IF Cardinality(live) = NumServers
  THEN UNCHANGED table
  ELSE /\ failures' = [s \in Servers |-> 0] /\ offline' = [s \in Servers |-> FALSE]
       /\ live' = Servers

\* The servers that stay when s is marked offline.
OthersOnline(s) == {r \in Servers \ {s} : ~offline[r]}

\* Failures beyond the limit are not told apart.
Counted(n) == IF n < MaxFailures THEN n + 1 ELSE MaxFailures

\* markFailed holds the lock, but the probe writes entries without it: the
\* failures are read, written back, and judged in separate steps.
MarkFailed(t) ==
  /\ LockFree
  /\ IF offline[picked[t]] THEN marking' = marking /\ picked' = [picked EXCEPT ![t] = None]
     ELSE marking' = [by |-> t, pc |-> "count", n |-> failures[picked[t]]] /\ picked' = picked
  /\ UNCHANGED <<table, probe, status, changes>>

CountFailure(t) ==
  /\ marking.by = t /\ marking.pc = "count"
  /\ failures' = [failures EXCEPT ![picked[t]] = Counted(marking.n)]
  /\ IF Counted(marking.n) < MaxFailures
     THEN marking' = Unlocked /\ picked' = [picked EXCEPT ![t] = None]
     ELSE marking' = [marking EXCEPT !.pc = "judge"] /\ picked' = picked
  /\ UNCHANGED <<offline, live, probe, status, changes>>

\* The last live server is not marked: all the servers are tried again.
JudgeServer(t) ==
  /\ marking.by = t /\ marking.pc = "judge"
  /\ \/ /\ Cardinality(live) <= 1
        /\ Reset
     \/ /\ Cardinality(live) > 1
        /\ offline' = [offline EXCEPT ![picked[t]] = TRUE]
        /\ live' = OthersOnline(picked[t])
        /\ UNCHANGED failures
  /\ marking' = Unlocked /\ picked' = [picked EXCEPT ![t] = None]
  /\ UNCHANGED <<probe, status, changes>>

\* The exchange fails over UDP and TCP, or succeeds while the mean RTT, to
\* which all servers contribute, is too high.
Failed(t) == Asking(t) /\ MarkFailed(t)

\* An answer, the mean RTT being low enough.
Answered(t) ==
  /\ Asking(t) /\ status[picked[t]] # "down"
  /\ picked' = [picked EXCEPT ![t] = None]
  /\ UNCHANGED <<table, marking, probe, status, changes>>

-----------------------------------------------------------------------------
(* probeUpstreamServers.                                                   *)

ProbeStart ==
  /\ ppc = "idle" /\ LockFree
  /\ ppc' = "next" /\ idx' = 1 /\ found' = {}
  /\ UNCHANGED <<table, marking, picked, started, probeFailed, status, changes>>

\* Mutant: a server that is assumed to be online is not collected.
Assumed_Dropped == {}

\* What is collected of a server that is assumed to be online.
Assumed == {idx}

AssumeOnline ==
  /\ ppc = "next" /\ idx <= NumServers
  /\ ~offline[idx] /\ failures[idx] > 0
  /\ found' = found \cup Assumed /\ idx' = idx + 1
  /\ UNCHANGED <<table, marking, picked, ppc, started, probeFailed, status, changes>>

\* Mutant: a server that is offline is not probed.
IsProbed_OnlineOnly == ~offline[idx]

\* The entry is looked at before the exchange, and written after it.
IsProbed == offline[idx] \/ failures[idx] = 0

StartExchange ==
  /\ ppc = "next" /\ idx <= NumServers
  /\ IsProbed
  /\ ppc' = "exchange"
  /\ UNCHANGED <<table, marking, picked, idx, found, started, probeFailed, status, changes>>

ExchangeFailed ==
  /\ ppc = "exchange" /\ status[idx] # "up"
  /\ probeFailed' = [probeFailed EXCEPT ![idx] = TRUE]
  /\ idx' = idx + 1 /\ ppc' = "next"
  /\ UNCHANGED <<table, marking, picked, found, started, status, changes>>

\* The two writes to the entry, without the lock.
ExchangeDone ==
  /\ ppc = "exchange" /\ status[idx] = "up"
  /\ offline' = [offline EXCEPT ![idx] = FALSE]
  /\ ppc' = "clear"
  /\ UNCHANGED <<failures, live, marking, picked, idx, found, started, probeFailed, status, changes>>

ClearFailures ==
  /\ ppc = "clear"
  /\ failures' = [failures EXCEPT ![idx] = 0]
  /\ found' = found \cup {idx}
  /\ probeFailed' = [probeFailed EXCEPT ![idx] = FALSE]
  /\ idx' = idx + 1 /\ ppc' = "next"
  /\ UNCHANGED <<offline, live, marking, picked, started, status, changes>>

ProbeEnd ==
  /\ ppc = "next" /\ idx > NumServers /\ LockFree
  /\ live' = found
  /\ ppc' = "idle" /\ found' = {} /\ idx' = 1
  /\ started' = TRUE
  /\ UNCHANGED <<failures, offline, marking, picked, probeFailed, status, changes>>

\* A server goes up, gets slow or goes down (external).
ServerChanges(s) ==
  /\ changes < MaxChanges
  /\ changes' = changes + 1
  /\ \E x \in {"up", "slow", "down"} \ {status[s]} : status' = [status EXCEPT ![s] = x]
  /\ UNCHANGED <<table, marking, picked, probe>>

ProbeStep ==
  \/ ProbeStart \/ AssumeOnline \/ StartExchange \/ ExchangeFailed \/ ExchangeDone
  \/ ClearFailures \/ ProbeEnd

LockedStep(t) == CountFailure(t) \/ JudgeServer(t)

ServersNext ==
  \/ \E t \in Resolvers : PickUpstream(t) \/ Answered(t) \/ Failed(t) \/ LockedStep(t)
  \/ ProbeStep
  \/ \E s \in Servers : ServerChanges(s)

ServersSpec == ServersInit /\ [][ServersNext]_serversVars

\* The vacuum thread probes every VacuumPeriod, each exchange ends, and the
\* lock, which sync.RWMutex keeps from starving, is released.
ServersFairSpec ==
  /\ ServersSpec /\ SF_serversVars(ProbeStep)
  /\ \A t \in Resolvers : WF_serversVars(LockedStep(t))

-----------------------------------------------------------------------------
(* Properties.                                                             *)

ServersTypeOK ==
  /\ failures \in [Servers -> 0..MaxFailures] /\ offline \in [Servers -> BOOLEAN]
  /\ live \subseteq Servers
  /\ marking.by \in Resolvers \cup {None} /\ marking.pc \in {"none", "count", "judge"}
  /\ marking.n \in 0..MaxFailures
  /\ picked \in [Resolvers -> Servers \cup {None}]
  /\ ppc \in {"idle", "next", "exchange", "clear"} /\ idx \in 1..NumServers+1
  /\ found \subseteq Servers /\ started \in BOOLEAN
  /\ status \in [Servers -> {"up", "slow", "down"}]
  /\ probeFailed \in [Servers -> BOOLEAN] /\ changes \in 0..MaxChanges

\* Outside a probe, a server that gets no queries is considered offline or
\* did not answer its last probe: markFailed and probeUpstreamServers, however
\* they interleave, lose no working server from the list.
OnlyDeadServersUnused ==
  ppc = "idle" => \A s \in Servers \ live : offline[s] \/ probeFailed[s]

\* A server that works for good is used again and again, even if it was
\* marked as failed: every probe gives it another chance.
WorkingServerIsUsed ==
  \A s \in Servers : <>[](status[s] = "up") => []<>(s \in live)

\* "Number of unanswered queries before a server is temporarily considered
\* offline": outside a probe, no queries go to a server considered offline.
OfflineNotLive == ppc = "idle" => \A s \in live : ~offline[s]
=============================================================================
