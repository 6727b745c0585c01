----------------------------- MODULE ChownTrace -----------------------------
(***************************************************************************)
(* gobpf-explore: the probe at the entry of fchownat keeps the arguments   *)
(* in a hash map, the probe at its return joins them with the return value *)
(* and hands the event to the program, which attaches the two probes one   *)
(* after the other.  Threads call fchownat at any time.                    *)
(***************************************************************************)
EXTENDS Naturals, FiniteSets

CONSTANTS
  Procs, Tids,   \* a thread is a process and a number in it
  MapSize,       \* entries that chowncall holds
  MaxCalls,      \* bound on the calls of a thread
  None

TraceAssumption == MapSize \in Nat /\ MaxCalls \in Nat

Threads == Procs \X Tids

VARIABLES
  attached,   \* "none", "kprobe", "both" or "closed"
  calls,      \* the number of the last call of a thread
  inside,     \* threads in fchownat
  probed,     \* those whose return is probed
  chowncall,  \* the arguments kept under each key: thread and number of a call
  events      \* submitted, not printed yet

vars == <<attached, calls, inside, probed, chowncall, events>>

\* Mutant: only the process is used.
KeyOf_Process(t) == <<t[1], CHOOSE i \in Tids : TRUE>>

\* bpf_get_current_pid_tgid()
KeyOf(t) == t

Init ==
  /\ attached = "none"
  /\ calls = [t \in Threads |-> 0] /\ inside = {} /\ probed = {}
  /\ chowncall = [k \in Threads |-> None] /\ events = {}

\* main; a step that fails ends the program, and the kernel detaches the probes.
AttachKprobe ==
  /\ attached = "none" /\ attached' = "kprobe"
  /\ UNCHANGED <<calls, inside, probed, chowncall, events>>

AttachKretprobe ==
  /\ attached = "kprobe" /\ attached' = "both"
  /\ UNCHANGED <<calls, inside, probed, chowncall, events>>

\* An error, or the signal: the module is closed, map and events are gone.
Close ==
  /\ attached # "closed" /\ attached' = "closed"
  /\ chowncall' = [k \in Threads |-> None] /\ events' = {} /\ probed' = {}
  /\ UNCHANGED <<calls, inside>>

\* Without room for another entry chowncall.update does nothing (external).
Fits(k) ==
  \/ chowncall[k] # None
  \/ Cardinality({j \in Threads : chowncall[j] # None}) < MapSize

Kept(t, call) ==
  IF attached \in {"kprobe", "both"} /\ Fits(KeyOf(t))
  THEN [chowncall EXCEPT ![KeyOf(t)] = [thread |-> t, call |-> call]]
  ELSE chowncall

\* kprobe__sys_fchownat.  A return probe has to be in place when the call
\* begins, and there may be too many calls under way for it (external).
Enter(t) ==
  /\ t \notin inside /\ calls[t] < MaxCalls
  /\ calls' = [calls EXCEPT ![t] = @ + 1] /\ inside' = inside \cup {t}
  /\ chowncall' = Kept(t, calls[t] + 1)
  /\ probed' \in {probed} \cup (IF attached = "both" THEN {probed \cup {t}} ELSE {})
  /\ UNCHANGED <<attached, events>>

\* kretprobe__sys_fchownat
Return(t) ==
  /\ t \in inside /\ t \in probed
  /\ inside' = inside \ {t} /\ probed' = probed \ {t}
  /\ LET eventp == chowncall[KeyOf(t)] IN
       \/ eventp = None /\ UNCHANGED <<chowncall, events>>
       \/ /\ eventp # None
          /\ events' = events \cup {[args |-> eventp, ret |-> [thread |-> t, call |-> calls[t]]]}
          /\ chowncall' = [chowncall EXCEPT ![KeyOf(t)] = None]
  /\ UNCHANGED <<attached, calls>>

ReturnUnseen(t) ==
  /\ t \in inside /\ t \notin probed
  /\ inside' = inside \ {t}
  /\ UNCHANGED <<attached, calls, probed, chowncall, events>>

\* The goroutine of main prints an event, or the perf buffer has lost it.
Receive ==
  /\ \E e \in events : events' = events \ {e}
  /\ UNCHANGED <<attached, calls, inside, probed, chowncall>>

Next ==
  \/ AttachKprobe \/ AttachKretprobe \/ Close \/ Receive
  \/ \E t \in Threads : Enter(t) \/ Return(t) \/ ReturnUnseen(t)

Spec == Init /\ [][Next]_vars

-----------------------------------------------------------------------------
(* Properties.                                                             *)

\* The arguments and the return value of an event are those of one call,
\* although calls overlap, returns go unseen while the probes are being
\* attached, and the map may be full.
EventIsOneCall == \A e \in events : e.args = e.ret
=============================================================================
