---------------------------- MODULE ResolverRing ----------------------------
(***************************************************************************)
(* The queue between the query handlers and the resolver threads of jojo:  *)
(* the buffered channel resolverRing, eviction of the oldest request when  *)
(* it is full, and the unbuffered channel on which each handler waits for  *)
(* its response.  A request is named by its handler.                       *)
(***************************************************************************)
EXTENDS Naturals, Sequences

CONSTANTS
  Handlers,     \* goroutines of route, one query each at a time
  Threads,      \* goroutines of resolverThread
  MaxClients,   \* capacity of resolverRing
  NoRequest

ASSUME RingAssumption ==
  /\ MaxClients \in Nat \ {0}
  /\ NoRequest \notin Handlers

VARIABLES
  ring,    \* resolverRing
  hpc,     \* where a handler is in resolveViaResolverThreads
  old,     \* the request a handler has taken out to evict
  tpc,     \* where a resolver thread is
  job      \* queuedRequest of a resolver thread

vars == <<ring, hpc, old, tpc, job>>

Init ==
  /\ ring = <<>>
  /\ hpc = [h \in Handlers |-> "idle"] /\ old = [h \in Handlers |-> NoRequest]
  /\ tpc = [t \in Threads |-> "take"] /\ job = [t \in Threads |-> NoRequest]

-----------------------------------------------------------------------------
(* A handler.                                                              *)

\* A query that neither the cache nor slip answers.
Arrive(h) ==
  /\ hpc[h] = "idle"
  /\ hpc' = [hpc EXCEPT ![h] = "enqueue"]
  /\ UNCHANGED <<ring, old, tpc, job>>

HasSpace == Len(ring) < MaxClients

\* The select: the request goes into the ring ...
Enqueue(h) ==
  /\ hpc[h] = "enqueue" /\ HasSpace
  /\ ring' = Append(ring, h)
  /\ hpc' = [hpc EXCEPT ![h] = "wait"]
  /\ UNCHANGED <<old, tpc, job>>

\* ... or the ring is full, and the default branch is taken.
RingFull(h) ==
  /\ hpc[h] = "enqueue" /\ ~HasSpace
  /\ hpc' = [hpc EXCEPT ![h] = "evict"]
  /\ UNCHANGED <<ring, old, tpc, job>>

\* Mutant: the oldest request is read and left in the ring.
Taken_Peeked == ring

\* What a receive leaves in the ring.
Taken == Tail(ring)

\* The receive of the default branch, which waits when resolver threads have
\* emptied the ring in the meantime.
Evict(h) ==
  /\ hpc[h] = "evict" /\ ring # <<>>
  /\ old' = [old EXCEPT ![h] = Head(ring)]
  /\ ring' = Taken
  /\ hpc' = [hpc EXCEPT ![h] = "answer"]
  /\ UNCHANGED <<tpc, job>>

\* Mutant: the evicted request gets no response.
AnswerEvicted_Forgotten(h) ==
  /\ hpc[h] = "answer"
  /\ hpc' = [hpc EXCEPT ![h] = "enqueue"]
  /\ old' = [old EXCEPT ![h] = NoRequest]
  /\ UNCHANGED <<ring, tpc, job>>

\* The send of "Evicted" meets the receive of the evicted handler.
AnswerEvicted(h) ==
  /\ hpc[h] = "answer" /\ hpc[old[h]] = "wait"
  /\ hpc' = [hpc EXCEPT ![h] = "enqueue", ![old[h]] = "idle"]
  /\ old' = [old EXCEPT ![h] = NoRequest]
  /\ UNCHANGED <<ring, tpc, job>>

-----------------------------------------------------------------------------
(* A resolver thread.                                                      *)

\* The request may turn out to be too old; it is answered in either case.
Take(t) ==
  /\ tpc[t] = "take" /\ ring # <<>>
  /\ job' = [job EXCEPT ![t] = Head(ring)]
  /\ ring' = Taken
  /\ \E next \in {"tooOld", "resolve"} : tpc' = [tpc EXCEPT ![t] = next]
  /\ UNCHANGED <<hpc, old>>

\* syncResolve ends, with an answer, an error or its timeouts.
Resolve(t) ==
  /\ tpc[t] = "resolve"
  /\ tpc' = [tpc EXCEPT ![t] = "respond"]
  /\ UNCHANGED <<ring, hpc, old, job>>

\* Mutant: a request that is too old is dropped without a response.
Respond_OldDropped(t) ==
  /\ tpc[t] \in {"tooOld", "respond"} /\ hpc[job[t]] = "wait"
  /\ hpc' = IF tpc[t] = "tooOld" THEN hpc ELSE [hpc EXCEPT ![job[t]] = "idle"]
  /\ tpc' = [tpc EXCEPT ![t] = "take"]
  /\ job' = [job EXCEPT ![t] = NoRequest]
  /\ UNCHANGED <<ring, old>>

\* The send on responseChan meets the receive of the handler; the channel is
\* closed, and the handler of a too old request counts as a slip.
Respond(t) ==
  /\ tpc[t] \in {"tooOld", "respond"} /\ hpc[job[t]] = "wait"
  /\ hpc' = [hpc EXCEPT ![job[t]] = "idle"]
  /\ tpc' = [tpc EXCEPT ![t] = "take"]
  /\ job' = [job EXCEPT ![t] = NoRequest]
  /\ UNCHANGED <<ring, old>>

HandlerStep(h) == Enqueue(h) \/ RingFull(h) \/ AnswerEvicted(h)

ThreadStep(t) == Take(t) \/ Resolve(t) \/ Respond(t)

Next ==
  \/ \E h \in Handlers : Arrive(h) \/ HandlerStep(h) \/ Evict(h)
  \/ \E t \in Threads : ThreadStep(t)

Spec == Init /\ [][Next]_vars

\* Goroutines are scheduled, a channel serves its waiting receivers in turn,
\* and queries keep coming.
FairSpec ==
  /\ Spec
  /\ \A h \in Handlers :
       WF_vars(Arrive(h)) /\ WF_vars(HandlerStep(h)) /\ SF_vars(Evict(h))
  /\ \A t \in Threads : SF_vars(Take(t)) /\ WF_vars(Resolve(t)) /\ WF_vars(Respond(t))

-----------------------------------------------------------------------------
(* Properties.                                                             *)

TypeOK ==
  /\ ring \in Seq(Handlers) /\ Len(ring) <= MaxClients
  /\ hpc \in [Handlers -> {"idle", "enqueue", "evict", "answer", "wait"}]
  /\ old \in [Handlers -> Handlers \cup {NoRequest}]
  /\ tpc \in [Threads -> {"take", "tooOld", "resolve", "respond"}]
  /\ job \in [Threads -> Handlers \cup {NoRequest}]

\* Where request h is held: places of the ring, evicting handlers, threads.
Holders(h) ==
  {<<"ring", i>> : i \in {j \in 1..Len(ring) : ring[j] = h}}
    \cup {<<"evictor", g>> : g \in {e \in Handlers : old[e] = h}}
    \cup {<<"thread", t>> : t \in {u \in Threads : job[u] = h}}

\* A waiting handler will be sent one response, and a response is only on its
\* way to a waiting handler: whoever takes a request out of the ring is alone
\* in answering it, so no send blocks for ever and no closed channel is used.
OneAnswerEach ==
  \A h \in Handlers :
    /\ hpc[h] = "wait" => \E x \in Holders(h) : Holders(h) = {x}
    /\ hpc[h] # "wait" => Holders(h) = {}

\* A request that was queued is answered, be it resolved, refused as too old
\* or evicted.
QueuedIsAnswered == \A h \in Handlers : hpc[h] = "wait" ~> hpc[h] = "idle"

\* As long as queries keep coming, a handler that has to evict is not left
\* waiting on a ring that the resolver threads have drained.
EvictorProceeds == \A h \in Handlers : hpc[h] = "evict" ~> hpc[h] # "evict"
=============================================================================
