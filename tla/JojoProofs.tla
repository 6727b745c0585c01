----------------------------- MODULE JojoProofs -----------------------------
(* What goroutines of jojo share: the messages in the cache, for any       *)
(* number of handlers and of keys; the ring of requests, for any number of *)
(* handlers and threads and any capacity; and the table of upstream        *)
(* servers, for any number of servers and of resolver threads, however     *)
(* they interleave with the probe.                                         *)
EXTENDS ResolverRing, UpstreamServers, QueryRoute, TLAPS

\* The solvers that a leaf without one of its own tries in turn, with their time
\* limits in seconds.
USE SMTT(15), ZenonT(20), SMTT(30), SMTT(60), SMTT(120)

-----------------------------------------------------------------------------
(* Messages and the cache.                                                 *)

\* A handler that answers from the cache has a message of its own, with the id
\* of its query; any other message it holds came from upstream.
Proper(h) ==
  /\ stage[h] = "reply" => resp[h] = h /\ heap[h].id = h
  /\ stage[h] # "reply" => resp[h] \in Messages \cup {NoMessage}
  /\ stage[h] = "add" => resp[h] \in Messages
  /\ stage[h] # "none" => key[h] \in Keys

OwnReplies == \A h \in Routes : Proper(h)

\* A valid entry has a message.
ValidEntries == \A k \in Keys : Valid(k) => cache[k].obj \in Messages

RouteInv == RouteTypeOK /\ OwnReplies /\ ValidEntries

\* getMinTTL returns a number of seconds.
LEMMA GetMinTTLType == \A answer \in Answers : \A ttl \in GetMinTTL(answer) : ttl \in Nat
<1> SUFFICES ASSUME NEW answer \in Answers PROVE \A ttl \in GetMinTTL(answer) : ttl \in Nat
  OBVIOUS
<1>1. answer \in Seq(Nat) /\ MaxTTL \in Nat
  BY RouteAssumption
<1>2. \A i \in 1..Len(answer) : answer[i] \in Nat
  BY <1>1
<1>3. Shortest(answer) \subseteq Nat
  BY <1>1, <1>2 DEF Shortest
<1> QED
  BY <1>3, RouteAssumption DEF GetMinTTL

\* What a step leaves of the heap.
Contents == [id : Routes \cup {NoMessage}, version : Nat]

Rewrites(o) ==
  /\ heap' \in [Objects -> Contents]
  /\ \A x \in Objects \ {o} : InUse(x) /\ InUse(x)' => heap'[x] = heap[x]

\* A step that writes one message, or none, leaves the others that are in use.
LEMMA PutRewrites ==
  ASSUME RouteTypeOK, NEW o, NEW m \in Contents, Put(o, m)
  PROVE  Rewrites(o)
BY DEF RouteTypeOK, Put, Rewrites, Contents, Free

LEMMA CollectRewrites ==
  ASSUME RouteTypeOK, Collect \/ UNCHANGED heap
  PROVE  Rewrites(NoMessage)
BY DEF RouteTypeOK, Collect, Rewrites, Contents, Free

\* A handler that answers from the cache keeps its message as long as no other
\* handler writes it, and none does.
LEMMA HandlersKept ==
  ASSUME RouteInv, NEW o, Rewrites(o), NEW h \in Routes, h # o,
         UNCHANGED <<stage[h], resp[h], key[h]>>
  PROVE  Proper(h)'
<1>1. CASE stage[h] = "reply"
  <2>1. resp[h] = h /\ resp'[h] = h /\ h \in Objects \ {o} /\ heap[h].id = h
    BY <1>1 DEF RouteInv, OwnReplies, Proper, Objects
  <2>2. InUse(h) /\ InUse(h)'
    BY <2>1 DEF InUse
  <2> QED
    BY <1>1, <2>1, <2>2 DEF Rewrites, RouteInv, OwnReplies, Proper
<1>2. CASE stage[h] # "reply"
  BY <1>2 DEF RouteInv, OwnReplies, Proper
<1> QED
  BY <1>1, <1>2

\* A handler answers from message o, of the cache or remembered from there.
LEMMA AnswerPreserves ==
  ASSUME RouteInv, NEW h \in Routes, NEW o \in Messages, AnswerFrom(h, o),
         \/ UNCHANGED key
         \/ \E k \in Keys : key' = [key EXCEPT ![h] = k],
         stage[h] # "none" \/ key'[h] \in Keys,
         UNCHANGED <<cache, zone>>
  PROVE  RouteInv'
<1> DEFINE m == [heap[o] EXCEPT !.id = h]
<1>1. m \in Contents /\ m.id = h
  BY DEF RouteInv, RouteTypeOK, Objects, Contents
<1> HIDE DEF m
<1>2. Put(h, m)
  BY DEF AnswerFrom, Copy, m
<1>3. Rewrites(h)
  BY <1>1, <1>2, PutRewrites DEF RouteInv
<1>4. /\ stage' = [stage EXCEPT ![h] = "reply"] /\ resp' = [resp EXCEPT ![h] = h]
      /\ known' = [known EXCEPT ![h] = NoMessage]
  BY DEF AnswerFrom, Copy
<1>5. RouteTypeOK'
  BY <1>3, <1>4 DEF RouteInv, RouteTypeOK, Rewrites, Contents, Objects
<1>6. heap'[h].id = h
  BY <1>1, <1>2 DEF Put, Objects
<1>7. \A g \in Routes \ {h} : UNCHANGED <<stage[g], resp[g], key[g]>>
  BY <1>4 DEF RouteInv, RouteTypeOK
<1>8. \A g \in Routes \ {h} : Proper(g)'
  BY <1>3, <1>7, HandlersKept
<1>9. stage'[h] = "reply" /\ resp'[h] = h /\ key'[h] \in Keys
  BY <1>4 DEF RouteInv, RouteTypeOK, OwnReplies, Proper
<1>10. Proper(h)'
  BY <1>6, <1>9 DEF Proper
<1>11. ValidEntries'
  BY DEF RouteInv, ValidEntries, Valid
<1> QED
  BY <1>5, <1>8, <1>10, <1>11 DEF RouteInv, OwnReplies

\* Steps that do not answer from the cache.
LEMMA OthersPreserve ==
  ASSUME RouteInv, RouteTypeOK', ValidEntries', NEW o, o \notin Routes, Rewrites(o),
         \A h \in Routes : Proper(h)' \/ UNCHANGED <<stage[h], resp[h], key[h]>>
  PROVE  RouteInv'
<1>1. ASSUME NEW h \in Routes PROVE Proper(h)'
  <2>1. h # o
    OBVIOUS
  <2>2. CASE UNCHANGED <<stage[h], resp[h], key[h]>>
    BY <2>1, <2>2, HandlersKept
  <2> QED
    BY <2>2
<1> QED
  BY <1>1 DEF RouteInv, OwnReplies

\* The handler returns, and the rest of what happens is described by heap,
\* cache and zone.
LEMMA DoneIsProper ==
  ASSUME RouteTypeOK, NEW h \in Routes, Done(h)
  PROVE  /\ stage' \in [Routes -> {"none", "miss", "resolve", "reply", "add", "forward"}]
         /\ key' \in [Routes -> Keys \cup {NoMessage}]
         /\ known' \in [Routes -> Messages \cup {NoMessage}]
         /\ resp' \in [Routes -> Objects \cup {NoMessage}]
         /\ \A g \in Routes : Proper(g)' \/ UNCHANGED <<stage[g], resp[g], key[g]>>
<1>1. Proper(h)'
  BY DEF RouteTypeOK, Done, Proper
<1>2. \A g \in Routes \ {h} : UNCHANGED <<stage[g], resp[g], key[g]>>
  BY DEF RouteTypeOK, Done
<1>3. \A g \in Routes : Proper(g)' \/ UNCHANGED <<stage[g], resp[g], key[g]>>
  BY <1>1, <1>2
<1> QED
  BY <1>3 DEF RouteTypeOK, Done

\* The invariant holds, however handlers, the vacuum thread, the cache and
\* upstream interleave, for any number of handlers and keys.
THEOREM RouteInvariance == RouteSpec => []RouteInv
<1>1. RouteInit => RouteInv
  BY DEF RouteInit, RouteInv, RouteTypeOK, OwnReplies, Proper, ValidEntries, Valid,
         NoEntry, Free, Objects
<1>2. RouteInv /\ [RouteNext]_routeVars => RouteInv'
  <2> SUFFICES ASSUME RouteInv, [RouteNext]_routeVars PROVE RouteInv'
    OBVIOUS
  <2>a. RouteTypeOK /\ ValidEntries /\ OwnReplies
    BY DEF RouteInv
  <2>b. NoMessage \notin Routes
    BY RouteAssumption
  <2>1. ASSUME NEW h \in Routes, NEW k \in Keys, Hit(h, k) PROVE RouteInv'
    <3>1. cache[k].obj \in Messages
      BY <2>1, <2>a DEF Hit, ValidEntries
    <3>2. key' = [key EXCEPT ![h] = k] /\ key'[h] \in Keys
      BY <2>1, <2>a DEF Hit, RouteTypeOK
    <3> QED
      BY <2>1, <3>1, <3>2, AnswerPreserves, ZenonT(30) DEF Hit
  <2>2. ASSUME NEW h \in Routes, FailWithKnown(h) PROVE RouteInv'
    <3>1. known[h] \in Messages /\ stage[h] # "none"
      BY <2>2, <2>a DEF FailWithKnown, RouteTypeOK
    <3> QED
      BY <2>2, <3>1, AnswerPreserves DEF FailWithKnown
  <2>3. ASSUME NEW h \in Routes, NEW k \in Keys, Miss(h, k) PROVE RouteInv'
    <3>1. RouteTypeOK'
      BY <2>3, <2>a DEF Miss, RouteTypeOK
    <3>2. Proper(h)'
      BY <2>3, <2>a DEF Miss, RouteTypeOK, OwnReplies, Proper
    <3>3. \A g \in Routes \ {h} : UNCHANGED <<stage[g], resp[g], key[g]>>
      BY <2>3, <2>a DEF Miss, RouteTypeOK
    <3>4. ValidEntries'
      BY <2>3, <2>a DEF Miss, ValidEntries, Valid
    <3>5. Rewrites(NoMessage)
      BY <2>3, <2>a, CollectRewrites DEF Miss
    <3> QED
      BY <2>b, <3>1, <3>2, <3>3, <3>4, <3>5, OthersPreserve
  <2>4. ASSUME NEW h \in Routes, Refuse(h) \/ Fail(h) \/ Send(h) PROVE RouteInv'
    <3>1. Done(h) /\ UNCHANGED <<cache, zone>> /\ (Collect \/ UNCHANGED heap)
      BY <2>4 DEF Refuse, Fail, Send
    <3>2. Rewrites(NoMessage)
      BY <2>a, <3>1, CollectRewrites
    <3>3. RouteTypeOK'
      BY <2>a, <3>1, <3>2, DoneIsProper DEF RouteTypeOK, Rewrites, Contents
    <3>4. ValidEntries'
      BY <3>1, <2>a DEF ValidEntries, Valid
    <3>5. \A g \in Routes : Proper(g)' \/ UNCHANGED <<stage[g], resp[g], key[g]>>
      BY <2>a, <3>1, DoneIsProper
    <3> QED
      BY <2>b, <3>2, <3>3, <3>4, <3>5, OthersPreserve
  <2>5. ASSUME NEW h \in Routes, Ask(h) PROVE RouteInv'
    <3>1. RouteTypeOK'
      BY <2>5, <2>a DEF Ask, RouteTypeOK
    <3>2. Proper(h)'
      BY <2>5, <2>a DEF Ask, RouteTypeOK, OwnReplies, Proper
    <3>3. \A g \in Routes \ {h} : UNCHANGED <<stage[g], resp[g], key[g]>>
      BY <2>5, <2>a DEF Ask, RouteTypeOK
    <3>4. ValidEntries'
      BY <2>5, <2>a DEF Ask, ValidEntries, Valid
    <3>5. Rewrites(NoMessage)
      BY <2>5, <2>a, CollectRewrites DEF Ask
    <3> QED
      BY <2>b, <3>1, <3>2, <3>3, <3>4, <3>5, OthersPreserve
  <2>6. ASSUME NEW h \in Routes, Resolved(h) PROVE RouteInv'
    <3>1. Fresh \in Messages /\ ~InUse(Fresh)
      BY <2>6 DEF Resolved, Fresh
    <3> DEFINE m == [id |-> NoMessage, version |-> zone[key[h]]]
    <3>2. key[h] \in Keys
      BY <2>6, <2>a DEF Resolved, OwnReplies, Proper
    <3>3. m \in Contents
      BY <2>a, <3>2 DEF Contents, RouteTypeOK
    <3>4. Rewrites(Fresh)
      <4>1. Put(Fresh, m)
        BY <2>6 DEF Resolved
      <4> HIDE DEF m
      <4> QED
        BY <4>1, <2>a, <3>3, PutRewrites
    <3>5. RouteTypeOK'
      BY <2>6, <2>a, <3>1, <3>4 DEF Resolved, RouteTypeOK, Rewrites, Contents, Objects
    <3>6. Proper(h)'
      BY <2>6, <2>a, <3>1, <3>2 DEF Resolved, RouteTypeOK, Proper
    <3>7. \A g \in Routes \ {h} : UNCHANGED <<stage[g], resp[g], key[g]>>
      BY <2>6, <2>a DEF Resolved, RouteTypeOK
    <3>8. ValidEntries'
      BY <2>6, <2>a DEF Resolved, ValidEntries, Valid
    <3>9. Fresh \notin Routes
      BY <3>1, RouteAssumption
    <3> QED
      BY <3>4, <3>5, <3>6, <3>7, <3>8, <3>9, OthersPreserve
  <2>7. ASSUME NEW h \in Routes, Add(h) PROVE RouteInv'
    <3>1. PICK ttl \in Nat :
            cache' = [cache EXCEPT ![key[h]] = [obj |-> resp[h], left |-> ttl]]
      BY <2>7, GetMinTTLType, ZenonT(30) DEF Add
    <3>2. key[h] \in Keys /\ resp[h] \in Messages
      BY <2>7, <2>a DEF Add, OwnReplies, Proper
    <3>3. Rewrites(NoMessage)
      BY <2>7, <2>a, CollectRewrites DEF Add
    <3>4. RouteTypeOK'
      BY <2>7, <2>a, <3>1, <3>2, <3>3 DEF Add, RouteTypeOK, Rewrites, Contents
    <3>5. ValidEntries'
      BY <2>a, <3>1, <3>2 DEF ValidEntries, Valid, RouteTypeOK
    <3>6. Proper(h)'
      BY <2>7, <2>a, <3>2 DEF Add, RouteTypeOK, Proper
    <3>7. \A g \in Routes \ {h} : UNCHANGED <<stage[g], resp[g], key[g]>>
      BY <2>7, <2>a DEF Add, RouteTypeOK
    <3> QED
      BY <2>b, <3>3, <3>4, <3>5, <3>6, <3>7, OthersPreserve
  <2>8. CASE Purge \/ Tick \/ (\E k \in Keys : EvictEntry(k) \/ Change(k)) \/ UNCHANGED routeVars
    <3>1. UNCHANGED handling /\ (Collect \/ UNCHANGED heap)
      BY <2>8 DEF Purge, Tick, EvictEntry, Change, routeVars
    <3>2. Rewrites(NoMessage)
      BY <2>a, <3>1, CollectRewrites
    <3>3. zone' \in [Keys -> Nat]
      BY <2>8, <2>a DEF Purge, Tick, EvictEntry, Change, routeVars, RouteTypeOK
    <3>4. /\ cache' \in [Keys -> [obj : Messages \cup {NoMessage}, left : Nat]]
          /\ ValidEntries'
      <4>1. CASE UNCHANGED cache
        BY <4>1, <2>a DEF RouteTypeOK, ValidEntries, Valid
      <4>2. CASE Purge
        BY <4>2 DEF Purge, NoEntry, ValidEntries, Valid
      <4>3. ASSUME NEW k \in Keys, EvictEntry(k)
            PROVE  /\ cache' \in [Keys -> [obj : Messages \cup {NoMessage}, left : Nat]]
                   /\ ValidEntries'
        BY <4>3, <2>a DEF EvictEntry, NoEntry, RouteTypeOK, ValidEntries, Valid
      <4>4. CASE Tick
        BY <4>4, <2>a DEF Tick, RouteTypeOK, ValidEntries, Valid
      <4> QED
        BY <4>1, <4>2, <4>3, <4>4, <2>8 DEF Change, routeVars
    <3>5. RouteTypeOK'
      BY <2>a, <3>1, <3>2, <3>3, <3>4 DEF handling, RouteTypeOK, Rewrites, Contents
    <3>6. \A g \in Routes : UNCHANGED <<stage[g], resp[g], key[g]>>
      BY <3>1 DEF handling
    <3> QED
      BY <2>b, <3>2, <3>4, <3>5, <3>6, OthersPreserve
  <2> QED
    BY <2>1, <2>2, <2>3, <2>4, <2>5, <2>6, <2>7, <2>8 DEF RouteNext, Query, Answer
<1> QED
  BY <1>1, <1>2, PTL DEF RouteSpec

\* An answer made from the cache has the id of the query it answers.
THEOREM CachedRepliesAreOwn == RouteSpec => []CachedReplyIsOwn
<1>1. RouteInv => CachedReplyIsOwn
  BY DEF RouteInv, OwnReplies, Proper, CachedReplyIsOwn
<1> QED
  BY <1>1, RouteInvariance, PTL

\* No step writes a message that came from upstream and is still used, by the
\* cache or by a handler: whoever changes it has made a copy before.
SharedIsNotWritten ==
  \A o \in Messages : InUse(o) /\ InUse(o)' => UNCHANGED heap[o]

\* That holds of every step of route, the vacuum thread and the cache.
THEOREM SharedMessagesStay == RouteSpec => [][SharedIsNotWritten]_routeVars
<1>1. RouteInv /\ [RouteNext]_routeVars => [SharedIsNotWritten]_routeVars
  <2> SUFFICES ASSUME RouteInv, RouteNext PROVE SharedIsNotWritten
    OBVIOUS
  <2>1. CASE Collect \/ UNCHANGED heap
    BY <2>1 DEF Collect, SharedIsNotWritten, Objects
  <2>2. ASSUME NEW h \in Routes, NEW o, AnswerFrom(h, o) PROVE SharedIsNotWritten
    BY <2>2, RouteAssumption DEF AnswerFrom, Copy, Put, SharedIsNotWritten, Objects
  <2>3. ASSUME NEW h \in Routes, Resolved(h) PROVE SharedIsNotWritten
    <3>1. Fresh \in Messages /\ ~InUse(Fresh)
      BY <2>3 DEF Resolved, Fresh
    <3> QED
      BY <2>3, <3>1 DEF Resolved, Put, SharedIsNotWritten, Objects
  <2> QED
    BY <2>1, <2>2, <2>3 DEF RouteNext, Query, Answer, Hit, Miss, Refuse, Ask, Fail,
       FailWithKnown, Add, Send, Purge, Tick, EvictEntry, Change
<1> QED
  BY <1>1, RouteInvariance, PTL DEF RouteSpec

-----------------------------------------------------------------------------
(* The ring.                                                               *)

Places == 1..Len(ring)

Held(h) ==
  \/ \E i \in Places : ring[i] = h
  \/ \E g \in Handlers : old[g] = h
  \/ \E t \in Threads : job[t] = h

\* Evictors and threads hold a request exactly while they have to answer it.
HoldersAtWork ==
  /\ \A g \in Handlers : old[g] # NoRequest <=> hpc[g] = "answer"
  /\ \A t \in Threads : job[t] # NoRequest <=> tpc[t] # "take"

\* The handler of every request that is held waits, and the other way round.
HeldIffWaiting == \A h \in Handlers : hpc[h] = "wait" <=> Held(h)

\* No request is held twice.
HeldOnce ==
  /\ \A i, j \in Places : ring[i] = ring[j] => i = j
  /\ \A f, g \in Handlers : old[f] = old[g] /\ old[f] # NoRequest => f = g
  /\ \A s, t \in Threads : job[s] = job[t] /\ job[s] # NoRequest => s = t
  /\ \A i \in Places, g \in Handlers : ring[i] # old[g]
  /\ \A i \in Places, t \in Threads : ring[i] # job[t]
  /\ \A g \in Handlers, t \in Threads : old[g] = job[t] => old[g] = NoRequest

RingInv == TypeOK /\ HoldersAtWork /\ HeldIffWaiting /\ HeldOnce

\* What a receive from the ring does to it.
LEMMA TakenFacts ==
  ASSUME TypeOK, ring # <<>>
  PROVE  /\ Head(ring) = ring[1] /\ 1 \in Places
         /\ Taken \in Seq(Handlers) /\ Len(Taken) = Len(ring) - 1
         /\ \A i \in 1..Len(Taken) : Taken[i] = ring[i + 1] /\ i + 1 \in Places
<1>1. ring \in Seq(Handlers)
  BY DEF TypeOK
<1>2. Len(ring) \in Nat /\ Len(ring) > 0
  BY <1>1
<1> QED
  BY <1>1, <1>2 DEF Taken, Places

\* What a send to the ring does to it.
LEMMA AppendFacts ==
  ASSUME TypeOK, HasSpace, NEW h \in Handlers
  PROVE  /\ Append(ring, h) \in Seq(Handlers) /\ Len(Append(ring, h)) = Len(ring) + 1
         /\ Len(ring) + 1 <= MaxClients /\ Len(ring) \in Nat
         /\ Append(ring, h)[Len(ring) + 1] = h
         /\ \A i \in Places : Append(ring, h)[i] = ring[i]
<1>1. ring \in Seq(Handlers)
  BY DEF TypeOK
<1> QED
  BY <1>1, RingAssumption DEF HasSpace, Places

\* Every step of a handler or a thread keeps the invariant.
THEOREM RingInvariance == Spec => []RingInv
<1>1. Init => RingInv
  BY RingAssumption
     DEF Init, RingInv, TypeOK, HoldersAtWork, HeldIffWaiting, HeldOnce, Held, Places
<1>2. RingInv /\ [Next]_vars => RingInv'
  <2> SUFFICES ASSUME RingInv, [Next]_vars PROVE RingInv'
    OBVIOUS
  <2> USE RingAssumption
  <2>1. ASSUME NEW h \in Handlers, Arrive(h) PROVE RingInv'
    BY <2>1 DEF Arrive, RingInv, TypeOK, HoldersAtWork, HeldIffWaiting, HeldOnce, Held, Places
  <2>2. ASSUME NEW h \in Handlers, Enqueue(h) PROVE RingInv'
    <3>1. ring' = Append(ring, h) /\ hpc' = [hpc EXCEPT ![h] = "wait"] /\ hpc[h] = "enqueue"
          /\ UNCHANGED <<old, tpc, job>>
      BY <2>2 DEF Enqueue
    <3>2. TypeOK /\ HasSpace
      BY <2>2 DEF Enqueue, RingInv
    <3>3. Places' = Places \cup {Len(ring) + 1} /\ Len(ring) + 1 \notin Places
      BY <3>1, <3>2, AppendFacts DEF Places
    <3>4. ring'[Len(ring) + 1] = h /\ \A i \in Places : ring'[i] = ring[i]
      BY <3>1, <3>2, AppendFacts, ZenonT(30)
    <3>5. ~Held(h)
      BY <3>1 DEF RingInv, HeldIffWaiting
    <3>6. TypeOK'
      BY <3>1, <3>2, AppendFacts DEF TypeOK
    <3>7. HoldersAtWork'
      BY <3>1 DEF RingInv, TypeOK, HoldersAtWork
    <3>8. HeldIffWaiting'
      <4> SUFFICES ASSUME NEW g \in Handlers PROVE hpc'[g] = "wait" <=> Held(g)'
        BY DEF HeldIffWaiting
      <4>1. CASE g = h
        BY <3>1, <3>2, <3>3, <3>4, <4>1 DEF Held, TypeOK
      <4>2. CASE g # h
        <5>1. (\E i \in Places' : ring'[i] = g) <=> \E i \in Places : ring[i] = g
          BY <3>3, <3>4, <4>2
        <5>2. Held(g)' <=> Held(g)
          BY <3>1, <5>1, ZenonT(30) DEF Held
        <5> QED
          BY <3>1, <3>2, <4>2, <5>2 DEF TypeOK, RingInv, HeldIffWaiting
      <4> QED
        BY <4>1, <4>2
    <3>9. HeldOnce'
      <4>1. \A i, j \in Places' : ring'[i] = ring'[j] => i = j
        BY <3>3, <3>4, <3>5 DEF RingInv, HeldOnce, Held
      <4>2. ASSUME NEW i \in Places', NEW g \in Handlers PROVE ring'[i] # old'[g]
        <5>1. old'[g] = old[g]
          BY <3>1
        <5>2. CASE i \in Places
          BY <3>4, <5>1, <5>2 DEF RingInv, HeldOnce
        <5>3. CASE i = Len(ring) + 1
          BY <3>4, <3>5, <5>1, <5>3 DEF Held
        <5> QED
          BY <3>3, <5>2, <5>3
      <4>3. ASSUME NEW i \in Places', NEW t \in Threads PROVE ring'[i] # job'[t]
        <5>1. job'[t] = job[t]
          BY <3>1
        <5>2. CASE i \in Places
          BY <3>4, <5>1, <5>2 DEF RingInv, HeldOnce
        <5>3. CASE i = Len(ring) + 1
          BY <3>4, <3>5, <5>1, <5>3 DEF Held
        <5> QED
          BY <3>3, <5>2, <5>3
      <4> QED
        BY <3>1, <4>1, <4>2, <4>3, ZenonT(30) DEF RingInv, HeldOnce
    <3> QED
      BY <3>6, <3>7, <3>8, <3>9 DEF RingInv
  <2>3. ASSUME NEW h \in Handlers, RingFull(h) PROVE RingInv'
    <3>1. hpc' = [hpc EXCEPT ![h] = "evict"] /\ hpc[h] = "enqueue" /\ UNCHANGED <<ring, old, tpc, job>>
      BY <2>3 DEF RingFull
    <3>2. TypeOK' /\ HoldersAtWork'
      BY <3>1 DEF RingInv, TypeOK, HoldersAtWork
    <3>3. HeldIffWaiting'
      BY <3>1 DEF RingInv, TypeOK, HeldIffWaiting, Held, Places
    <3>4. HeldOnce'
      BY <3>1 DEF RingInv, HeldOnce, Places
    <3> QED
      BY <3>2, <3>3, <3>4 DEF RingInv
  <2>4. ASSUME NEW h \in Handlers, Evict(h) PROVE RingInv'
    <3>1. ring' = Taken /\ old' = [old EXCEPT ![h] = ring[1]]
          /\ hpc' = [hpc EXCEPT ![h] = "answer"] /\ hpc[h] = "evict" /\ UNCHANGED <<tpc, job>>
      BY <2>4, TakenFacts DEF Evict, RingInv
    <3>2. TypeOK /\ ring # <<>> /\ ring[1] \in Handlers /\ ring[1] # NoRequest
      BY <2>4 DEF Evict, RingInv, TypeOK
    <3>3. 1 \in Places /\ Places' = 1..(Len(ring) - 1) /\ Len(ring) \in Nat
      BY <3>1, <3>2, TakenFacts DEF Places, TypeOK
    <3>4. \A i \in Places' : ring'[i] = ring[i + 1] /\ i + 1 \in Places
      BY <3>1, <3>2, TakenFacts DEF Places
    <3>5. \A j \in Places \ {1} : j - 1 \in Places' /\ ring'[j - 1] = ring[j]
      BY <3>3, <3>4 DEF Places
    <3>6. old[h] = NoRequest
      BY <3>1 DEF RingInv, HoldersAtWork
    <3>7. TypeOK'
      BY <3>1, <3>2, TakenFacts DEF TypeOK
    <3>8. HoldersAtWork'
      BY <3>1, <3>2 DEF RingInv, TypeOK, HoldersAtWork
    <3>9. HeldIffWaiting'
      <4> SUFFICES ASSUME NEW g \in Handlers PROVE hpc'[g] = "wait" <=> Held(g)'
        BY DEF HeldIffWaiting
      <4>1. Held(g)' <=> Held(g)
        <5>1. (\E i \in Places' : ring'[i] = g) \/ ring[1] = g <=> \E i \in Places : ring[i] = g
          BY <3>3, <3>4, <3>5
        <5>2. (\E f \in Handlers : old'[f] = g) <=> (\E f \in Handlers : old[f] = g) \/ ring[1] = g
          BY <3>1, <3>2, <3>6 DEF TypeOK
        <5> QED
          BY <3>1, <5>1, <5>2 DEF Held
      <4> QED
        BY <3>1, <4>1 DEF RingInv, TypeOK, HeldIffWaiting
    <3>10. HeldOnce'
      <4>1. \A i, j \in Places' : ring'[i] = ring'[j] => i = j
        BY <3>3, <3>4 DEF RingInv, HeldOnce
      <4>2. \A f, g \in Handlers : old'[f] = old'[g] /\ old'[f] # NoRequest => f = g
        BY <3>1, <3>2, <3>3, <3>6 DEF RingInv, TypeOK, HeldOnce
      <4>3. \A i \in Places', g \in Handlers : ring'[i] # old'[g]
        BY <3>1, <3>2, <3>3, <3>4 DEF RingInv, TypeOK, HeldOnce
      <4>4. \A g \in Handlers, t \in Threads : old'[g] = job'[t] => old'[g] = NoRequest
        BY <3>1, <3>2, <3>3 DEF RingInv, TypeOK, HeldOnce
      <4>5. \A i \in Places', t \in Threads : ring'[i] # job'[t]
        BY <3>1, <3>4 DEF RingInv, HeldOnce
      <4>6. \A s, t \in Threads : job'[s] = job'[t] /\ job'[s] # NoRequest => s = t
        BY <3>1 DEF RingInv, HeldOnce
      <4> QED
        BY <4>1, <4>2, <4>3, <4>4, <4>5, <4>6 DEF HeldOnce
    <3> QED
      BY <3>7, <3>8, <3>9, <3>10 DEF RingInv
  <2>5. ASSUME NEW h \in Handlers, AnswerEvicted(h) PROVE RingInv'
    <3>1. old[h] \in Handlers /\ old[h] # h
      BY <2>5 DEF AnswerEvicted, RingInv, TypeOK, HoldersAtWork
    <3>2. /\ hpc' = [hpc EXCEPT ![h] = "enqueue", ![old[h]] = "idle"]
          /\ old' = [old EXCEPT ![h] = NoRequest] /\ UNCHANGED <<ring, tpc, job>>
          /\ hpc[h] = "answer" /\ hpc[old[h]] = "wait"
      BY <2>5 DEF AnswerEvicted
    <3>3. \A g \in Handlers : Held(g)' <=> Held(g) /\ g # old[h]
      BY <3>1, <3>2 DEF Held, RingInv, TypeOK, HeldOnce, Places
    <3>4. TypeOK'
      BY <3>1, <3>2 DEF RingInv, TypeOK
    <3>5. HoldersAtWork'
      BY <3>1, <3>2 DEF RingInv, TypeOK, HoldersAtWork
    <3>6. HeldIffWaiting'
      BY <3>1, <3>2, <3>3 DEF RingInv, TypeOK, HeldIffWaiting
    <3>7. HeldOnce'
      BY <3>1, <3>2 DEF RingInv, TypeOK, HeldOnce, Places
    <3> QED
      BY <3>4, <3>5, <3>6, <3>7 DEF RingInv
  <2>6. ASSUME NEW t \in Threads, Take(t) PROVE RingInv'
    <3>1. ring' = Taken /\ job' = [job EXCEPT ![t] = ring[1]] /\ tpc[t] = "take"
          /\ tpc' \in [Threads -> {"take", "tooOld", "resolve", "respond"}]
          /\ tpc'[t] # "take" /\ (\A s \in Threads \ {t} : tpc'[s] = tpc[s]) /\ UNCHANGED <<hpc, old>>
      BY <2>6, TakenFacts DEF Take, RingInv, TypeOK
    <3>2. TypeOK /\ ring # <<>> /\ ring[1] \in Handlers /\ ring[1] # NoRequest
      BY <2>6 DEF Take, RingInv, TypeOK
    <3>3. 1 \in Places /\ Places' = 1..(Len(ring) - 1) /\ Len(ring) \in Nat
      BY <3>1, <3>2, TakenFacts DEF Places, TypeOK
    <3>4. \A i \in Places' : ring'[i] = ring[i + 1] /\ i + 1 \in Places
      BY <3>1, <3>2, TakenFacts DEF Places
    <3>5. \A j \in Places \ {1} : j - 1 \in Places' /\ ring'[j - 1] = ring[j]
      BY <3>3, <3>4 DEF Places
    <3>6. job[t] = NoRequest
      BY <3>1 DEF RingInv, HoldersAtWork
    <3>7. TypeOK'
      BY <3>1, <3>2, TakenFacts DEF TypeOK
    <3>8. HoldersAtWork'
      BY <3>1, <3>2 DEF RingInv, TypeOK, HoldersAtWork
    <3>9. HeldIffWaiting'
      <4> SUFFICES ASSUME NEW g \in Handlers PROVE hpc'[g] = "wait" <=> Held(g)'
        BY DEF HeldIffWaiting
      <4>1. Held(g)' <=> Held(g)
        <5>1. (\E i \in Places' : ring'[i] = g) \/ ring[1] = g <=> \E i \in Places : ring[i] = g
          BY <3>3, <3>4, <3>5
        <5>2. (\E s \in Threads : job'[s] = g) <=> (\E s \in Threads : job[s] = g) \/ ring[1] = g
          BY <3>1, <3>2, <3>6 DEF TypeOK
        <5> QED
          BY <3>1, <5>1, <5>2 DEF Held
      <4> QED
        BY <3>1, <4>1 DEF RingInv, HeldIffWaiting
    <3>10. HeldOnce'
      <4>1. \A i, j \in Places' : ring'[i] = ring'[j] => i = j
        BY <3>3, <3>4 DEF RingInv, HeldOnce
      <4>2. \A s, u \in Threads : job'[s] = job'[u] /\ job'[s] # NoRequest => s = u
        BY <3>1, <3>2, <3>3, <3>6 DEF RingInv, TypeOK, HeldOnce
      <4>3. \A i \in Places', s \in Threads : ring'[i] # job'[s]
        BY <3>1, <3>2, <3>3, <3>4 DEF RingInv, TypeOK, HeldOnce
      <4>4. \A g \in Handlers, s \in Threads : old'[g] = job'[s] => old'[g] = NoRequest
        BY <3>1, <3>2, <3>3 DEF RingInv, TypeOK, HeldOnce
      <4>5. \A i \in Places', g \in Handlers : ring'[i] # old'[g]
        BY <3>1, <3>4 DEF RingInv, HeldOnce
      <4>6. \A f, g \in Handlers : old'[f] = old'[g] /\ old'[f] # NoRequest => f = g
        BY <3>1 DEF RingInv, HeldOnce
      <4> QED
        BY <4>1, <4>2, <4>3, <4>4, <4>5, <4>6 DEF HeldOnce
    <3> QED
      BY <3>7, <3>8, <3>9, <3>10 DEF RingInv
  <2>7. ASSUME NEW t \in Threads, Resolve(t) PROVE RingInv'
    BY <2>7 DEF Resolve, RingInv, TypeOK, HoldersAtWork, HeldIffWaiting, HeldOnce, Held, Places
  <2>8. ASSUME NEW t \in Threads, Respond(t) PROVE RingInv'
    <3>1. job[t] \in Handlers
      BY <2>8 DEF Respond, RingInv, TypeOK, HoldersAtWork
    <3>2. /\ hpc' = [hpc EXCEPT ![job[t]] = "idle"] /\ tpc' = [tpc EXCEPT ![t] = "take"]
          /\ job' = [job EXCEPT ![t] = NoRequest] /\ UNCHANGED <<ring, old>>
          /\ hpc[job[t]] = "wait"
      BY <2>8 DEF Respond
    <3>3. \A g \in Handlers : Held(g)' <=> Held(g) /\ g # job[t]
      BY <3>1, <3>2 DEF Held, RingInv, TypeOK, HeldOnce, Places
    <3>4. TypeOK'
      BY <3>1, <3>2 DEF RingInv, TypeOK
    <3>5. HoldersAtWork'
      BY <3>1, <3>2 DEF RingInv, TypeOK, HoldersAtWork
    <3>6. HeldIffWaiting'
      BY <3>1, <3>2, <3>3 DEF RingInv, TypeOK, HeldIffWaiting
    <3>7. HeldOnce'
      BY <3>1, <3>2 DEF RingInv, TypeOK, HeldOnce, Places
    <3> QED
      BY <3>4, <3>5, <3>6, <3>7 DEF RingInv
  <2>9. CASE UNCHANGED vars
    BY <2>9 DEF vars, RingInv, TypeOK, HoldersAtWork, HeldIffWaiting, HeldOnce, Held, Places
  <2> QED
    BY <2>1, <2>2, <2>3, <2>4, <2>5, <2>6, <2>7, <2>8, <2>9 DEF Next, HandlerStep, ThreadStep
<1> QED
  BY <1>1, <1>2, PTL DEF Spec

\* A waiting handler is sent exactly one response, and none is on its way to
\* another, for any number of handlers and threads and any size of the ring.
THEOREM EachIsAnsweredOnce == Spec => []OneAnswerEach
<1>1. RingInv => OneAnswerEach
  <2> SUFFICES ASSUME RingInv, NEW h \in Handlers
               PROVE  /\ hpc[h] = "wait" => \E x \in Holders(h) : Holders(h) = {x}
                      /\ hpc[h] # "wait" => Holders(h) = {}
    BY DEF OneAnswerEach
  <2>1. h # NoRequest
    BY RingAssumption
  <2>2. hpc[h] # "wait" => Holders(h) = {}
    BY DEF RingInv, HeldIffWaiting, Held, Holders, Places
  <2>3. ASSUME NEW i \in Places, ring[i] = h PROVE Holders(h) = {<<"ring", i>>}
    BY <2>3 DEF RingInv, HeldOnce, Holders, Places
  <2>4. ASSUME NEW g \in Handlers, old[g] = h PROVE Holders(h) = {<<"evictor", g>>}
    BY <2>1, <2>4 DEF RingInv, HeldOnce, Holders, Places
  <2>5. ASSUME NEW t \in Threads, job[t] = h PROVE Holders(h) = {<<"thread", t>>}
    BY <2>1, <2>5 DEF RingInv, HeldOnce, Holders, Places
  <2>6. hpc[h] = "wait" => \E x \in Holders(h) : Holders(h) = {x}
    BY <2>3, <2>4, <2>5, ZenonT(30) DEF RingInv, HeldIffWaiting, Held
  <2> QED
    BY <2>2, <2>6
<1> QED
  BY <1>1, RingInvariance, PTL

-----------------------------------------------------------------------------
(* The upstream servers.                                                   *)

USE UpstreamAssumption DEF Servers

\* A server that the probe has passed is collected, or did not answer.
Passed(s) == s \in found \/ probeFailed[s]

\* What a probe knows at each of its entries, and what it leaves behind.
ServersInv ==
  /\ DOMAIN offline = Servers /\ offline = [s \in Servers |-> offline[s]]
  /\ DOMAIN probeFailed = Servers /\ probeFailed = [s \in Servers |-> probeFailed[s]]
  /\ ppc \in {"idle", "next", "exchange", "clear"} /\ idx \in Nat
  /\ ppc # "idle" => \A s \in Servers : s < idx => Passed(s)
  /\ OnlyDeadServersUnused

\* The probe writes the entry it looks at, and no other.
LEMMA ProbeKeeps == ServersInv /\ ProbeStep => ServersInv'
<1> SUFFICES ASSUME ServersInv, ProbeStep PROVE ServersInv'
  OBVIOUS
<1> USE DEF ServersInv, Passed
<1>1. CASE ProbeStart
  BY <1>1 DEF ProbeStart, OnlyDeadServersUnused, table
<1>2. CASE AssumeOnline
  <2>1. found' = found \cup {idx} /\ idx' = idx + 1 /\ UNCHANGED <<offline, probeFailed, ppc>> /\ ppc = "next"
    BY <1>2 DEF AssumeOnline, Assumed, table
  <2>2. \A s \in Servers : s < idx' => s < idx \/ s = idx
    BY <2>1
  <2> QED
    BY <2>1, <2>2 DEF OnlyDeadServersUnused
<1>3. CASE StartExchange
  BY <1>3 DEF StartExchange, OnlyDeadServersUnused, table
<1>4. CASE ExchangeFailed
  <2>1. /\ probeFailed' = [probeFailed EXCEPT ![idx] = TRUE]
        /\ idx' = idx + 1 /\ UNCHANGED <<offline, found>> /\ ppc = "exchange" /\ ppc' = "next"
    BY <1>4 DEF ExchangeFailed, table
  <2>2. \A s \in Servers : s < idx' => s < idx \/ s = idx
    BY <2>1
  <2>3. \A s \in Servers : s < idx' => Passed(s)'
    BY <2>1, <2>2
  <2>4. DOMAIN probeFailed' = Servers /\ probeFailed' = [s \in Servers |-> probeFailed'[s]]
    BY <2>1, ZenonT(30)
  <2> QED
    BY <2>1, <2>3, <2>4 DEF OnlyDeadServersUnused
<1>5. CASE ExchangeDone
  <2>1. /\ offline' = [offline EXCEPT ![idx] = FALSE]
        /\ UNCHANGED <<idx, found, probeFailed>> /\ ppc = "exchange" /\ ppc' = "clear"
    BY <1>5 DEF ExchangeDone
  <2>2. DOMAIN offline' = Servers /\ offline' = [s \in Servers |-> offline'[s]]
    BY <2>1, ZenonT(30)
  <2> QED
    BY <2>1, <2>2 DEF OnlyDeadServersUnused
<1>6. CASE ClearFailures
  <2>1. /\ probeFailed' = [probeFailed EXCEPT ![idx] = FALSE] /\ found' = found \cup {idx}
        /\ idx' = idx + 1 /\ UNCHANGED offline /\ ppc = "clear" /\ ppc' = "next"
    BY <1>6 DEF ClearFailures
  <2>2. \A s \in Servers : s < idx' => s < idx \/ s = idx
    BY <2>1
  <2>3. \A s \in Servers : s < idx' => Passed(s)'
    BY <2>1, <2>2
  <2>4. DOMAIN probeFailed' = Servers /\ probeFailed' = [s \in Servers |-> probeFailed'[s]]
    BY <2>1, ZenonT(30)
  <2> QED
    BY <2>1, <2>3, <2>4 DEF OnlyDeadServersUnused
<1>7. CASE ProbeEnd
  <2>1. /\ idx > NumServers /\ live' = found /\ UNCHANGED <<offline, probeFailed>>
        /\ idx' = 1 /\ ppc = "next" /\ ppc' = "idle"
    BY <1>7 DEF ProbeEnd
  <2>2. \A s \in Servers : s \in found \/ probeFailed[s]
    BY <2>1
  <2> QED
    BY <2>1, <2>2 DEF OnlyDeadServersUnused
<1> QED
  BY <1>1, <1>2, <1>3, <1>4, <1>5, <1>6, <1>7 DEF ProbeStep

\* markFailed takes from the list only the server that it marks and those that
\* are marked.
LEMMA JudgeKeeps == ASSUME ServersInv, NEW t \in Resolvers, JudgeServer(t) PROVE ServersInv'
<1>1. UNCHANGED <<ppc, idx, found, probeFailed>>
  BY DEF JudgeServer, probe
<1>2. CASE Reset
  <2>1. UNCHANGED table \/ (offline' = [s \in Servers |-> FALSE] /\ live' = Servers)
    BY <1>2 DEF Reset
  <2> QED
    BY <1>1, <2>1 DEF ServersInv, Passed, OnlyDeadServersUnused, table
<1>3. CASE offline' = [offline EXCEPT ![picked[t]] = TRUE] /\ live' = OthersOnline(picked[t])
  <2>2. DOMAIN offline' = Servers /\ offline' = [s \in Servers |-> offline'[s]]
    BY <1>3, ZenonT(30) DEF ServersInv
  <2>3. \A s \in Servers \ live' : offline'[s]
    BY <1>3 DEF OthersOnline, ServersInv
  <2> QED
    BY <1>1, <2>2, <2>3 DEF ServersInv, Passed, OnlyDeadServersUnused
<1> QED
  BY <1>2, <1>3 DEF JudgeServer

\* ServersInit gives the invariant, and every step of a thread, of the probe or of a
\* server keeps it.
THEOREM ServersInvariance == ServersSpec => []ServersInv
<1>1. ServersInit => ServersInv
  BY DEF ServersInit, ServersInv, Passed, OnlyDeadServersUnused
<1>2. ServersInv /\ [ServersNext]_serversVars => ServersInv'
  <2> SUFFICES ASSUME ServersInv, [ServersNext]_serversVars PROVE ServersInv'
    OBVIOUS
  <2>1. CASE UNCHANGED <<offline, live, ppc, idx, found, probeFailed>>
    BY <2>1 DEF ServersInv, Passed, OnlyDeadServersUnused
  <2>2. ASSUME NEW t \in Resolvers, PickUpstream(t) \/ Answered(t) \/ Failed(t) \/ CountFailure(t)
        PROVE  ServersInv'
    BY <2>1, <2>2 DEF PickUpstream, Answered, Failed, MarkFailed, CountFailure, table, probe
  <2>3. ASSUME NEW s \in Servers, ServerChanges(s) PROVE ServersInv'
    BY <2>1, <2>3 DEF ServerChanges, table, probe
  <2>4. CASE UNCHANGED serversVars
    BY <2>1, <2>4 DEF serversVars, table, probe
  <2> QED
    BY <2>2, <2>3, <2>4, ProbeKeeps, JudgeKeeps DEF ServersNext, LockedStep
<1> QED
  BY <1>1, <1>2, PTL DEF ServersSpec

\* Outside a probe a server that gets no queries is marked offline or left its
\* last probe unanswered, for every number of servers and threads.
THEOREM NoServerLost == ServersSpec => []OnlyDeadServersUnused
<1>1. ServersInv => OnlyDeadServersUnused
  BY DEF ServersInv
<1> QED
  BY <1>1, ServersInvariance, PTL
=============================================================================
