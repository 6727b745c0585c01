----------------------------- MODULE QueryRoute -----------------------------
(***************************************************************************)
(* How jojo answers a query: route with the cache, the answers of the      *)
(* upstream servers, and the vacuum thread's purge.  DNS messages are      *)
(* objects on the heap, because route hands out pointers to them: what is  *)
(* in the cache is shared with every handler that has looked it up.        *)
(* Whether a query is refused is QuerySlip's subject, and how it gets to   *)
(* an upstream server that of ResolverRing and UpstreamServers: here any   *)
(* query that has to be resolved may be refused, may fail or be answered.  *)
(***************************************************************************)
EXTENDS Naturals, Sequences

CONSTANTS
  Routes,         \* goroutines of route, and the ids of their queries
  Keys,           \* CacheKey: a name, a type, and whether DNSSEC is wanted
  Answers,        \* the TTLs of the records of a response, as sequences
  MinTTL, MaxTTL, NegCacheMinTTL,
  Messages,       \* bound on the messages from upstream in use at a time
  MaxVersion,     \* bound on the changes of the data upstream
  NoMessage

ASSUME RouteAssumption ==
  /\ MinTTL \in Nat \ {0} /\ MaxTTL \in Nat /\ NegCacheMinTTL \in Nat \ {0}
  /\ Answers \subseteq Seq(Nat)
  /\ NoMessage \notin Messages \cup Routes /\ Messages \cap Routes = {}

VARIABLES
  stage,     \* where a handler is
  key,       \* the CacheKey of its query
  known,     \* the message of cacheValP
  resp,      \* the message it answers with
  heap,      \* the id and the data of a message
  cache,     \* the message of a key, and how long it is valid
  zone       \* the version of the data upstream

handling == <<stage, key, known, resp>>
routeVars == <<handling, heap, cache, zone>>

NoEntry == [obj |-> NoMessage, left |-> 0]
Free == [id |-> NoMessage, version |-> 0]

Objects == Messages \cup Routes

RouteInit ==
  /\ stage = [h \in Routes |-> "none"] /\ key = [h \in Routes |-> NoMessage]
  /\ known = [h \in Routes |-> NoMessage] /\ resp = [h \in Routes |-> NoMessage]
  /\ heap = [o \in Objects |-> Free]
  /\ cache = [k \in Keys |-> NoEntry]
  /\ zone = [k \in Keys |-> 0]

-----------------------------------------------------------------------------
(* Messages.                                                               *)

InUse(o) ==
  \/ \E k \in Keys : cache[k].obj = o
  \/ \E h \in Routes : o \in {known[h], resp[h]}

\* The object of a message that comes from upstream.
Fresh == CHOOSE o \in Messages : ~InUse(o)

\* Messages nobody holds any more are gone (garbage collection).
Collect == heap' = [o \in Objects |-> IF InUse(o)' THEN heap[o] ELSE Free]

\* Object o becomes message m, and the rest as above.
Put(o, m) ==
  heap' = [x \in Objects |-> IF x = o THEN m ELSE IF InUse(x)' THEN heap[x] ELSE Free]

\* Mutant: the message in the cache is used itself.
Copy_Not(h, o) == o

\* Response.Copy(): the message is the handler's own, and named after it.
Copy(h, o) == h

\* A handler takes a copy of message o and sets resp.Id = req.Id.
AnswerFrom(h, o) ==
  /\ stage' = [stage EXCEPT ![h] = "reply"]
  /\ resp' = [resp EXCEPT ![h] = Copy(h, o)]
  /\ known' = [known EXCEPT ![h] = NoMessage]
  /\ Put(Copy(h, o), [heap[o] EXCEPT !.id = h])

-----------------------------------------------------------------------------
(* The query is looked up.  One with a key or class that is not supported, *)
(* or a special name, is answered at once and touches no state.            *)

Valid(k) == cache[k].left > 0

Hit(h, k) ==
  /\ stage[h] = "none" /\ Valid(k)
  /\ key' = [key EXCEPT ![h] = k]
  /\ UNCHANGED <<cache, zone>>
  /\ AnswerFrom(h, cache[k].obj)

\* An entry that is not valid any more is remembered.
Miss(h, k) ==
  /\ stage[h] = "none" /\ ~Valid(k)
  /\ stage' = [stage EXCEPT ![h] = "miss"]
  /\ key' = [key EXCEPT ![h] = k] /\ known' = [known EXCEPT ![h] = cache[k].obj]
  /\ UNCHANGED <<resp, heap, cache, zone>>

\* The handler returns.
Done(h) ==
  /\ stage' = [stage EXCEPT ![h] = "none"] /\ key' = [key EXCEPT ![h] = NoMessage]
  /\ known' = [known EXCEPT ![h] = NoMessage] /\ resp' = [resp EXCEPT ![h] = NoMessage]

\* Because of slip: the client gets a truncated response or none.
Refuse(h) ==
  /\ stage[h] = "miss"
  /\ Done(h) /\ UNCHANGED <<cache, zone>> /\ Collect

\* The request goes to the resolver threads.
Ask(h) ==
  /\ stage[h] = "miss"
  /\ stage' = [stage EXCEPT ![h] = "resolve"]
  /\ UNCHANGED <<key, known, resp, heap, cache, zone>>

-----------------------------------------------------------------------------
(* The query is resolved.                                                  *)

\* The response has the data upstream.  Its id is left out: of exchanges for
\* the same name at the same time only one is made (SingleInflight), and then
\* it is the id of any of their queries.
Resolved(h) ==
  /\ stage[h] = "resolve"
  /\ \E o \in Messages : ~InUse(o)
  /\ stage' = [stage EXCEPT ![h] = "add"]
  /\ resp' = [resp EXCEPT ![h] = Fresh] /\ known' = [known EXCEPT ![h] = NoMessage]
  /\ UNCHANGED <<key, cache, zone>>
  /\ Put(Fresh, [id |-> NoMessage, version |-> zone[key[h]]])

\* Evicted from the ring, too old, or upstream has failed: without a message
\* from the cache the connection is closed ...
Fail(h) ==
  /\ stage[h] = "resolve" /\ known[h] = NoMessage
  /\ Done(h) /\ UNCHANGED <<heap, cache, zone>>

\* Mutant: the message is made valid again.
FailWithKnown_Renews(h) ==
  /\ stage[h] = "resolve" /\ known[h] # NoMessage
  /\ cache' = [cache EXCEPT ![key[h]] = [obj |-> known[h], left |-> NegCacheMinTTL]]
  /\ UNCHANGED <<key, zone>>
  /\ AnswerFrom(h, known[h])

\* ... and a message that is not valid any more is better than none.
FailWithKnown(h) ==
  /\ stage[h] = "resolve" /\ known[h] # NoMessage
  /\ UNCHANGED <<key, cache, zone>>
  /\ AnswerFrom(h, known[h])

\* The least of MaxTTL and the TTLs of the records, as a set of one
\* element.
Shortest(answer) ==
  LET ttls == {MaxTTL} \cup {answer[i] : i \in 1..Len(answer)}
  IN {ttl \in ttls : \A rr \in ttls : ttl <= rr}

\* What getMinTTL returns, as a set of one element.
GetMinTTL(answer) ==
  IF Len(answer) <= 0 THEN {NegCacheMinTTL}
  ELSE {IF ttl < MinTTL THEN MinTTL ELSE ttl : ttl \in Shortest(answer)}

Add(h) ==
  /\ stage[h] = "add"
  /\ \E answer \in Answers : \E ttl \in GetMinTTL(answer) :
       cache' = [cache EXCEPT ![key[h]] = [obj |-> resp[h], left |-> ttl]]
  /\ stage' = [stage EXCEPT ![h] = "forward"]
  /\ UNCHANGED <<key, known, resp, zone>> /\ Collect

\* The message is packed and sent or, when it is too long for the client, one
\* with the same header and nothing else.
Send(h) ==
  /\ stage[h] \in {"reply", "forward"}
  /\ Done(h) /\ UNCHANGED <<cache, zone>> /\ Collect

-----------------------------------------------------------------------------
(* The rest of the program, and the world.                                 *)

\* The cache needs the place for other keys (external).
EvictEntry(k) ==
  /\ cache[k] # NoEntry
  /\ cache' = [cache EXCEPT ![k] = NoEntry]
  /\ UNCHANGED <<handling, zone>> /\ Collect

\* vacuumThread finds that the program uses much memory.
Purge ==
  /\ cache' = [k \in Keys |-> NoEntry]
  /\ UNCHANGED <<handling, zone>> /\ Collect

\* A second passes.
Tick ==
  /\ \E k \in Keys : Valid(k)
  /\ cache' = [k \in Keys |->
       IF Valid(k) THEN [cache[k] EXCEPT !.left = @ - 1] ELSE cache[k]]
  /\ UNCHANGED <<handling, heap, zone>>

\* The data upstream change.
Change(k) ==
  /\ zone[k] < MaxVersion
  /\ zone' = [zone EXCEPT ![k] = @ + 1]
  /\ UNCHANGED <<handling, heap, cache>>

Query(h) == \E k \in Keys : Hit(h, k) \/ Miss(h, k)

Answer(h) ==
  \/ Refuse(h) \/ Ask(h)
  \/ Resolved(h) \/ Fail(h) \/ FailWithKnown(h)
  \/ Add(h) \/ Send(h)

RouteNext ==
  \/ \E h \in Routes : Query(h) \/ Answer(h)
  \/ Purge \/ Tick
  \/ \E k \in Keys : EvictEntry(k) \/ Change(k)

RouteSpec == RouteInit /\ [][RouteNext]_routeVars

\* Goroutines are scheduled, a request in the ring is answered (ResolverRing)
\* and time passes.  Queries, and changes of the data, need not come.
RouteFairSpec ==
  /\ RouteSpec
  /\ \A h \in Routes : WF_routeVars(Answer(h))
  /\ WF_routeVars(Tick)

-----------------------------------------------------------------------------
(* Properties.                                                             *)

RouteTypeOK ==
  /\ stage \in [Routes -> {"none", "miss", "resolve", "reply", "add", "forward"}]
  /\ key \in [Routes -> Keys \cup {NoMessage}]
  /\ known \in [Routes -> Messages \cup {NoMessage}]
  /\ resp \in [Routes -> Objects \cup {NoMessage}]
  /\ heap \in [Objects -> [id : Routes \cup {NoMessage}, version : Nat]]
  /\ cache \in [Keys -> [obj : Messages \cup {NoMessage}, left : Nat]]
  /\ zone \in [Keys -> Nat]

\* An answer made from the cache, valid or not, carries the id of the query it
\* answers, however many handlers answer from the same entry at a time.
CachedReplyIsOwn ==
  \A h \in Routes : stage[h] = "reply" => heap[resp[h]].id = h

\* When the data upstream have changed for the last time, sooner or later every
\* valid entry of the cache has them: queries that are answered from an entry
\* that is not valid any more, or that were slow to be resolved, do not make
\* old data valid again for ever.
ValidIsCurrent ==
  \A k \in Keys, v \in 0..MaxVersion :
    <>[](zone[k] = v) => <>[](Valid(k) => heap[cache[k].obj].version = v)
=============================================================================
