----------------------------- MODULE KVShutdown -----------------------------
(***************************************************************************)
(* How a member of the key-value store (goraft-explore) takes requests and *)
(* how it goes down: http handlers, the goroutine that proposes, the event *)
(* loop, serveRaft with its stoppable listener, readCommits and main, and  *)
(* the channels between them.  Of a Ready only the nil message and the     *)
(* removal of this member matter here; the rest is in KVNode.              *)
(***************************************************************************)
EXTENDS Naturals

CONSTANT Callers    \* goroutines of httpKVAPI.ServeHTTP

VARIABLES
  closes,     \* how often a channel was closed
  loop,       \* where serveChannels is
  cause,      \* why it stops
  main,       \* where main is
  reader,     \* where the second readCommits is
  serveRaft,  \* where the goroutine of serveRaft is
  proposer,   \* where the goroutine that proposes is
  hpc,        \* what a handler waits to send
  leader,     \* the cluster has a leader (external)
  exit        \* how the process ended

down == <<loop, cause>>
readers == <<main, reader>>
proposals == <<proposer, hpc, leader>>
shutdownVars == <<closes, down, readers, serveRaft, proposals, exit>>

Channels == {"httpstopc", "httpdonec", "commitC", "errorC", "confChangeC", "proposeC", "stopc"}

Closed(ch) == closes[ch] > 0

Close(ch) == closes' = [closes EXCEPT ![ch] = @ + 1]

\* newRaftNode and startRaft have started the goroutines; main replays.
ShutdownInit ==
  /\ closes = [ch \in Channels |-> 0]
  /\ loop = "select" /\ cause = "none"
  /\ main = "replay" /\ reader = "none"
  /\ serveRaft = "listen" /\ proposer = "select"
  /\ hpc = [c \in Callers |-> "idle"] /\ leader \in BOOLEAN
  /\ exit = "running"

-----------------------------------------------------------------------------
(* The event loop.                                                         *)

TakeReady ==
  /\ loop = "select"
  /\ loop' = "publish"
  /\ UNCHANGED <<closes, cause, readers, serveRaft, proposals, exit>>

\* The nil message of a Ready, after which newKVStore returns.
PublishNil ==
  /\ loop = "publish" /\ main = "replay"
  /\ main' = "serve" /\ reader' = "range"
  /\ UNCHANGED <<closes, down, serveRaft, proposals, exit>>

\* publishEntries returns true; the loop advances.
EndReady ==
  /\ loop = "publish"
  /\ loop' = "select"
  /\ UNCHANGED <<closes, cause, readers, serveRaft, proposals, exit>>

\* publishEntries returns false: this member was removed.
PublishRemoval ==
  /\ loop = "publish"
  /\ loop' = "stopHTTP" /\ cause' = "removed"
  /\ UNCHANGED <<closes, readers, serveRaft, proposals, exit>>

\* The transport reports an error to ErrorC, which it does only while the loop
\* is at its select.
TransportError ==
  /\ loop = "select"
  /\ loop' = "stopHTTP" /\ cause' = "error"
  /\ UNCHANGED <<closes, readers, serveRaft, proposals, exit>>

\* Mutant: stopHTTP does not close httpstopc.
SignalStop_Forgotten == UNCHANGED closes

SignalStop == Close("httpstopc")

\* stopHTTP, called by stop and by writeError.
StopHTTP ==
  /\ loop = "stopHTTP"
  /\ SignalStop
  /\ loop' = "waitHTTP"
  /\ UNCHANGED <<cause, readers, serveRaft, proposals, exit>>

\* Mutant: writeError closes errorC like stop.
AfterCommitC_NoError == "closeError"

\* writeError sends on errorC before it closes it, stop only closes it.
AfterCommitC == IF cause = "error" THEN "sendError" ELSE "closeError"

CloseCommitC ==
  /\ loop = "waitHTTP" /\ Closed("httpdonec")
  /\ Close("commitC")
  /\ loop' = AfterCommitC
  /\ UNCHANGED <<cause, readers, serveRaft, proposals, exit>>

\* errorC is unbuffered, and whoever waits may get the error.
SendError ==
  /\ loop = "sendError"
  /\ \/ reader = "error" /\ reader' = "fatal" /\ UNCHANGED main
     \/ main \in {"replayError", "serve"} /\ main' = "fatal" /\ UNCHANGED reader
  /\ loop' = "closeError"
  /\ UNCHANGED <<closes, cause, serveRaft, proposals, exit>>

CloseErrorC ==
  /\ loop = "closeError"
  /\ Close("errorC")
  /\ loop' = "stopNode"
  /\ UNCHANGED <<cause, readers, serveRaft, proposals, exit>>

\* Mutant: the return after stop or writeError is missing.
AfterStop_NoReturn == "select"

AfterStop == "returned"

\* node.Stop() and the end of serveChannels.
StopNode ==
  /\ loop = "stopNode"
  /\ loop' = AfterStop
  /\ UNCHANGED <<closes, cause, readers, serveRaft, proposals, exit>>

NodeStopped == loop = "returned"

-----------------------------------------------------------------------------
(* serveRaft and its listener.                                             *)

Die == exit' = "fatal"

Listen ==
  /\ serveRaft = "listen"
  /\ \/ serveRaft' = "accept" /\ UNCHANGED exit
     \/ Die /\ UNCHANGED serveRaft
  /\ UNCHANGED <<closes, down, readers, proposals>>

\* Accept returns an error because stopc is closed, and Serve returns it.  A
\* connection that Accept returns changes nothing here.
AcceptStopped ==
  /\ serveRaft = "accept" /\ Closed("httpstopc")
  /\ serveRaft' = "returned"
  /\ UNCHANGED <<closes, down, readers, proposals, exit>>

\* AcceptTCP fails, before or after the stop.
AcceptFails ==
  /\ serveRaft = "accept"
  /\ serveRaft' = "returned"
  /\ UNCHANGED <<closes, down, readers, proposals, exit>>

\* Mutant: serveRaft closes httpdonec without looking at httpstopc.
Served_Unchecked ==
  /\ serveRaft = "returned"
  /\ Close("httpdonec") /\ serveRaft' = "done" /\ UNCHANGED exit
  /\ UNCHANGED <<down, readers, proposals>>

\* The select after Serve: an orderly stop, or log.Fatalf.
Served ==
  /\ serveRaft = "returned"
  /\ IF Closed("httpstopc")
     THEN Close("httpdonec") /\ serveRaft' = "done" /\ UNCHANGED exit
     ELSE Die /\ UNCHANGED <<closes, serveRaft>>
  /\ UNCHANGED <<down, readers, proposals>>

-----------------------------------------------------------------------------
(* readCommits, first in main and then as a goroutine, and main.           *)

\* The range over commitC ends.
RangeEnds ==
  /\ Closed("commitC")
  /\ \/ main = "replay" /\ main' = "replayError" /\ UNCHANGED reader
     \/ reader = "range" /\ reader' = "error" /\ UNCHANGED main
  /\ UNCHANGED <<closes, down, serveRaft, proposals, exit>>

\* A receive from errorC that is closed: readCommits returns.
ReadCommitsReturns ==
  /\ Closed("errorC")
  /\ \/ main = "replayError" /\ main' = "serve" /\ reader' = "range"
     \/ reader = "error" /\ reader' = "ended" /\ UNCHANGED main
  /\ UNCHANGED <<closes, down, serveRaft, proposals, exit>>

\* log.Fatal with the error that was received.
LogFatal ==
  /\ main = "fatal" \/ reader = "fatal"
  /\ Die
  /\ UNCHANGED <<closes, down, readers, serveRaft, proposals>>

\* serveHttpKVAPI returns when errorC is closed.
ServeReturns ==
  /\ main = "serve" /\ Closed("errorC")
  /\ main' = "closeConf"
  /\ UNCHANGED <<closes, down, reader, serveRaft, proposals, exit>>

\* The deferred calls of main, last one first, and the end of the process.
MainReturns ==
  /\ \/ main = "closeConf" /\ Close("confChangeC") /\ main' = "closeProp" /\ UNCHANGED exit
     \/ main = "closeProp" /\ Close("proposeC") /\ main' = "returned" /\ UNCHANGED exit
     \/ main = "returned" /\ exit' = "ok" /\ UNCHANGED <<closes, main>>
  /\ UNCHANGED <<down, reader, serveRaft, proposals>>

\* The http server of the store runs once main has called serveHttpKVAPI.
Serving == main \notin {"replay", "replayError"}

ListenAndServeFails ==
  /\ Serving
  /\ Die
  /\ UNCHANGED <<closes, down, readers, serveRaft, proposals>>

-----------------------------------------------------------------------------
(* Handlers and the goroutine that proposes.                               *)

RequestChannels == {"proposeC", "confChangeC"}

\* A PUT comes to its send on proposeC, a POST or DELETE to that on confChangeC.
\* A GET, a bad request and another method wait for nothing.
ServeHTTP(c) ==
  /\ Serving /\ hpc[c] = "idle"
  /\ \E ch \in RequestChannels : hpc' = [hpc EXCEPT ![c] = ch]
  /\ UNCHANGED <<closes, down, readers, serveRaft, proposer, leader, exit>>

\* net/http recovers the panic of a send on a closed channel.
SendPanics(c) ==
  /\ hpc[c] \in RequestChannels /\ Closed(hpc[c])
  /\ hpc' = [hpc EXCEPT ![c] = "idle"]
  /\ UNCHANGED <<closes, down, readers, serveRaft, proposer, leader, exit>>

\* Mutant: the select has no case for conf changes.
Receive_NoConf(c, ch) ==
  /\ proposer = "select" /\ ch = "proposeC" /\ hpc[c] = ch /\ ~Closed(ch)
  /\ hpc' = [hpc EXCEPT ![c] = "idle"]
  /\ proposer' = "propose"
  /\ UNCHANGED <<closes, down, readers, serveRaft, leader, exit>>

\* The handler's send meets the receive; the handler answers 204.
Receive(c, ch) ==
  /\ proposer = "select" /\ hpc[c] = ch /\ ~Closed(ch)
  /\ hpc' = [hpc EXCEPT ![c] = "idle"]
  /\ proposer' = "propose"
  /\ UNCHANGED <<closes, down, readers, serveRaft, leader, exit>>

\* Propose and ProposeConfChange return when a leader is known or the node is
\* stopped.
Propose ==
  /\ proposer = "propose"
  /\ leader \/ NodeStopped
  /\ proposer' = "select"
  /\ UNCHANGED <<closes, down, readers, serveRaft, hpc, leader, exit>>

\* A channel is closed: the goroutine ends.
ProposerEnds ==
  /\ proposer = "select"
  /\ \E ch \in RequestChannels : Closed(ch)
  /\ Close("stopc")
  /\ proposer' = "ended"
  /\ UNCHANGED <<down, readers, serveRaft, hpc, leader, exit>>

LeaderChanges ==
  /\ leader' = ~leader
  /\ UNCHANGED <<closes, down, readers, serveRaft, proposer, hpc, exit>>

-----------------------------------------------------------------------------
ShutdownNext ==
  /\ exit = "running"
  /\ \/ TakeReady \/ PublishNil \/ EndReady \/ PublishRemoval \/ TransportError
     \/ StopHTTP \/ CloseCommitC \/ SendError \/ CloseErrorC \/ StopNode
     \/ Listen \/ AcceptStopped \/ AcceptFails \/ Served
     \/ RangeEnds \/ ReadCommitsReturns \/ LogFatal
     \/ ServeReturns \/ MainReturns \/ ListenAndServeFails
     \/ \E c \in Callers : ServeHTTP(c) \/ SendPanics(c)
     \/ \E c \in Callers, ch \in RequestChannels : Receive(c, ch)
     \/ Propose \/ ProposerEnds \/ LeaderChanges

ShutdownSpec == ShutdownInit /\ [][ShutdownNext]_shutdownVars

\* Every goroutine that can run does run: the loop comes back from a Ready and
\* goes through its stop, the listener returns, the readers go on.  A sender is
\* served by a select that chooses at random among its ready cases.
ShutdownFairSpec ==
  /\ ShutdownSpec
  /\ WF_shutdownVars(ShutdownNext /\
       (EndReady \/ StopHTTP \/ CloseCommitC \/ SendError \/ CloseErrorC \/ StopNode))
  /\ WF_shutdownVars(ShutdownNext /\ (Listen \/ AcceptStopped \/ Served))
  /\ WF_shutdownVars(ShutdownNext /\ (RangeEnds \/ ReadCommitsReturns \/ LogFatal))
  /\ WF_shutdownVars(ShutdownNext /\ (ServeReturns \/ MainReturns))
  /\ WF_shutdownVars(ShutdownNext /\ Propose)
  /\ \A c \in Callers, ch \in RequestChannels : SF_shutdownVars(ShutdownNext /\ Receive(c, ch))

-----------------------------------------------------------------------------
(* Properties.                                                             *)

ShutdownTypeOK ==
  /\ closes \in [Channels -> Nat]
  /\ loop \in {"select", "publish", "stopHTTP", "waitHTTP", "sendError", "closeError",
               "stopNode", "returned"}
  /\ cause \in {"none", "error", "removed"}
  /\ main \in {"replay", "replayError", "serve", "fatal", "closeConf", "closeProp", "returned"}
  /\ reader \in {"none", "range", "error", "fatal", "ended"}
  /\ serveRaft \in {"listen", "accept", "returned", "done"}
  /\ proposer \in {"select", "propose", "ended"}
  /\ hpc \in [Callers -> {"idle"} \cup RequestChannels]
  /\ leader \in BOOLEAN
  /\ exit \in {"running", "fatal", "ok"}

\* No channel is closed twice, which would panic in a goroutine that nothing
\* recovers: stop, writeError, serveRaft, the proposer and main share out the
\* closes among themselves.
ClosedOnce == \A ch \in Channels : closes[ch] <= 1

(* Peers are served as long as the event loop runs: serveRaft ends without *)
(* ending the process only when the loop has asked it to.                  *)
PeersServed == serveRaft = "done" => cause # "none"

(* The error that writeError sends is not lost: main returns with status 0 *)
(* after a transport error only when the reader of commits holds the error *)
(* and is on its way to log.Fatal.                                         *)
ErrorIsSeen == cause = "error" /\ exit = "ok" => reader = "fatal"

(* "exit when raft goes down" (serveHttpKVAPI): once the event loop stops, *)
(* for a removal or an error, while replaying or while serving, with       *)
(* handlers and the proposer blocked or not, the process ends.             *)
RaftDownExits == cause # "none" ~> exit # "running"

(* With a leader, a PUT, POST or DELETE that waits to hand its request to  *)
(* the proposer gets its answer, or the process ends: neither channel      *)
(* starves the other.                                                      *)
RequestsTaken ==
  <>[]leader => \A c \in Callers : hpc[c] # "idle" ~> hpc[c] = "idle" \/ exit # "running"

(* serveHttpKVAPI and readCommits both call log.Fatal for an error: a      *)
(* transport error does not end the process with status 0.                 *)
ErrorFails == cause = "error" => exit # "ok"
=============================================================================
