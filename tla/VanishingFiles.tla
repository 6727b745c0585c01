--------------------------- MODULE VanishingFiles ---------------------------
(***************************************************************************)
(* The file service of vanishling: concurrent uploads and downloads that   *)
(* share one journaler and one WaitGroup, the journal of expiry dates, and *)
(* the cleaner that removes expired files.  A file is named by the upload  *)
(* it comes from.  Dates are kept relative to the present.                 *)
(***************************************************************************)
EXTENDS Integers, Sequences, FiniteSets

CONSTANTS
  Uploads, Downloads,   \* requests
  Headers,              \* the durations that x-ttl may carry
  NoTTL,                \* x-ttl is missing or is not a duration
  DefaultFileTTL, DefaultMaxTTL,
  Sec,                  \* ticks of the clock in a second
  MaxJournal,           \* entries that fit in DefaultMaxJournalSize
  IOFaults,             \* whether reads and writes may fail
  MaxCrashes            \* bound on the crashes of the process

ASSUME VanishingAssumption ==
  /\ Uploads \cap Downloads = {}
  /\ Headers \subseteq Int /\ NoTTL \notin Headers
  /\ DefaultFileTTL \in Nat /\ DefaultMaxTTL \in Nat
  /\ Sec \in Nat \ {0} /\ MaxJournal \in Nat
  /\ IOFaults \in BOOLEAN /\ MaxCrashes \in Nat

Transfers == Uploads \cup Downloads

\* How long ago a date was is not told apart beyond this.
LongAgo == -Sec - 1

VARIABLES
  hpc,       \* where ServeHTTP of a request is
  wpc,       \* where the goroutine it starts is
  wg,        \* the counter of f.wg
  reply,     \* the status the goroutine wrote
  header,    \* x-ttl of an upload
  fileTTL,   \* journaler.fileTTL
  ttl,       \* the argument of CommitJournal
  disk,      \* the files in DefaultStoragePath
  journal,   \* the file of each journal entry
  exp,       \* ticks until the date in the entry of a file
  due,       \* history: ticks until the time that date was made from
  cpc,       \* where the cleaner is
  entries,   \* the entries deleteFunc has yet to look at
  phase,     \* ticks since the current second began
  crashes

served == <<hpc, wg>>
work == <<reply, header, fileTTL, ttl>>
dates == <<exp, due, phase>>
cleaner == <<cpc, entries>>
vars == <<served, wpc, work, disk, journal, dates, cleaner, crashes>>

Init ==
  /\ hpc = [r \in Transfers |-> "new"] /\ wpc = [r \in Transfers |-> "none"] /\ wg = 0
  /\ reply = [r \in Transfers |-> "none"]
  /\ header = [r \in Uploads |-> NoTTL] /\ fileTTL = 0 /\ ttl = [r \in Uploads |-> 0]
  /\ disk = {} /\ journal = <<>>
  /\ exp = [r \in Uploads |-> LongAgo] /\ due = [r \in Uploads |-> LongAgo] /\ phase = 0
  /\ cpc = "idle" /\ entries = <<>>
  /\ crashes = 0

-----------------------------------------------------------------------------
(* ServeHTTP and the WaitGroup that all requests share.                    *)

\* Mutant: the goroutine is started before it is counted.
Counted_Late == 0

\* Mutant: it is counted in ServeHTTP and in the goroutine.
Counted_Twice == 2

Counted == 1

Serve(r) ==
  /\ hpc[r] = "new"
  /\ wg' = wg + Counted
  /\ hpc' = [hpc EXCEPT ![r] = "started"] /\ wpc' = [wpc EXCEPT ![r] = "start"]
  /\ UNCHANGED <<work, disk, journal, dates, cleaner, crashes>>

Wait(r) ==
  /\ hpc[r] = "started"
  /\ hpc' = [hpc EXCEPT ![r] = IF wg = 0 THEN "returned" ELSE "waiting"]
  /\ UNCHANGED <<wg, wpc, work, disk, journal, dates, cleaner, crashes>>

\* A woken Wait panics when the WaitGroup is in use again (external).
WakeUp(r) ==
  /\ hpc[r] = "woken"
  /\ hpc' = [hpc EXCEPT ![r] = IF wg = 0 THEN "returned" ELSE "panicked"]
  /\ UNCHANGED <<wg, wpc, work, disk, journal, dates, cleaner, crashes>>

\* The deferred wg.Done: at zero, everyone in Wait is woken.
Done(r) ==
  /\ wpc' = [wpc EXCEPT ![r] = "done"]
  /\ wg' = wg - 1
  /\ hpc' = [q \in Transfers |->
               IF wg' = 0 /\ hpc[q] = "waiting" THEN "woken" ELSE hpc[q]]

-----------------------------------------------------------------------------
(* upload and download.                                                    *)

\* The disk is almost full, or the form, the name or the size is refused.
Refuse(r) ==
  /\ r \in Uploads /\ wpc[r] = "start"
  /\ reply' = [reply EXCEPT ![r] = "error"]
  /\ Done(r)
  /\ UNCHANGED <<header, fileTTL, ttl, disk, journal, dates, cleaner, crashes>>

\* hashFile, under f.mu, and the status of the response.
StoreFile(r) ==
  /\ r \in Uploads /\ wpc[r] = "start"
  /\ disk' = disk \cup {r}
  /\ reply' = [reply EXCEPT ![r] = "ok"]
  /\ wpc' = [wpc EXCEPT ![r] = "set"]
  /\ UNCHANGED <<served, header, fileTTL, ttl, journal, dates, cleaner, crashes>>

\* The file is created and its contents cannot be read or written.
StoreFails(r) ==
  /\ IOFaults
  /\ r \in Uploads /\ wpc[r] = "start"
  /\ disk' = disk \cup {r}
  /\ reply' = [reply EXCEPT ![r] = "error"]
  /\ Done(r)
  /\ UNCHANGED <<header, fileTTL, ttl, journal, dates, cleaner, crashes>>

\* The TTL an upload asks for by its header.
Asked(x) == IF x # NoTTL /\ x <= DefaultMaxTTL THEN x ELSE DefaultFileTTL

SetFileTTL(r) ==
  /\ r \in Uploads /\ wpc[r] = "set"
  /\ \E x \in Headers \cup {NoTTL} : header' = [header EXCEPT ![r] = x] /\ fileTTL' = Asked(x)
  /\ wpc' = [wpc EXCEPT ![r] = "get"]
  /\ UNCHANGED <<served, reply, ttl, disk, journal, dates, cleaner, crashes>>

GetFileTTL(r) ==
  /\ r \in Uploads /\ wpc[r] = "get"
  /\ ttl' = [ttl EXCEPT ![r] = fileTTL]
  /\ wpc' = [wpc EXCEPT ![r] = "commit"]
  /\ UNCHANGED <<served, reply, header, fileTTL, disk, journal, dates, cleaner, crashes>>

Logged(r) == Append(journal, r)

\* time.UnixDate has whole seconds.
UnixDate(d) == d - ((phase + d) % Sec)

CommitJournal(r) ==
  /\ r \in Uploads /\ wpc[r] = "commit"
  /\ journal' = Logged(r)
  /\ exp' = [exp EXCEPT ![r] = UnixDate(ttl[r])] /\ due' = [due EXCEPT ![r] = ttl[r]]
  /\ Done(r)
  /\ UNCHANGED <<work, disk, phase, cleaner, crashes>>

\* A failure to open or write the journal is only logged.
CommitFails(r) ==
  /\ IOFaults
  /\ r \in Uploads /\ wpc[r] = "commit"
  /\ Done(r)
  /\ UNCHANGED <<work, disk, journal, dates, cleaner, crashes>>

\* Any file may be asked for.
Download(r) ==
  /\ r \in Downloads /\ wpc[r] = "start"
  /\ \E f \in Uploads : reply' = [reply EXCEPT ![r] = IF f \in disk THEN "ok" ELSE "error"]
  /\ Done(r)
  /\ UNCHANGED <<header, fileTTL, ttl, disk, journal, dates, cleaner, crashes>>

-----------------------------------------------------------------------------
(* The cleaner.                                                            *)

CleanStart ==
  /\ cpc = "idle"
  /\ cpc' = "scan" /\ entries' = journal
  /\ UNCHANGED <<served, wpc, work, disk, journal, dates, crashes>>

\* Mutant: the sign of the comparison is wrong.
Expired_Flipped(f) == exp[f] > 0

Expired(f) == exp[f] < 0

CleanEntry ==
  /\ cpc = "scan" /\ entries # <<>>
  /\ disk' = IF Expired(Head(entries)) THEN disk \ {Head(entries)} ELSE disk
  /\ entries' = Tail(entries)
  /\ UNCHANGED <<served, wpc, work, journal, dates, cpc, crashes>>

\* Mutant: the journal is truncated after every pass.
TooLong_Always == TRUE

TooLong == Len(journal) > MaxJournal

CleanEnd ==
  /\ cpc = "scan" /\ entries = <<>>
  /\ cpc' = "idle"
  /\ journal' = IF TooLong THEN <<>> ELSE journal
  /\ UNCHANGED <<served, wpc, work, disk, dates, entries, crashes>>

-----------------------------------------------------------------------------
(* Time, and the end of the process.                                       *)

Later(d) == IF d > LongAgo THEN d - 1 ELSE d

Tick ==
  /\ phase' = (phase + 1) % Sec
  /\ exp' = [f \in Uploads |-> Later(exp[f])] /\ due' = [f \in Uploads |-> Later(due[f])]
  /\ UNCHANGED <<served, wpc, work, disk, journal, cleaner, crashes>>

\* Disk and journal survive; New starts over.
Crash ==
  /\ crashes < MaxCrashes
  /\ crashes' = crashes + 1
  /\ hpc' = [r \in Transfers |-> IF hpc[r] \in {"new", "returned", "panicked"}
                                THEN hpc[r] ELSE "lost"]
  /\ wpc' = [r \in Transfers |-> IF wpc[r] \in {"none", "done"} THEN wpc[r] ELSE "lost"]
  /\ wg' = 0 /\ fileTTL' = 0
  /\ cpc' = "idle" /\ entries' = <<>>
  /\ UNCHANGED <<reply, header, ttl, disk, journal, dates>>

Work(r) ==
  \/ Refuse(r) \/ StoreFile(r) \/ StoreFails(r) \/ SetFileTTL(r) \/ GetFileTTL(r)
  \/ CommitJournal(r) \/ CommitFails(r) \/ Download(r)

Clean == CleanStart \/ CleanEntry \/ CleanEnd

Next ==
  \/ \E r \in Transfers : Serve(r) \/ Wait(r) \/ WakeUp(r) \/ Work(r)
  \/ Clean \/ Tick \/ Crash

Spec == Init /\ [][Next]_vars

\* Goroutines are scheduled, the cleaner's ticker fires, and time passes.
FairSpec ==
  /\ Spec
  /\ \A r \in Transfers : WF_vars(Wait(r)) /\ WF_vars(WakeUp(r)) /\ WF_vars(Work(r))
  /\ WF_vars(Clean) /\ WF_vars(Tick)

-----------------------------------------------------------------------------
(* Properties.                                                             *)

TypeOK ==
  /\ hpc \in [Transfers -> {"new", "started", "waiting", "woken", "returned", "panicked", "lost"}]
  /\ wpc \in [Transfers -> {"none", "start", "set", "get", "commit", "done", "lost"}]
  /\ wg \in 0..Cardinality(Transfers)
  /\ reply \in [Transfers -> {"none", "ok", "error"}]
  /\ header \in [Uploads -> Headers \cup {NoTTL}]
  /\ fileTTL \in Int /\ ttl \in [Uploads -> Int]
  /\ disk \subseteq Uploads
  /\ journal \in Seq(Uploads) /\ Len(journal) <= Cardinality(Uploads)
  /\ exp \in [Uploads -> Int] /\ due \in [Uploads -> Int] /\ phase \in 0..(Sec - 1)
  /\ cpc \in {"idle", "scan"} /\ entries \in Seq(Uploads)
  /\ crashes \in 0..MaxCrashes

Journalled(f) == \E i \in 1..Len(journal) : journal[i] = f

\* ServeHTTP returns, and net/http takes back the response, only when the
\* goroutine that writes it is through, although f.wg is shared by all requests.
NoWriteAfterReturn ==
  \A r \in Transfers : hpc[r] \in {"returned", "panicked"} => wpc[r] = "done"

\* The cleaner leaves a file alone until less than a second, the precision of
\* the journal, is missing from its TTL.
KeptUntilDue ==
  \A f \in Uploads : Journalled(f) /\ due[f] >= Sec => f \in disk

\* "one that holds every file name that have ingress'ed so they can be deleted
\* even if the core has crashed": a file whose upload has ended is journalled.
EveryFileJournalled ==
  \A f \in disk : wpc[f] \in {"set", "get", "commit"} \/ Journalled(f)

\* "after the ttl expire, delete the file from fs": a journalled file does not
\* stay for ever, crashes or not.
FileVanishes == \A f \in Uploads : Journalled(f) ~> f \notin disk

\* Once no more requests come, every ServeHTTP ends, although it waits for the
\* goroutines of all the others too: none is counted twice or not at all.
ServeEnds ==
  \A r \in Transfers : hpc[r] # "new" ~> hpc[r] \in {"returned", "panicked", "lost"}

\* "if no ttl provided use default from cfg or else use the provided ttl": a
\* file is journalled with the TTL of its own request.
OwnTTL == \A f \in Uploads : Journalled(f) => ttl[f] = Asked(header[f])

\* "return auth key": the response to a stored upload reaches its client,
\* which it does when ServeHTTP returns.
KeyReturned ==
  \A r \in Uploads : reply[r] = "ok" => hpc[r] # "panicked"
=============================================================================
