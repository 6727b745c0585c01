--------------------------- MODULE HandlersProofs ---------------------------
(***************************************************************************)
(* The HTTP handlers that share state: the form that changes passwords     *)
(* implements PasswordRegister, for any number of requests, users and      *)
(* passwords; the responses and the files of vanishling, for any requests, *)
(* TTLs, length of the journal and number of crashes.                      *)
(***************************************************************************)
EXTENDS PasswordChange, VanishingFiles, FiniteSetTheorems, TLAPS

\* The solvers that a leaf without one of its own tries in turn, with their time
\* limits in seconds.
USE SMTT(15), ZenonT(20), SMTT(30), SMTT(60), SMTT(120)

-----------------------------------------------------------------------------
(* The password form.                                                      *)

\* Places at which the form has passed the checks.
Checked == {"validate", "search", "bind", "rebind", "change", "modify"}

\* Places at which the user is one of the directory's.
Known == {"bind", "rebind", "change", "modify"}

\* A handler that goes on has a form that passed the checks, for a user that
\* the search found; a request that has had its effect is done; and only a
\* request that is done was told anything.
IInv ==
  /\ pc \in [Requests -> Checked \cup {"new", "done"}]
  /\ DOMAIN form = Requests /\ DOMAIN told = Requests
  /\ \A r \in Requests : pc[r] \in Checked =>
       form[r] \in Forms /\ CheckPasswdLen(form[r]) /\ CheckStrength(form[r])
  /\ \A r \in Requests : pc[r] \in Known => form[r].username \in Users
  /\ DOMAIN password = Users
  /\ \A r \in Requests : pc[r] # "done" => r \notin changed /\ told[r] # "modified"

\* An answer ends the handler, and nothing that the others rest on changes.
LEMMA AnsweredKeeps ==
  ASSUME IInv, NEW r \in Requests, NEW answer, Answered(r, answer),
         DOMAIN password' = Users, changed' \in {changed, changed \cup {r}}
  PROVE  IInv'
<1>1. \A q \in Requests \ {r} : pc'[q] = pc[q] /\ form'[q] = form[q] /\ told'[q] = told[q]
  BY DEF IInv, Answered
<1>2. pc'[r] = "done" /\ pc' \in [Requests -> Checked \cup {"new", "done"}]
  BY DEF IInv, Answered
<1>3. DOMAIN form' = Requests /\ DOMAIN told' = Requests
  BY DEF IInv, Answered
<1>4. \A q \in Requests \ {r} : q \in changed' => q \in changed
  OBVIOUS
<1> QED
  BY <1>1, <1>2, <1>3, <1>4 DEF IInv, Checked, Known

\* A handler that goes on, with its form, to a place the search allows.
LEMMA GoesToKeeps ==
  ASSUME IInv, NEW r \in Requests, NEW where, GoesTo(r, where), UNCHANGED directory,
         pc[r] \in Checked, where \in Checked,
         where \in Known => form[r].username \in Users
  PROVE  IInv'
<1>1. pc' = [pc EXCEPT ![r] = where] /\ form' = form /\ told' = told
  BY DEF GoesTo
<1>2. password' = password /\ changed' = changed
  BY DEF directory
<1>3. pc[r] # "done"
  BY DEF Checked
<1> QED
  BY <1>1, <1>2, <1>3 DEF IInv

\* The initial state has the invariant, and every step keeps it.
THEOREM Invariance == PasswordSpec => []IInv
<1>1. PasswordInit => IInv
  <2> SUFFICES ASSUME PasswordInit PROVE IInv
    OBVIOUS
  <2>1. \A r \in Requests : told[r] = "nothing" /\ pc[r] = "new"
    BY DEF PasswordInit
  <2> QED
    BY <2>1 DEF PasswordInit, IInv, Checked, Known
<1>2. IInv /\ [PasswordNext]_passwordVars => IInv'
  <2> SUFFICES ASSUME IInv, [PasswordNext]_passwordVars PROVE IInv'
    OBVIOUS
  <2>1. ASSUME NEW r \in Requests, RefuseForm(r) PROVE IInv'
    BY <2>1, AnsweredKeeps DEF RefuseForm, directory, IInv
  <2>2. ASSUME NEW r \in Requests, Post(r) PROVE IInv'
    <3>1. PICK f \in Forms : CheckPasswdLen(f) /\ CheckStrength(f) /\ form' = [form EXCEPT ![r] = f]
      BY <2>2, ZenonT(30) DEF Post
    <3>2. pc' = [pc EXCEPT ![r] = "validate"] /\ UNCHANGED <<told, password, changed>> /\ pc[r] = "new"
      BY <2>2 DEF Post, directory
    <3> QED
      BY <3>1, <3>2 DEF IInv, Checked, Known
  <2>3. ASSUME NEW r \in Requests, Connect(r) PROVE IInv'
    BY <2>3, GoesToKeeps DEF Connect, Connecting, Connected, Checked, Known, IInv
  <2>4. ASSUME NEW r \in Requests, DialFails(r) \/ StartFails(r) \/ Invalid(r) \/ ModifyFails(r)
        PROVE  IInv'
    BY <2>4, AnsweredKeeps DEF DialFails, StartFails, Invalid, ModifyFails, directory, IInv
  <2>5. ASSUME NEW r \in Requests, Search(r) \/ BindUser(r) \/ Rebind(r) PROVE IInv'
    BY <2>5, GoesToKeeps DEF Search, BindUser, Rebind, Checked, Known, IInv
  <2>6. ASSUME NEW r \in Requests, PasswordModify(r) \/ ModifyLost(r) PROVE IInv'
    <3>1. DOMAIN password' = Users /\ changed' = changed \cup {r}
      BY <2>6 DEF PasswordModify, ModifyLost, Modified, IInv
    <3> QED
      BY <2>6, <3>1, AnsweredKeeps DEF PasswordModify, ModifyLost
  <2>7. ASSUME NEW r \in Requests, Timeout(r) PROVE IInv'
    BY <2>7 DEF Timeout, directory, IInv
  <2>8. CASE UNCHANGED passwordVars
    BY <2>8 DEF passwordVars, IInv
  <2> QED
    BY <2>1, <2>2, <2>3, <2>4, <2>5, <2>6, <2>7, <2>8 DEF PasswordNext, Handle, passwordVars
<1> QED
  BY <1>1, <1>2, PTL DEF PasswordSpec

Notified == {r \in Requests : told[r] = "modified"}

\* An answer other than "modified" leaves the register's view as it was.
LEMMA OtherAnswers ==
  ASSUME IInv, NEW r \in Requests, NEW answer, answer # "modified", pc[r] # "done", Answered(r, answer)
  PROVE  Notified' = Notified
<1>1. told[r] # "modified" /\ told'[r] # "modified"
  BY DEF IInv, Answered
<1>2. \A q \in Requests \ {r} : told'[q] = told[q]
  BY DEF IInv, Answered
<1> QED
  BY <1>1, <1>2 DEF Notified

\* A change of the directory is a step of the register.
LEMMA ModifiedReplaces ==
  ASSUME IInv, NEW r \in Requests, pc[r] = "modify", Modified(r),
         Notified' \in {Notified, Notified \cup {r}}
  PROVE  Register!RNext
<1> DEFINE f == form[r]
<1>1. f \in Forms /\ CheckPasswdLen(f) /\ CheckStrength(f) /\ f.username \in Users /\ r \notin changed
  BY DEF IInv, Checked, Known
<1>2. f.currentpass \in Passwords /\ f.newpass2 \in Passwords
  BY <1>1 DEF Forms
<1>3. PICK u \in Users, current \in Passwords, new \in Passwords :
        u = f.username /\ current = f.currentpass /\ new = f.newpass2
  BY <1>1, <1>2
<1>4. Register!Replace(r, u, current, new)
  BY <1>1, <1>3 DEF Register!Replace, Modified, Accepts, CheckPasswdLen, CheckStrength, Notified
<1> QED
  BY <1>4 DEF Register!RNext

\* The service changes passwords as the register does: every step of a request
\* is a replacement of the password it knew of, or changes nothing the
\* register shows.
THEOREM Implements == PasswordSpec => ImplementsRegister
<1>1. PasswordInit => Register!RInit
  <2> SUFFICES ASSUME PasswordInit PROVE Register!RInit
    OBVIOUS
  <2>1. \A r \in Requests : told[r] # "modified"
    BY DEF PasswordInit
  <2> QED
    BY <2>1 DEF PasswordInit, Register!RInit
<1>2. IInv /\ [PasswordNext]_passwordVars => [Register!RNext]_(Register!rvars)
  <2> SUFFICES ASSUME IInv, [PasswordNext]_passwordVars
               PROVE  Register!RNext \/ (UNCHANGED directory /\ Notified' = Notified)
    BY DEF Register!rvars, directory, Notified
  <2>1. ASSUME NEW r \in Requests,
               RefuseForm(r) \/ DialFails(r) \/ StartFails(r) \/ Invalid(r) \/ ModifyFails(r)
        PROVE  UNCHANGED directory /\ Notified' = Notified
    <3>1. pc[r] # "done" /\ UNCHANGED directory
      BY <2>1 DEF RefuseForm, DialFails, StartFails, Connecting, Invalid, ModifyFails
    <3>2. Answered(r, "refused") \/ Answered(r, "error")
      BY <2>1 DEF RefuseForm, DialFails, StartFails, Invalid, ModifyFails
    <3> QED
      BY <3>1, <3>2, OtherAnswers
  <2>2. ASSUME NEW r \in Requests,
               Post(r) \/ Connect(r) \/ Search(r) \/ BindUser(r) \/ Rebind(r) \/ Timeout(r)
        PROVE  UNCHANGED directory /\ Notified' = Notified
    BY <2>2 DEF Post, Connect, Search, BindUser, Rebind, Timeout, GoesTo, Notified
  <2>3. ASSUME NEW r \in Requests, PasswordModify(r) PROVE Register!RNext
    <3>1. \A q \in Requests \ {r} : told'[q] = told[q]
      BY <2>3 DEF PasswordModify, Answered, IInv
    <3>2. told[r] # "modified"
      BY <2>3 DEF PasswordModify, IInv
    <3>3. Notified' \in {Notified, Notified \cup {r}}
      BY <3>1, <3>2 DEF Notified
    <3> QED
      BY <2>3, <3>3, ModifiedReplaces DEF PasswordModify
  <2>4. ASSUME NEW r \in Requests, ModifyLost(r) PROVE Register!RNext
    BY <2>4, OtherAnswers, ModifiedReplaces DEF ModifyLost
  <2>5. CASE UNCHANGED passwordVars
    BY <2>5 DEF passwordVars, directory, Notified
  <2> QED
    BY <2>1, <2>2, <2>3, <2>4, <2>5 DEF PasswordNext, Handle
<1> QED
  BY <1>1, <1>2, Invariance, PTL DEF PasswordSpec, ImplementsRegister, Register!RSpec

-----------------------------------------------------------------------------
(* The connections.                                                        *)

\* Places at which the handler holds a connection.
Holding == {"search", "bind", "rebind", "modify"}

\* A handler that goes on has the one connection it holds open and no other;
\* one that is done has left a connection behind only if it is an orphan's.
ConnInv ==
  /\ pc \in [Requests -> Checked \cup {"new", "done"}]
  /\ conns \in [Requests -> {0, 1}]
  /\ \A r \in Requests : pc[r] # "done" =>
       r \notin orphans /\ conns[r] = (IF pc[r] \in Holding THEN 1 ELSE 0)
  /\ ConnectionsClosed

\* The step leaves a request with n connections, and the others with theirs.
Sets(r, n) ==
  /\ conns' \in [Requests -> {0, 1}] /\ conns'[r] = n
  /\ \A q \in Requests \ {r} : conns'[q] = conns[q]

\* The handler of one request changes only what is its own.
LEMMA OwnConnection ==
  ASSUME ConnInv, NEW r \in Requests,
         NEW where \in Checked \cup {"new", "done"}, pc' = [pc EXCEPT ![r] = where],
         conns' \in [Requests -> {0, 1}], \A q \in Requests \ {r} : conns'[q] = conns[q],
         orphans' \in {orphans, orphans \cup {r}},
         where # "done" => r \notin orphans' /\ (conns'[r] = 1 <=> where \in Holding),
         where = "done" => (conns'[r] = 1 <=> r \in orphans')
  PROVE  ConnInv'
<1>1. \A q \in Requests \ {r} :
        pc'[q] = pc[q] /\ conns'[q] = conns[q] /\ (q \in orphans' <=> q \in orphans)
  BY DEF ConnInv
<1>2. pc'[r] = where
  BY DEF ConnInv
<1>3. pc' \in [Requests -> Checked \cup {"new", "done"}]
  BY DEF ConnInv
<1> QED
  BY <1>1, <1>2, <1>3 DEF ConnInv, ConnectionsClosed

\* Every request that was answered has closed its connections, whichever step
\* failed, but for the one on which StartTLS or Bind failed.
THEOREM NoConnectionLeft == PasswordSpec => []ConnectionsClosed
<1>1. PasswordInit => ConnInv
  BY DEF PasswordInit, ConnInv, ConnectionsClosed, Holding
<1>2. ConnInv /\ [PasswordNext]_passwordVars => ConnInv'
  <2> SUFFICES ASSUME ConnInv, [PasswordNext]_passwordVars PROVE ConnInv'
    OBVIOUS
  <2> USE DEF Checked, Holding
  <2>1. ASSUME NEW r \in Requests, RefuseForm(r) \/ DialFails(r) PROVE ConnInv'
    <3>1. pc[r] \in {"new", "validate", "change"} /\ pc' = [pc EXCEPT ![r] = "done"] /\ UNCHANGED <<conns, orphans>>
      BY <2>1 DEF RefuseForm, DialFails, Answered, Connecting
    <3>2. Sets(r, 0) /\ r \notin orphans
      BY <3>1 DEF ConnInv, Sets
    <3>3. conns'[r] # 1
      BY <3>2 DEF Sets
    <3> QED
      BY <3>1, <3>2, <3>3, OwnConnection, ZenonT(30) DEF Sets
  <2>2. ASSUME NEW r \in Requests, Post(r) PROVE ConnInv'
    <3>1. pc[r] = "new" /\ pc' = [pc EXCEPT ![r] = "validate"] /\ UNCHANGED <<conns, orphans>>
      BY <2>2 DEF Post
    <3>2. Sets(r, 0) /\ r \notin orphans
      BY <3>1 DEF ConnInv, Sets
    <3>3. conns'[r] # 1
      BY <3>2 DEF Sets
    <3> QED
      BY <3>1, <3>2, <3>3, OwnConnection, ZenonT(30) DEF Sets
  <2>3. ASSUME NEW r \in Requests, Connect(r) PROVE ConnInv'
    <3>1. PICK where \in {"search", "modify"} : pc' = [pc EXCEPT ![r] = where]
      BY <2>3, ZenonT(30) DEF Connect, GoesTo, Connected
    <3>2. pc[r] \in {"validate", "change"} /\ Opened(r) /\ orphans' = orphans
      BY <2>3 DEF Connect, Connecting
    <3>3. r \notin orphans /\ conns[r] = 0
      BY <3>2 DEF ConnInv
    <3>4. Sets(r, 1)
      BY <3>2, <3>3 DEF Opened, Sets, ConnInv
    <3> QED
      BY <3>1, <3>2, <3>3, <3>4, OwnConnection, ZenonT(30) DEF Sets
  <2>4. ASSUME NEW r \in Requests, StartFails(r) PROVE ConnInv'
    <3>1. pc[r] \in {"validate", "change"} /\ Opened(r) /\ orphans' = orphans \cup {r}
      BY <2>4 DEF StartFails, Connecting
    <3>2. pc' = [pc EXCEPT ![r] = "done"]
      BY <2>4 DEF StartFails, Answered
    <3>3. conns[r] = 0
      BY <3>1 DEF ConnInv
    <3>4. Sets(r, 1)
      BY <3>1, <3>3 DEF Opened, Sets, ConnInv
    <3> QED
      BY <3>1, <3>2, <3>4, OwnConnection, ZenonT(30) DEF Sets
  <2>5. ASSUME NEW r \in Requests, Search(r) \/ BindUser(r) PROVE ConnInv'
    <3>1. PICK where \in {"bind", "rebind"} : pc' = [pc EXCEPT ![r] = where]
      BY <2>5 DEF Search, BindUser, GoesTo
    <3>2. pc[r] \in {"search", "bind"} /\ UNCHANGED <<conns, orphans>>
      BY <2>5 DEF Search, BindUser
    <3>3. Sets(r, 1) /\ r \notin orphans
      BY <3>2 DEF ConnInv, Sets
    <3> QED
      BY <3>1, <3>2, <3>3, OwnConnection, ZenonT(30) DEF Sets
  <2>6. ASSUME NEW r \in Requests,
               Rebind(r) \/ Invalid(r) \/ PasswordModify(r) \/ ModifyLost(r) \/ ModifyFails(r)
        PROVE  ConnInv'
    <3>1. PICK where \in {"change", "done"} : pc' = [pc EXCEPT ![r] = where]
      BY <2>6 DEF Rebind, Invalid, PasswordModify, ModifyLost, ModifyFails, GoesTo, Answered
    <3>2. pc[r] \in {"search", "bind", "rebind", "modify"} /\ orphans' = orphans /\ Closed(r)
      BY <2>6 DEF Rebind, Invalid, PasswordModify, ModifyLost, ModifyFails
    <3>3. r \notin orphans /\ conns[r] = 1
      BY <3>2 DEF ConnInv
    <3>4. Sets(r, 0)
      BY <3>2, <3>3 DEF Closed, Sets, ConnInv
    <3>5. conns'[r] # 1
      BY <3>4 DEF Sets
    <3> QED
      BY <3>1, <3>2, <3>3, <3>4, <3>5, OwnConnection, ZenonT(30) DEF Sets
  <2>7. CASE UNCHANGED passwordVars \/ \E r \in Requests : Timeout(r)
    <3>1. UNCHANGED <<pc, conns, orphans>>
      BY <2>7 DEF passwordVars, Timeout
    <3> QED
      BY <3>1 DEF ConnInv, ConnectionsClosed
  <2> QED
    BY <2>1, <2>2, <2>3, <2>4, <2>5, <2>6, <2>7 DEF PasswordNext, Handle
<1>3. ConnInv => ConnectionsClosed
  BY DEF ConnInv
<1> QED
  BY <1>1, <1>2, <1>3, PTL DEF PasswordSpec

-----------------------------------------------------------------------------
(* vanishling.                                                             *)

\* The requests whose goroutine runs.
AtWork == {"start", "set", "get", "commit"}
Working == {r \in Transfers : wpc[r] \in AtWork}

\* f.wg counts the goroutines that run, and a handler waits for its own.
WaitInv ==
  /\ hpc \in [Transfers -> {"new", "started", "waiting", "woken", "returned", "panicked", "lost"}]
  /\ wpc \in [Transfers -> AtWork \cup {"none", "done", "lost"}]
  /\ IsFiniteSet(Working) /\ wg = Cardinality(Working)
  /\ \A r \in Transfers :
       /\ hpc[r] = "new" => wpc[r] = "none"
       /\ hpc[r] \in {"started", "waiting"} => wpc[r] \in AtWork \cup {"done"}
       /\ hpc[r] \in {"woken", "returned", "panicked"} => wpc[r] = "done"

In(f, s) == \E i \in 1..Len(s) : s[i] = f

\* A file is on disk while its upload goes on, and is journalled at its end; a
\* date in the journal is less than a second too early.
FileInv ==
  /\ fileTTL \in Int /\ ttl \in [Uploads -> Int]
  /\ journal \in Seq(Uploads) /\ entries \in Seq(Uploads)
  /\ exp \in [Uploads -> Int] /\ due \in [Uploads -> Int] /\ phase \in Int
  /\ \A f \in Uploads : In(f, journal) \/ In(f, entries) => wpc[f] = "done"
  /\ \A f \in Uploads : wpc[f] \in {"set", "get", "commit"} => f \in disk
  /\ \A f \in Uploads : exp[f] > due[f] - Sec
  /\ KeptUntilDue

-----------------------------------------------------------------------------
(* The WaitGroup.                                                          *)

USE VanishingAssumption DEF Transfers

\* A goroutine that ends takes one from f.wg; when it was the last one, those
\* who wait have nothing left to wait for.
LEMMA DoneKeeps ==
  ASSUME WaitInv, NEW r \in Transfers, wpc[r] \in AtWork, Done(r)
  PROVE  WaitInv'
<1> USE DEF AtWork
<1>1. /\ wpc' = [wpc EXCEPT ![r] = "done"] /\ wg' = wg - 1
      /\ hpc' = [q \in Transfers |-> IF wg' = 0 /\ hpc[q] = "waiting" THEN "woken" ELSE hpc[q]]
  BY DEF Done
<1>2. Working' = Working \ {r} /\ r \in Working
  BY <1>1 DEF Working, WaitInv
<1>3. IsFiniteSet(Working') /\ Cardinality(Working') = Cardinality(Working) - 1
  BY <1>2, FS_RemoveElement DEF WaitInv
<1>4. wg' = Cardinality(Working')
  BY <1>1, <1>3 DEF WaitInv
<1>5. wg' = 0 => Working' = {}
  BY <1>3, <1>4, FS_EmptySet
<1>6. wpc' \in [Transfers -> AtWork \cup {"none", "done", "lost"}]
  BY <1>1 DEF WaitInv
<1>7. hpc' \in [Transfers -> {"new", "started", "waiting", "woken", "returned", "panicked", "lost"}]
  BY <1>1 DEF WaitInv
<1>8. ASSUME NEW q \in Transfers
      PROVE  /\ hpc'[q] = "new" => wpc'[q] = "none"
             /\ hpc'[q] \in {"started", "waiting"} => wpc'[q] \in AtWork \cup {"done"}
             /\ hpc'[q] \in {"woken", "returned", "panicked"} => wpc'[q] = "done"
  <2>1. CASE hpc'[q] = hpc[q]
    BY <1>1, <2>1 DEF WaitInv
  <2>2. CASE hpc'[q] # hpc[q]
    <3>1. wg' = 0 /\ hpc[q] = "waiting" /\ hpc'[q] = "woken"
      BY <1>1, <2>2
    <3>2. q \notin Working' /\ wpc[q] \in AtWork \cup {"done"}
      BY <1>5, <3>1 DEF WaitInv
    <3>3. wpc'[q] = "done"
      BY <1>1, <1>6, <3>2 DEF Working, WaitInv
    <3> QED
      BY <3>1, <3>3
  <2> QED
    BY <2>1, <2>2
<1> QED
  BY <1>3, <1>4, <1>6, <1>7, <1>8 DEF WaitInv

\* A step between two places of the goroutine.
LEMMA GoOnKeeps ==
  ASSUME WaitInv, NEW r \in Transfers, wpc[r] \in AtWork, UNCHANGED served,
         NEW where \in AtWork, wpc' = [wpc EXCEPT ![r] = where]
  PROVE  WaitInv'
<1> USE DEF AtWork
<1>1. hpc' = hpc /\ wg' = wg
  BY DEF served
<1>2. wpc' \in [Transfers -> AtWork \cup {"none", "done", "lost"}]
  BY DEF WaitInv
<1>3. Working' = Working
  BY DEF Working, WaitInv
<1> QED
  BY <1>1, <1>2, <1>3 DEF WaitInv

\* Every step of a request, of the cleaner and of the clock, and every crash,
\* keeps the count of the WaitGroup.
LEMMA WaitPreserved == WaitInv /\ [Next]_vars => WaitInv'
<1> SUFFICES ASSUME WaitInv, [Next]_vars PROVE WaitInv'
  OBVIOUS
<1>1. ASSUME NEW r \in Transfers, Serve(r) PROVE WaitInv'
  <2>1. /\ hpc[r] = "new" /\ wg' = wg + 1 /\ hpc' = [hpc EXCEPT ![r] = "started"]
        /\ wpc' = [wpc EXCEPT ![r] = "start"]
    BY <1>1 DEF Serve, Counted
  <2>2. Working' = Working \cup {r} /\ r \notin Working
    BY <2>1 DEF Working, WaitInv, AtWork
  <2>3. IsFiniteSet(Working') /\ Cardinality(Working') = Cardinality(Working) + 1
    BY <2>2, FS_AddElement DEF WaitInv
  <2>4. wg' = Cardinality(Working')
    BY <2>1, <2>3 DEF WaitInv
  <2> QED
    BY <2>1, <2>3, <2>4 DEF WaitInv, AtWork
<1>2. ASSUME NEW r \in Transfers, Wait(r) PROVE WaitInv'
  <2>1. /\ hpc[r] = "started" /\ UNCHANGED <<wg, wpc>>
        /\ hpc' = [hpc EXCEPT ![r] = IF wg = 0 THEN "returned" ELSE "waiting"]
    BY <1>2 DEF Wait
  <2>2. Working' = Working
    BY <2>1 DEF Working
  <2>3. wg = 0 => wpc[r] = "done"
    <3>1. wg = 0 => Working = {}
      BY FS_EmptySet, ZenonT(30) DEF WaitInv
    <3> QED
      BY <2>1, <3>1 DEF Working, WaitInv
  <2> QED
    BY <2>1, <2>2, <2>3 DEF WaitInv
<1>3. ASSUME NEW r \in Transfers, WakeUp(r) PROVE WaitInv'
  <2>1. Working' = Working
    BY <1>3 DEF Working, WakeUp
  <2> QED
    BY <1>3, <2>1 DEF WakeUp, WaitInv
<1>4. ASSUME NEW r \in Transfers,
             Refuse(r) \/ StoreFails(r) \/ CommitJournal(r) \/ CommitFails(r) \/ Download(r)
      PROVE  WaitInv'
  BY <1>4, DoneKeeps DEF Refuse, StoreFails, CommitJournal, CommitFails, Download, AtWork
<1>5. ASSUME NEW r \in Transfers, StoreFile(r) \/ SetFileTTL(r) \/ GetFileTTL(r) PROVE WaitInv'
  <2>1. wpc[r] \in AtWork /\ UNCHANGED served
    BY <1>5 DEF StoreFile, SetFileTTL, GetFileTTL, AtWork
  <2>2. PICK where \in AtWork : wpc' = [wpc EXCEPT ![r] = where]
    BY <1>5 DEF StoreFile, SetFileTTL, GetFileTTL, AtWork
  <2> QED
    BY <2>1, <2>2, GoOnKeeps, ZenonT(30)
<1>6. CASE Clean \/ Tick \/ UNCHANGED vars
  <2>1. UNCHANGED <<hpc, wg, wpc>>
    BY <1>6 DEF Clean, CleanStart, CleanEntry, CleanEnd, Tick, vars, served
  <2>2. Working' = Working
    BY <2>1 DEF Working
  <2> QED
    BY <2>1, <2>2 DEF WaitInv
<1>7. CASE Crash
  <2>1. /\ hpc' = [r \in Transfers |-> IF hpc[r] \in {"new", "returned", "panicked"} THEN hpc[r] ELSE "lost"]
        /\ wpc' = [r \in Transfers |-> IF wpc[r] \in {"none", "done"} THEN wpc[r] ELSE "lost"]
        /\ wg' = 0
    BY <1>7 DEF Crash
  <2>2. Working' = {}
    BY <2>1 DEF Working, AtWork
  <2>3. IsFiniteSet(Working') /\ wg' = Cardinality(Working')
    BY <2>1, <2>2, FS_EmptySet
  <2> QED
    BY <2>1, <2>3 DEF WaitInv, AtWork
<1> QED
  BY <1>1, <1>2, <1>3, <1>4, <1>5, <1>6, <1>7 DEF Next, Work

\* The invariant of the WaitGroup holds of all behaviours.
THEOREM WaitInvariance == Spec => []WaitInv
<1>1. Init => WaitInv
  <2> SUFFICES ASSUME Init PROVE WaitInv
    OBVIOUS
  <2>1. Working = {}
    BY DEF Init, Working, AtWork
  <2> QED
    BY <2>1, FS_EmptySet DEF Init, WaitInv
<1> QED
  BY <1>1, WaitPreserved, PTL DEF Spec

\* f.wg is the number of goroutines that run, so that Done never makes it
\* negative, which would panic.
THEOREM WaitGroupCounts == Spec => [](wg = Cardinality(Working) /\ wg \in Nat)
<1>1. WaitInv => wg = Cardinality(Working) /\ wg \in Nat
  BY FS_CardinalityType DEF WaitInv
<1> QED
  BY <1>1, WaitInvariance, PTL

\* ServeHTTP returns only when its own goroutine is through, although it waits
\* on a WaitGroup that it shares with any number of other requests.
THEOREM ResponseIsOver == Spec => []NoWriteAfterReturn
<1>1. WaitInv => NoWriteAfterReturn
  BY DEF WaitInv, NoWriteAfterReturn
<1> QED
  BY <1>1, WaitInvariance, PTL

-----------------------------------------------------------------------------
(* The files and the journal.                                              *)

\* What is in a sequence with one element more, and in one with one less.
LEMMA InAppend ==
  ASSUME NEW s \in Seq(Uploads), NEW r \in Uploads, NEW f
  PROVE  In(f, Append(s, r)) <=> In(f, s) \/ f = r
BY DEF In

\* The rest of a sequence has no other files, and its head is one of them.
LEMMA InTail ==
  ASSUME NEW s \in Seq(Uploads), s # <<>>, NEW f
  PROVE  /\ In(f, Tail(s)) => In(f, s)
         /\ In(Head(s), s) /\ Head(s) \in Uploads
<1>1. Tail(s) \in Seq(Uploads) /\ Len(Tail(s)) = Len(s) - 1 /\ Len(s) \in Nat \ {0}
  OBVIOUS
<1>2. \A i \in 1..Len(Tail(s)) : Tail(s)[i] = s[i + 1] /\ i + 1 \in 1..Len(s)
  BY <1>1
<1>3. Head(s) = s[1] /\ 1 \in 1..Len(s)
  BY <1>1
<1> QED
  BY <1>1, <1>2, <1>3 DEF In

\* A file is journalled when it is in the journal, before and after a step.
LEMMA JournalledIn ==
  \A f : (Journalled(f) <=> In(f, journal)) /\ (Journalled(f)' <=> In(f, journal'))
BY DEF Journalled, In

\* A date with whole seconds is less than a second before the one it is of.
LEMMA WholeSeconds ==
  ASSUME NEW d \in Int, phase \in Int
  PROVE  UnixDate(d) \in Int /\ UnixDate(d) > d - Sec
<1> DEFINE m == (phase + d) % Sec
<1>1. m \in 0..(Sec - 1)
  OBVIOUS
<1> HIDE DEF m
<1>2. d - m \in Int /\ d - m > d - Sec
  BY <1>1
<1> QED
  BY <1>2 DEF UnixDate, m

\* A tick brings both dates nearer alike, or has lost sight of the later one.
LEMMA LaterKeepsOrder ==
  ASSUME NEW e \in Int, NEW d \in Int, e > d - Sec
  PROVE  /\ Later(e) \in Int /\ Later(d) \in Int
         /\ Later(e) > Later(d) - Sec /\ Later(d) <= d
<1>1. LongAgo \in Int
  BY DEF LongAgo
<1> QED
  BY <1>1 DEF Later

\* The goroutine of one request does not touch the files of others.
LEMMA WorkKeepsFiles ==
  ASSUME FileInv, WaitInv, NEW r \in Transfers, Work(r) PROVE FileInv'
<1> USE DEF WaitInv, AtWork
<1>0. \A q \in Transfers \ {r} : wpc'[q] = wpc[q]
  BY DEF Work, Refuse, StoreFile, StoreFails, SetFileTTL, GetFileTTL, CommitJournal, CommitFails,
     Download, Done
<1>1. CASE Refuse(r) \/ StoreFails(r) \/ CommitFails(r) \/ Download(r)
  <2>1. wpc'[r] = "done" /\ UNCHANGED <<fileTTL, ttl, journal, entries, exp, due, phase>>
    BY <1>1 DEF Refuse, StoreFails, CommitFails, Download, Done, work, dates, cleaner
  <2>2. disk \subseteq disk'
    BY <1>1 DEF Refuse, StoreFails, CommitFails, Download
  <2> QED
    BY <1>0, <2>1, <2>2, ZenonT(30) DEF FileInv, KeptUntilDue, Journalled
<1>2. CASE StoreFile(r)
  <2>1. /\ r \in Uploads /\ wpc[r] = "start" /\ wpc'[r] = "set" /\ disk' = disk \cup {r}
        /\ UNCHANGED <<fileTTL, ttl, journal, entries, exp, due, phase>>
    BY <1>2 DEF StoreFile, dates, cleaner
  <2> QED
    BY <1>0, <2>1, ZenonT(30) DEF FileInv, KeptUntilDue, Journalled
<1>3. CASE SetFileTTL(r)
  <2>1. /\ r \in Uploads /\ wpc[r] = "set" /\ wpc'[r] = "get"
        /\ UNCHANGED <<ttl, disk, journal, entries, exp, due, phase>>
    BY <1>3 DEF SetFileTTL, dates, cleaner
  <2>2. fileTTL' \in Int
    BY <1>3 DEF SetFileTTL, Asked
  <2> QED
    BY <1>0, <2>1, <2>2, ZenonT(30) DEF FileInv, KeptUntilDue, Journalled
<1>4. CASE GetFileTTL(r)
  <2>1. /\ r \in Uploads /\ wpc[r] = "get" /\ wpc'[r] = "commit" /\ ttl' = [ttl EXCEPT ![r] = fileTTL]
        /\ UNCHANGED <<fileTTL, disk, journal, entries, exp, due, phase>>
    BY <1>4 DEF GetFileTTL, dates, cleaner
  <2> QED
    BY <1>0, <2>1, ZenonT(30) DEF FileInv, KeptUntilDue, Journalled
<1>5. CASE CommitJournal(r)
  <2>1. /\ r \in Uploads /\ wpc[r] = "commit" /\ wpc'[r] = "done" /\ journal' = Append(journal, r)
        /\ exp' = [exp EXCEPT ![r] = UnixDate(ttl[r])] /\ due' = [due EXCEPT ![r] = ttl[r]]
        /\ UNCHANGED <<fileTTL, ttl, disk, entries, phase>>
    BY <1>5 DEF CommitJournal, Logged, Done, work, cleaner
  <2>2. UnixDate(ttl[r]) \in Int /\ UnixDate(ttl[r]) > ttl[r] - Sec /\ ttl[r] \in Int
    BY <2>1, WholeSeconds, ZenonT(30) DEF FileInv
  <2>3. /\ exp' \in [Uploads -> Int] /\ due' \in [Uploads -> Int]
        /\ \A f \in Uploads : exp'[f] > due'[f] - Sec
    BY <2>1, <2>2 DEF FileInv
  <2>4. journal' \in Seq(Uploads) /\ \A f \in Uploads : In(f, journal') <=> In(f, journal) \/ f = r
    BY <2>1, InAppend DEF FileInv
  <2>5. \A f \in Uploads : In(f, journal') \/ In(f, entries') => wpc'[f] = "done"
    BY <1>0, <2>1, <2>4, ZenonT(30) DEF FileInv
  <2>6. \A f \in Uploads : wpc'[f] \in {"set", "get", "commit"} => f \in disk'
    BY <1>0, <2>1, ZenonT(30) DEF FileInv
  <2>7. KeptUntilDue'
    <3>1. \A f \in Uploads : Journalled(f)' => Journalled(f) \/ f = r
      BY <2>4, JournalledIn
    <3>2. \A f \in Uploads \ {r} : due'[f] = due[f]
      BY <2>1 DEF FileInv
    <3>3. r \in disk
      BY <2>1 DEF FileInv
    <3> QED
      BY <2>1, <3>1, <3>2, <3>3 DEF FileInv, KeptUntilDue
  <2> QED
    BY <2>1, <2>3, <2>4, <2>5, <2>6, <2>7 DEF FileInv
<1> QED
  BY <1>1, <1>2, <1>3, <1>4, <1>5 DEF Work

\* The cleaner removes a file only when its date is over.
LEMMA CleanKeepsFiles ==
  ASSUME FileInv, Clean PROVE FileInv'
<1>1. CASE CleanStart
  BY <1>1 DEF CleanStart, FileInv, KeptUntilDue, Journalled, work, dates
<1>2. CASE CleanEntry
  <2>1. /\ entries # <<>> /\ entries' = Tail(entries)
        /\ disk' = IF Expired(Head(entries)) THEN disk \ {Head(entries)} ELSE disk
        /\ UNCHANGED <<fileTTL, ttl, journal, exp, due, phase, wpc>>
    BY <1>2 DEF CleanEntry, work, dates
  <2>2. entries' \in Seq(Uploads) /\ \A f \in Uploads : In(f, entries') => In(f, entries)
    BY <2>1, InTail DEF FileInv
  <2>3. Head(entries) \in Uploads /\ wpc[Head(entries)] = "done"
    BY <2>1, InTail DEF FileInv
  <2>4. \A f \in Uploads : wpc[f] \in {"set", "get", "commit"} => f \in disk'
    BY <2>1, <2>3 DEF FileInv
  <2>5. \A f \in Uploads : due[f] >= Sec => (f \in disk' <=> f \in disk)
    <3>1. \A f \in Uploads : due[f] >= Sec => ~Expired(f)
      BY DEF FileInv, Expired
    <3> QED
      BY <2>1, <2>3, <3>1
  <2>6. KeptUntilDue'
    BY <2>1, <2>5, ZenonT(30) DEF FileInv, KeptUntilDue, Journalled
  <2> QED
    BY <2>1, <2>2, <2>4, <2>6 DEF FileInv
<1>3. CASE CleanEnd
  <2>1. journal' \in {journal, <<>>} /\ UNCHANGED <<fileTTL, ttl, disk, entries, exp, due, phase, wpc>>
    BY <1>3 DEF CleanEnd, work, dates
  <2>2. \A f \in Uploads : In(f, journal') => In(f, journal)
    BY <2>1 DEF In
  <2>3. KeptUntilDue'
    <3>1. \A f \in Uploads : Journalled(f)' => Journalled(f)
      BY <2>2, JournalledIn
    <3>2. disk' = disk /\ due' = due
      BY <2>1
    <3> QED
      BY <3>1, <3>2 DEF FileInv, KeptUntilDue
  <2>4. journal' \in Seq(Uploads)
    <3>1. <<>> \in Seq(Uploads) /\ journal \in Seq(Uploads)
      BY DEF FileInv
    <3>2. journal' = journal \/ journal' = <<>>
      BY <2>1
    <3> QED
      BY <3>1, <3>2, ZenonT(30)
  <2> QED
    BY <2>1, <2>2, <2>3, <2>4 DEF FileInv
<1> QED
  BY <1>1, <1>2, <1>3 DEF Clean

\* The invariant of the files holds of all behaviours, crashes included.
THEOREM FileInvariance == Spec => []FileInv
<1>1. Init => FileInv
  <2> SUFFICES ASSUME Init PROVE FileInv
    OBVIOUS
  <2>1. LongAgo \in Int /\ LongAgo > LongAgo - Sec
    BY DEF LongAgo
  <2>2. \A f \in Uploads : ~In(f, <<>>)
    BY DEF In
  <2> QED
    BY <2>1, <2>2 DEF Init, FileInv, KeptUntilDue, Journalled, In
<1>2. WaitInv /\ FileInv /\ [Next]_vars => FileInv'
  <2> SUFFICES ASSUME WaitInv, FileInv, [Next]_vars PROVE FileInv'
    OBVIOUS
  <2>1. ASSUME NEW r \in Transfers, Serve(r) PROVE FileInv'
    <3>1. /\ wpc[r] = "none" /\ wpc' = [wpc EXCEPT ![r] = "start"]
          /\ UNCHANGED <<fileTTL, ttl, disk, journal, entries, exp, due, phase>>
      BY <2>1 DEF Serve, WaitInv, work, dates, cleaner
    <3> QED
      BY <3>1 DEF FileInv, WaitInv, KeptUntilDue, Journalled
  <2>2. ASSUME NEW r \in Transfers, Wait(r) \/ WakeUp(r) PROVE FileInv'
    BY <2>2, ZenonT(30) DEF Wait, WakeUp, FileInv, KeptUntilDue, Journalled, work, dates, cleaner
  <2>3. CASE Tick
    <3>1. /\ phase' = (phase + 1) % Sec /\ exp' = [f \in Uploads |-> Later(exp[f])]
          /\ due' = [f \in Uploads |-> Later(due[f])]
          /\ UNCHANGED <<fileTTL, ttl, disk, journal, entries, wpc>>
      BY <2>3, ZenonT(30) DEF Tick, work, cleaner
    <3>2. phase' \in Int
      BY <3>1 DEF FileInv
    <3>3. \A f \in Uploads : /\ exp'[f] \in Int /\ due'[f] \in Int
                             /\ exp'[f] > due'[f] - Sec /\ due'[f] <= due[f]
      BY <3>1, LaterKeepsOrder DEF FileInv
    <3>4. exp' \in [Uploads -> Int] /\ due' \in [Uploads -> Int]
      BY <3>1, <3>3
    <3>5. \A f \in Uploads : due'[f] >= Sec => due[f] >= Sec
      BY <3>3 DEF FileInv
    <3>6. KeptUntilDue'
      BY <3>1, <3>5 DEF FileInv, KeptUntilDue, Journalled
    <3> QED
      BY <3>1, <3>2, <3>3, <3>4, <3>6 DEF FileInv
  <2>4. CASE Crash
    <3>1. /\ wpc' = [r \in Transfers |-> IF wpc[r] \in {"none", "done"} THEN wpc[r] ELSE "lost"]
          /\ fileTTL' = 0 /\ entries' = <<>>
          /\ UNCHANGED <<ttl, disk, journal, exp, due, phase>>
      BY <2>4 DEF Crash, dates
    <3>2. \A f \in Uploads : ~In(f, entries')
      BY <3>1 DEF In
    <3> QED
      BY <3>1, <3>2 DEF FileInv, KeptUntilDue, Journalled
  <2>5. CASE UNCHANGED vars
    BY <2>5 DEF vars, work, dates, cleaner, FileInv, KeptUntilDue, Journalled
  <2> QED
    BY <2>1, <2>2, <2>3, <2>4, <2>5, WorkKeepsFiles, CleanKeepsFiles DEF Next
<1> QED
  BY <1>1, <1>2, WaitInvariance, PTL DEF Spec

\* The cleaner leaves a journalled file alone until less than a second is
\* missing from its TTL, whatever uploads, passes and crashes come between.
THEOREM FilesAreKept == Spec => []KeptUntilDue
<1>1. FileInv => KeptUntilDue
  BY DEF FileInv
<1> QED
  BY <1>1, FileInvariance, PTL
=============================================================================
