--------------------------- MODULE PasswordChange ---------------------------
(***************************************************************************)
(* ldap-explore: requests to change a password that the HTTP server        *)
(* handles concurrently, and the directory they talk to.  A request checks *)
(* the current password on one connection and changes it on another; its   *)
(* mutex is its own, so that nothing keeps two requests apart.             *)
(***************************************************************************)
EXTENDS Naturals

CONSTANTS
  Requests,
  Users,       \* names that a search finds exactly once
  Strangers,   \* names that it does not
  Passwords,
  Strong,      \* the ones with a score of at least 3
  Initial,     \* the password of every user
  None

ASSUME PasswordAssumption ==
  Strong \subseteq Passwords /\ Initial \in Passwords /\ None \notin Passwords

VARIABLES
  pc,         \* where the handler of a request is
  form,       \* the fields of the form
  conns,      \* connections of the request that are open
  told,       \* the answer
  late,       \* WriteTimeout is over: the client does not get an answer
  password,   \* of each user, in the directory (external)
  changed,    \* history: requests that have changed a password
  orphans     \* history: requests for which StartTLS or Bind failed

passwordVars == <<pc, form, conns, told, late, password, changed, orphans>>
directory == <<password, changed>>

Forms ==
  [username : Users \cup Strangers, currentpass : Passwords, newpass1 : Passwords, newpass2 : Passwords]

NoForm == [username |-> None, currentpass |-> None, newpass1 |-> None, newpass2 |-> None]

PasswordInit ==
  /\ pc = [r \in Requests |-> "new"] /\ form = [r \in Requests |-> NoForm]
  /\ conns = [r \in Requests |-> 0]
  /\ told = [r \in Requests |-> "nothing"] /\ late = [r \in Requests |-> FALSE]
  /\ password = [u \in Users |-> Initial]
  /\ changed = {} /\ orphans = {}

\* The handler returns with an answer.
Answered(r, answer) ==
  /\ pc' = [pc EXCEPT ![r] = "done"] /\ form' = [form EXCEPT ![r] = NoForm]
  /\ told' = [told EXCEPT ![r] = IF late[r] THEN "nothing" ELSE answer]

GoesTo(r, where) == pc' = [pc EXCEPT ![r] = where] /\ UNCHANGED <<form, told>>

Opened(r) == conns' = [conns EXCEPT ![r] = @ + 1]

\* Mutant: the connection is not closed when the function returns.
Closed_Not(r) == UNCHANGED conns

\* defer ld.Close()
Closed(r) == conns' = [conns EXCEPT ![r] = @ - 1]

-----------------------------------------------------------------------------
(* changePasswordHandleFunc                                                *)

CheckPasswdLen(f) ==
  /\ f.currentpass # f.newpass1 /\ f.currentpass # f.newpass2
  /\ f.newpass1 = f.newpass2

CheckStrength(f) == f.newpass2 \in Strong

RefuseForm(r) ==
  /\ pc[r] = "new"
  /\ \E f \in Forms : ~CheckPasswdLen(f) \/ ~CheckStrength(f)
  /\ Answered(r, "refused") /\ UNCHANGED <<conns, late, directory, orphans>>

Post(r) ==
  /\ pc[r] = "new"
  /\ \E f \in Forms :
       CheckPasswdLen(f) /\ CheckStrength(f) /\ form' = [form EXCEPT ![r] = f]
  /\ pc' = [pc EXCEPT ![r] = "validate"]
  /\ UNCHANGED <<conns, told, late, directory, orphans>>

-----------------------------------------------------------------------------
(* bootstrapLdapClient, for isValidLDAPUser and for changeLdapPasswd.      *)

\* Where a connection takes a handler.
Connecting == {"validate", "change"}

Connected(where) == IF where = "validate" THEN "search" ELSE "modify"

Connect(r) ==
  /\ pc[r] \in Connecting
  /\ Opened(r) /\ GoesTo(r, Connected(pc[r]))
  /\ UNCHANGED <<late, directory, orphans>>

DialFails(r) ==
  /\ pc[r] \in Connecting
  /\ Answered(r, "error") /\ UNCHANGED <<conns, late, directory, orphans>>

\* StartTLS or Bind fails: the connection is dropped, but nobody closes it.
StartFails(r) ==
  /\ pc[r] \in Connecting
  /\ Opened(r) /\ Answered(r, "error") /\ orphans' = orphans \cup {r}
  /\ UNCHANGED <<late, directory>>

-----------------------------------------------------------------------------
(* isValidLDAPUser                                                         *)

Search(r) ==
  /\ pc[r] = "search" /\ form[r].username \in Users
  /\ GoesTo(r, "bind") /\ UNCHANGED <<conns, late, directory, orphans>>

\* Bind as the user.
BindUser(r) ==
  /\ pc[r] = "bind" /\ password[form[r].username] = form[r].currentpass
  /\ GoesTo(r, "rebind") /\ UNCHANGED <<conns, late, directory, orphans>>

\* Bind as the bind DN again.
Rebind(r) ==
  /\ pc[r] = "rebind"
  /\ GoesTo(r, "change") /\ Closed(r)
  /\ UNCHANGED <<late, directory, orphans>>

\* No such user, a wrong password, or an error of the directory.
Invalid(r) ==
  /\ pc[r] \in {"search", "bind", "rebind"}
  /\ Answered(r, "error") /\ Closed(r)
  /\ UNCHANGED <<late, directory, orphans>>

-----------------------------------------------------------------------------
(* changeLdapPasswd                                                        *)

\* Mutant: the request to modify the password does not have the current one.
Accepts_Any(f) == TRUE

\* The directory compares the current password of PasswordModify (external).
Accepts(f) == password[f.username] = f.currentpass

Modified(r) ==
  /\ Accepts(form[r])
  /\ password' = [password EXCEPT ![form[r].username] = form[r].newpass2]
  /\ changed' = changed \cup {r}

PasswordModify(r) ==
  /\ pc[r] = "modify"
  /\ Modified(r) /\ Answered(r, "modified") /\ Closed(r)
  /\ UNCHANGED <<late, orphans>>

\* The answer of the directory is lost.
ModifyLost(r) ==
  /\ pc[r] = "modify"
  /\ Modified(r) /\ Answered(r, "error") /\ Closed(r)
  /\ UNCHANGED <<late, orphans>>

ModifyFails(r) ==
  /\ pc[r] = "modify"
  /\ Answered(r, "error") /\ Closed(r)
  /\ UNCHANGED <<late, directory, orphans>>

\* WriteTimeout is over; the handler goes on.
Timeout(r) ==
  /\ pc[r] \notin {"new", "done"} /\ ~late[r]
  /\ late' = [late EXCEPT ![r] = TRUE]
  /\ UNCHANGED <<pc, form, conns, told, directory, orphans>>

Handle(r) ==
  \/ Connect(r) \/ DialFails(r) \/ StartFails(r)
  \/ Search(r) \/ BindUser(r) \/ Rebind(r) \/ Invalid(r)
  \/ PasswordModify(r) \/ ModifyLost(r) \/ ModifyFails(r)

Finished == \A r \in Requests : pc[r] = "done"

PasswordNext ==
  \/ \E r \in Requests : RefuseForm(r) \/ Post(r) \/ Handle(r) \/ Timeout(r)
  \/ Finished /\ UNCHANGED passwordVars

PasswordSpec == PasswordInit /\ [][PasswordNext]_passwordVars

-----------------------------------------------------------------------------
(* Properties.                                                             *)

PasswordTypeOK ==
  /\ pc \in [Requests -> {"new", "validate", "search", "bind", "rebind", "change", "modify", "done"}]
  /\ form \in [Requests -> Forms \cup {NoForm}]
  /\ conns \in [Requests -> 0..1]
  /\ password \in [Users -> Passwords]
  /\ changed \subseteq Requests /\ orphans \subseteq Requests

Register == INSTANCE PasswordRegister
              WITH notified <- {r \in Requests : told[r] = "modified"}

\* However requests for the same user overlap, passwords change as if each
\* request compared and replaced the password in one step: the check that
\* isValidLDAPUser made may be out of date when changeLdapPasswd acts, and
\* still no change is lost to a request that did not know of it.  Who is told
\* "Your password has been modified" has a new password.
ImplementsRegister == Register!RSpec

\* A request that was answered has no connection left open, whichever step of
\* it failed, unless StartTLS or Bind failed on that connection.
ConnectionsClosed ==
  \A r \in Requests : pc[r] = "done" => conns[r] = (IF r \in orphans THEN 1 ELSE 0)
=============================================================================
