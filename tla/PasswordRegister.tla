-------------------------- MODULE PasswordRegister --------------------------
(***************************************************************************)
(* What a service that lets users change their passwords promises: every   *)
(* request replaces a password at most once, and only the password that    *)
(* its user gave as the current one, by a strong one that is different.    *)
(* Whoever is told so has a new password; others may have one too.         *)
(***************************************************************************)
CONSTANTS Requests, Users, Passwords, Strong, Initial

VARIABLES
  password,   \* of each user
  changed,    \* requests that have had their effect
  notified    \* requests whose user was told so

rvars == <<password, changed, notified>>

RInit == password = [u \in Users |-> Initial] /\ changed = {} /\ notified = {}

Replace(r, u, current, new) ==
  /\ r \notin changed
  /\ password[u] = current /\ new \in Strong /\ new # current
  /\ password' = [password EXCEPT ![u] = new]
  /\ changed' = changed \cup {r} /\ notified' \in {notified, notified \cup {r}}

RNext ==
  \E r \in Requests, u \in Users, current, new \in Passwords : Replace(r, u, current, new)

RSpec == RInit /\ [][RNext]_rvars
=============================================================================
