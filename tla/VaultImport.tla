---------------------------- MODULE VaultImport -----------------------------
(***************************************************************************)
(* vault-secrets: the records of a CSV file are written to Vault one after *)
(* the other, through one map that is used for all of them.  An error ends *)
(* the program, and it is run again, perhaps with another file.            *)
(***************************************************************************)
EXTENDS Naturals, Sequences

CONSTANTS
  Files,       \* what the file may hold: sequences of records, header included
  Titles,
  Fields,      \* the names of a secret's fields, "Title" and "Password" included
  Values,      \* what a field may hold
  MaxRuns,     \* bound on the runs of the program
  None

ImportAssumption == Files \subseteq Seq([Fields -> Values])

VARIABLES
  ipc,         \* where main is
  records,     \* what was read
  pos,         \* the index of the loop, from zero
  secret,      \* d.entry
  vault,       \* the secret under each title (external)
  runs

vars == <<ipc, records, pos, secret, vault, runs>>

Empty == [f \in Fields |-> None]

Init ==
  /\ ipc = "off" /\ records = <<>> /\ pos = 0
  /\ secret = Empty /\ vault = [t \in Titles |-> Empty] /\ runs = 0

\* The environment is complete and the file can be read.
Start ==
  /\ ipc \in {"off", "failed", "done"} /\ runs < MaxRuns
  /\ records' \in Files /\ pos' = 0 /\ secret' = Empty
  /\ ipc' = "loop" /\ runs' = runs + 1
  /\ UNCHANGED vault

\* The first record is the header.
Skip ==
  /\ ipc = "loop" /\ pos = 0 /\ records # <<>>
  /\ pos' = 1
  /\ UNCHANGED <<ipc, records, secret, vault, runs>>

Record == records[pos + 1]

\* Mutant: a field that is empty is not set.
Set_NotEmpty(f) == IF Record[f] = "" THEN secret[f] ELSE Record[f]

Set(f) == Record[f]

\* What is written, under the title of the record.
Filled == [f \in Fields |-> Set(f)]

Written == [vault EXCEPT ![Record["Title"]] = Filled]

AtRecord == ipc = "loop" /\ pos > 0 /\ pos < Len(records)

Write ==
  /\ AtRecord
  /\ vault' = Written
  /\ secret' = [Filled EXCEPT !["Password"] = None]   \* delete(secret, "Password")
  /\ pos' = pos + 1
  /\ UNCHANGED <<ipc, records, runs>>

\* log.Fatalf: the write failed, or only its answer was lost.
WriteFails ==
  /\ AtRecord
  /\ vault' \in {vault, Written}
  /\ ipc' = "failed" /\ secret' = Filled
  /\ UNCHANGED <<records, pos, runs>>

Finish ==
  /\ ipc = "loop" /\ pos >= Len(records)
  /\ ipc' = "done"
  /\ UNCHANGED <<records, pos, secret, vault, runs>>

Next == Start \/ Skip \/ Write \/ WriteFails \/ Finish

Spec == Init /\ [][Next]_vars

-----------------------------------------------------------------------------
(* Properties.                                                             *)

\* The records with a title, by their place in the file.
Rows(t) == {i \in 2..Len(records) : records[i]["Title"] = t}

\* A run that ends well leaves in Vault, for every title of its file, the last
\* record with that title, whole: nothing stays of the record before it in the
\* shared map, nor of an earlier run that failed halfway or had another file.
ImportComplete ==
  ipc = "done" =>
    \A t \in Titles : Rows(t) # {} =>
      \E i \in Rows(t) : (\A j \in Rows(t) : j <= i) /\ vault[t] = records[i]
=============================================================================
