----------------------------- MODULE MCPrograms -----------------------------
(* Instances of the small programs for TLC.                                *)
EXTENDS Programs

CONSTANTS a, b, c

Three == {a, b, c}
Two == {a, b}

FieldNames == {"Title", "Password", "Notes"}

SmallValues == FieldNames \cup {"t1", "t2", "p1", "p2", "n1", "n2", ""}

Row(t, p, notes) == [Title |-> t, Password |-> p, Notes |-> notes]

\* A header, and two records with titles that may be the same.
SmallFiles ==
  {<<>>} \cup {<<Row("Title", "Password", "Notes"), Row(t, "p1", "n1"), Row(u, "p2", notes)>> :
                 t, u \in {"t1", "t2"}, notes \in {"", "n2"}}
=============================================================================
