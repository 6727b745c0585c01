-------------------------- MODULE SliceAlgorithms ---------------------------
(***************************************************************************)
(* The slice functions of list-intersect and slice-delete, on Go slices    *)
(* with indexes from 0.  A behaviour is one call of a function with a      *)
(* loop; a step is an iteration.                                           *)
(***************************************************************************)
EXTENDS Integers, Sequences, FiniteSets

CONSTANTS
  Items,     \* integers
  MaxLen     \* bound on the length of a slice

SliceAssumption == Items \subseteq Int /\ MaxLen \in Nat

VARIABLES
  fn,        \* the function that is called
  a, b, i,   \* its arguments, as they were before the call
  loop,      \* the index of its outer loop
  high,      \* the list that intersection shortens
  out,       \* what it has appended to its result
  done       \* it has returned

vars == <<fn, a, b, i, loop, high, out, done>>
args == <<fn, a, b, i>>

Slices == UNION {[1..len -> Items] : len \in 0..MaxLen}

\* low is the shorter list, and high starts as the longer one.
low == IF Len(a) > Len(b) THEN b ELSE a
longer == IF Len(a) > Len(b) THEN a ELSE b

Init ==
  /\ a \in Slices /\ loop = 0 /\ out = <<>> /\ done = FALSE
  /\ \/ fn = "intersection" /\ b \in Slices /\ i = 0 /\ high = longer
     \/ fn = "slowRemoveAt" /\ b = <<>> /\ i \in -1..Len(a)+1 /\ high = <<>>

Iterates(f, list) == fn = f /\ ~done /\ loop < Len(list) /\ loop' = loop + 1 /\ UNCHANGED args

\* The loop is over.
Ends(f, list) ==
  /\ fn = f /\ ~done /\ loop = Len(list)
  /\ done' = TRUE
  /\ UNCHANGED <<args, loop, high, out>>

-----------------------------------------------------------------------------
(* intersection of list-intersect.                                         *)

\* Where the element of low occurs in high.
Same == {j \in 1..Len(high) : high[j] = low[loop + 1]}

\* Mutant: the element found is left in the list.
Shortened_Not(list, j) == list

\* high[:j+copy(high[j:], high[j+1:])]
Shortened(list, j) == SubSeq(list, 1, j - 1) \o SubSeq(list, j + 1, Len(list))

\* "if the future values aren't the same then that's the end"
EndsHere(j) == loop + 1 < Len(low) /\ j < Len(high) /\ low[loop + 2] # high[j + 1]

\* The inner loop breaks at the first h that is l.
Match ==
  /\ Iterates("intersection", low)
  /\ \E j \in Same :
       /\ \A other \in Same : j <= other
       /\ out' = Append(out, high[j])
       /\ high' = Shortened(high, j)
       /\ done' = EndsHere(j)

NoMatch ==
  /\ Iterates("intersection", low)
  /\ Same = {}
  /\ UNCHANGED <<high, out, done>>

-----------------------------------------------------------------------------
(* The three ways to delete an element of slice-delete.                    *)

VFastRemoveAt(n, src) == SubSeq([src EXCEPT ![n + 1] = src[Len(src)]], 1, Len(src) - 1)

OkRemoveAt(n, src) == SubSeq(src, 1, n) \o SubSeq(src, n + 2, Len(src))

InvalidIndex == <<"invalid index">>

Rejected == i < 0 \/ i > Len(a)

\* slowRemoveAt returns an error.
Reject ==
  /\ fn = "slowRemoveAt" /\ ~done /\ Rejected
  /\ out' = InvalidIndex /\ done' = TRUE
  /\ UNCHANGED <<args, loop, high>>

\* An iteration of its loop.
Keep ==
  /\ ~Rejected /\ Iterates("slowRemoveAt", a)
  /\ out' = IF loop # i THEN Append(out, a[loop + 1]) ELSE out
  /\ UNCHANGED <<high, done>>

-----------------------------------------------------------------------------
Next ==
  \/ Match \/ NoMatch \/ Ends("intersection", low)
  \/ Reject \/ Keep \/ (~Rejected /\ Ends("slowRemoveAt", a))

Spec == Init /\ [][Next]_vars

-----------------------------------------------------------------------------
(* Properties.                                                             *)

Occurs(x, s) == Cardinality({p \in 1..Len(s) : s[p] = x})

\* No element is made up, lost or counted twice, although the functions
\* rewrite the slices they work on: what intersection returns occurs at least
\* as often in both lists, and with what is left of the longer list it is that
\* list; the three deletions leave the same elements at every index of the
\* slice, the two that keep the order in the same order.
ElementsAccounted ==
  /\ fn = "intersection" => \A x \in Items :
       /\ Occurs(x, out) <= Occurs(x, low)
       /\ Occurs(x, out) + Occurs(x, high) = Occurs(x, longer)
  /\ fn = "slowRemoveAt" /\ done /\ i \in 0..Len(a)-1 =>
       /\ out = OkRemoveAt(i, a)
       /\ \A x \in Items : Occurs(x, out) = Occurs(x, VFastRemoveAt(i, a))

\* "if the future values aren't the same then that's the end of the
\* intersection"
IntersectionComplete ==
  fn = "intersection" /\ done =>
    \A x \in Items : Occurs(x, a) > 0 /\ Occurs(x, b) > 0 => Occurs(x, out) > 0

\* "invalid index": an index that is not one of the slice is refused.
InvalidIndexRefused ==
  fn = "slowRemoveAt" /\ done /\ i \notin 0..Len(a)-1 => out = InvalidIndex
=============================================================================
