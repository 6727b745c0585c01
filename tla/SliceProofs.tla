---------------------------- MODULE SliceProofs ----------------------------
(***************************************************************************)
(* list-intersect and slice-delete: what their loops do to the elements of *)
(* the slices, for slices of any length over any set of values.            *)
(***************************************************************************)
EXTENDS Programs, FiniteSetTheorems, TLAPS

\* The solvers that a leaf without one of its own tries in turn, with their time
\* limits in seconds.
USE SMTT(15), ZenonT(20), SMTT(30), SMTT(60), SMTT(120)

Places(x, s) == {p \in 1..Len(s) : s[p] = x}

\* How often an element occurs is a number.
LEMMA OccursType ==
  ASSUME NEW x, NEW s, Len(s) \in Nat
  PROVE  /\ IsFiniteSet(Places(x, s)) /\ Slices!Occurs(x, s) = Cardinality(Places(x, s))
         /\ Slices!Occurs(x, s) \in Nat
<1>1. IsFiniteSet(1..Len(s)) /\ Places(x, s) \in SUBSET (1..Len(s))
  BY FS_Interval DEF Places
<1>2. IsFiniteSet(Places(x, s))
  BY <1>1, FS_Subset
<1>3. Slices!Occurs(x, s) = Cardinality(Places(x, s))
  BY DEF Slices!Occurs, Places, Slices!Cardinality, Cardinality
<1> QED
  BY <1>2, <1>3, FS_CardinalityType

\* A list t has the elements of s except that at place j, in some order.
Without(t, s, j, from) ==
  /\ Len(s) \in Nat /\ Len(t) \in Nat /\ j \in 1..Len(s)
  /\ from \in [1..Len(t) -> (1..Len(s)) \ {j}]
  /\ \A p, q \in 1..Len(t) : from[p] = from[q] => p = q
  /\ \A q \in (1..Len(s)) \ {j} : \E p \in 1..Len(t) : from[p] = q
  /\ \A p \in 1..Len(t) : t[p] = s[from[p]]

\* It has that element once less often, and the others as often.
LEMMA OneLess ==
  ASSUME NEW x, NEW s, NEW t, NEW j, NEW from, Without(t, s, j, from)
  PROVE  Slices!Occurs(x, s) = Slices!Occurs(x, t) + (IF s[j] = x THEN 1 ELSE 0)
<1> DEFINE S == Places(x, t)
           P == Places(x, s)
           T == P \ {j}
           map == [p \in S |-> from[p]]
<1>1. /\ IsFiniteSet(S) /\ IsFiniteSet(P) /\ Cardinality(P) \in Nat
      /\ Slices!Occurs(x, s) = Cardinality(P) /\ Slices!Occurs(x, t) = Cardinality(S)
  BY OccursType DEF Without
<1>2. map \in [S -> T]
  BY DEF Places, Without
<1>3. \A p, q \in S : map[p] = map[q] => p = q
  BY DEF Places, Without
<1>4. \A q \in T : \E p \in S : map[p] = q
  BY DEF Places, Without
<1>8. j \in P <=> s[j] = x
  BY DEF Places, Without
<1> HIDE DEF map, S, P
<1>5. map \in Bijection(S, T)
  BY <1>2, <1>3, <1>4 DEF Bijection, Injection, Surjection, IsInjective
<1>6. Cardinality(T) = Cardinality(S)
  BY <1>1, <1>5, FS_Bijection DEF ExistsBijection
<1>7. Cardinality(T) = IF j \in P THEN Cardinality(P) - 1 ELSE Cardinality(P)
  BY <1>1, FS_RemoveElement, ZenonT(30)
<1> QED
  BY <1>1, <1>6, <1>7, <1>8

\* Appending an element adds one.
LEMMA OccursAppended ==
  ASSUME NEW x, NEW E, NEW s \in Seq(E), NEW y
  PROVE  Slices!Occurs(x, Append(s, y)) = Slices!Occurs(x, s) + (IF y = x THEN 1 ELSE 0)
<1> DEFINE t == Append(s, y)
           from == [p \in 1..Len(s) |-> p]
<1>1. Len(s) \in Nat /\ Len(t) = Len(s) + 1 /\ t[Len(t)] = y /\ \A p \in 1..Len(s) : t[p] = s[p]
  OBVIOUS
<1> HIDE DEF t
<1>2. Without(s, t, Len(t), from)
  BY <1>1 DEF Without
<1>3. Slices!Occurs(x, t) = Slices!Occurs(x, s) + (IF t[Len(t)] = x THEN 1 ELSE 0)
  BY <1>2, OneLess
<1> QED
  BY <1>1, <1>3 DEF t

\* The elements of a list without that at place j, as shortening leaves them.
LEMMA ShortenedElements ==
  ASSUME NEW E, NEW s \in Seq(E), NEW j \in 1..Len(s)
  PROVE  /\ Slices!Shortened(s, j) \in Seq(E) /\ Len(Slices!Shortened(s, j)) = Len(s) - 1
         /\ \A p \in 1..Len(s)-1 : Slices!Shortened(s, j)[p] = s[IF p < j THEN p ELSE p + 1]
<1> DEFINE u == SubSeq(s, 1, j - 1)
           v == SubSeq(s, j + 1, Len(s))
<1>1. u \in Seq(E) /\ Len(u) = j - 1 /\ \A p \in 1..j-1 : u[p] = s[p]
  OBVIOUS
<1>2. v \in Seq(E) /\ Len(v) = Len(s) - j /\ \A p \in 1..Len(s)-j : v[p] = s[p + j]
  OBVIOUS
<1>3. Slices!Shortened(s, j) = u \o v
  BY DEF Slices!Shortened
<1> HIDE DEF u, v
<1>4. u \o v \in Seq(E) /\ Len(u \o v) = Len(s) - 1
  BY <1>1, <1>2
<1>5. \A p \in 1..Len(s)-1 : (u \o v)[p] = IF p < j THEN u[p] ELSE v[p - (j - 1)]
  <2>1. \A p \in 1..Len(u)+Len(v) : (u \o v)[p] = IF p <= Len(u) THEN u[p] ELSE v[p - Len(u)]
    BY <1>1, <1>2
  <2> QED
    BY <1>1, <1>2, <2>1
<1>6. ASSUME NEW p \in 1..Len(s)-1 PROVE (u \o v)[p] = s[IF p < j THEN p ELSE p + 1]
  <2>1. CASE p < j
    BY <1>1, <1>5, <2>1
  <2>2. CASE p >= j
    <3>1. p - (j - 1) \in 1..Len(s)-j /\ (p - (j - 1)) + j = p + 1 /\ ~(p < j)
      BY <2>2
    <3> QED
      BY <1>2, <1>5, <3>1, ZenonT(30)
  <2>3. p < j \/ p >= j
    OBVIOUS
  <2> QED
    BY <2>1, <2>2, <2>3, ZenonT(30)
<1> QED
  BY <1>3, <1>4, <1>6

\* Shortening takes away one.
LEMMA OccursShortened ==
  ASSUME NEW x, NEW E, NEW s \in Seq(E), NEW j \in 1..Len(s)
  PROVE  Slices!Occurs(x, s) = Slices!Occurs(x, Slices!Shortened(s, j)) + (IF s[j] = x THEN 1 ELSE 0)
<1> DEFINE t == Slices!Shortened(s, j)
           from == [p \in 1..Len(s)-1 |-> IF p < j THEN p ELSE p + 1]
<1>1. Len(s) \in Nat /\ Len(t) = Len(s) - 1 /\ \A p \in 1..Len(s)-1 : t[p] = s[from[p]]
  BY ShortenedElements
<1> HIDE DEF t
<1>2. from \in [1..Len(t) -> (1..Len(s)) \ {j}] /\ \A p, q \in 1..Len(t) : from[p] = from[q] => p = q
  BY <1>1
<1>3. ASSUME NEW q \in (1..Len(s)) \ {j} PROVE \E p \in 1..Len(t) : from[p] = q
  <2>1. CASE q < j
    <3>1. q \in 1..Len(t) /\ from[q] = q
      BY <1>1, <2>1
    <3> QED
      BY <3>1
  <2>2. CASE q > j
    <3>1. q - 1 \in 1..Len(t) /\ from[q - 1] = q
      BY <1>1, <2>2
    <3> QED
      BY <3>1, ZenonT(30)
  <2> QED
    BY <1>1, <2>1, <2>2
<1> HIDE DEF from
<1>4. Without(t, s, j, from)
  BY <1>1, <1>2, <1>3 DEF Without
<1> QED
  BY <1>4, OneLess DEF t
\* okRemoveAt does the same as the line that shortens high.
LEMMA OkIsShortened ==
  ASSUME NEW s, NEW k \in Nat PROVE Slices!OkRemoveAt(k, s) = Slices!Shortened(s, k + 1)
<1>1. (k + 1) - 1 = k /\ (k + 1) + 1 = k + 2
  OBVIOUS
<1> QED
  BY <1>1, ZenonT(30) DEF Slices!OkRemoveAt, Slices!Shortened

\* vFastRemoveAt takes away one, too.
LEMMA OccursVFast ==
  ASSUME NEW x, NEW E, NEW s \in Seq(E), NEW k \in 0..Len(s)-1
  PROVE  Slices!Occurs(x, s) = Slices!Occurs(x, Slices!VFastRemoveAt(k, s)) + (IF s[k + 1] = x THEN 1 ELSE 0)
<1> DEFINE t == Slices!VFastRemoveAt(k, s)
           from == [p \in 1..Len(s)-1 |-> IF p = k + 1 THEN Len(s) ELSE p]
<1>1. Len(s) \in Nat /\ Len(t) = Len(s) - 1 /\ \A p \in 1..Len(s)-1 : t[p] = s[from[p]]
  <2> DEFINE r == [s EXCEPT ![k + 1] = s[Len(s)]]
  <2>1. r \in Seq(E) /\ Len(r) = Len(s) /\ \A p \in 1..Len(s) : r[p] = IF p = k + 1 THEN s[Len(s)] ELSE s[p]
    OBVIOUS
  <2>2. t = SubSeq(r, 1, Len(s) - 1)
    BY DEF Slices!VFastRemoveAt
  <2> HIDE DEF r, t
  <2>3. Len(t) = Len(s) - 1 /\ \A p \in 1..Len(s)-1 : t[p] = r[p]
    BY <2>1, <2>2
  <2> QED
    BY <2>1, <2>3
<1> HIDE DEF t
<1>2. from \in [1..Len(t) -> (1..Len(s)) \ {k + 1}] /\ \A p, q \in 1..Len(t) : from[p] = from[q] => p = q
  BY <1>1
<1>3. ASSUME NEW q \in (1..Len(s)) \ {k + 1} PROVE \E p \in 1..Len(t) : from[p] = q
  <2>1. CASE q < Len(s)
    <3>1. q \in 1..Len(t) /\ from[q] = q
      BY <1>1, <2>1
    <3> QED
      BY <3>1
  <2>2. CASE q = Len(s)
    <3>1. k + 1 \in 1..Len(t) /\ from[k + 1] = q
      BY <1>1, <2>2
    <3> QED
      BY <3>1
  <2>3. q < Len(s) \/ q = Len(s)
    BY <1>1
  <2> QED
    BY <2>1, <2>2, <2>3, ZenonT(30)
<1> HIDE DEF from
<1>4. Without(t, s, k + 1, from)
  BY <1>1, <1>2, <1>3 DEF Without
<1> QED
  BY <1>4, OneLess DEF t

\* The first elements of a list.
LEMMA Prefixes ==
  ASSUME NEW E, NEW s \in Seq(E), NEW k \in 0..Len(s)
  PROVE  /\ SubSeq(s, 1, k) \in Seq(E)
         /\ \A x : Slices!Occurs(x, SubSeq(s, 1, k)) <= Slices!Occurs(x, s)
         /\ k < Len(s) => \A x :
              Slices!Occurs(x, SubSeq(s, 1, k + 1)) =
                Slices!Occurs(x, SubSeq(s, 1, k)) + (IF s[k + 1] = x THEN 1 ELSE 0)
<1> DEFINE t == SubSeq(s, 1, k)
<1>1. t \in Seq(E) /\ Len(t) = k /\ \A p \in 1..k : t[p] = s[p]
  OBVIOUS
<1>2. ASSUME k < Len(s) PROVE SubSeq(s, 1, k + 1) = Append(t, s[k + 1])
  BY <1>2
<1> HIDE DEF t
<1>3. ASSUME NEW x PROVE Slices!Occurs(x, t) <= Slices!Occurs(x, s)
  <2>1. Len(t) \in Nat /\ Len(s) \in Nat
    BY <1>1
  <2>2. Places(x, t) \in SUBSET Places(x, s)
    BY <1>1 DEF Places
  <2> QED
    BY <2>1, <2>2, OccursType, FS_Subset
<1>4. ASSUME k < Len(s), NEW x
      PROVE  Slices!Occurs(x, SubSeq(s, 1, k + 1)) = Slices!Occurs(x, t) + (IF s[k + 1] = x THEN 1 ELSE 0)
  <2>1. t \in Seq(E)
    BY <1>1
  <2>2. Slices!Occurs(x, Append(t, s[k + 1])) = Slices!Occurs(x, t) + (IF s[k + 1] = x THEN 1 ELSE 0)
    BY <2>1, OccursAppended
  <2> QED
    BY <1>2, <1>4, <2>2, ZenonT(30)
<1> QED
  BY <1>1, <1>3, <1>4 DEF t

\* intersection has moved elements from the longer list to its result, at most
\* one for every element of the shorter list that it has looked at.
Moved ==
  /\ right \in Seq(Items) /\ high \in Seq(Items) /\ out \in Seq(Items)
  /\ loop \in 0..Len(Slices!low)
  /\ \A x \in Items :
       /\ Slices!Occurs(x, out) <= Slices!Occurs(x, SubSeq(Slices!low, 1, loop))
       /\ Slices!Occurs(x, out) + Slices!Occurs(x, high) = Slices!Occurs(x, Slices!longer)

\* slowRemoveAt has copied the elements before loop, except that at index i.
Copied ==
  /\ loop \in 0..Len(left) /\ out \in Seq(Items)
  /\ Len(out) = IF loop <= at THEN loop ELSE loop - 1
  /\ \A p \in 1..Len(out) : out[p] = left[IF p <= at THEN p ELSE p + 1]
  /\ over => loop = Len(left)

SliceInv ==
  program = "slices" =>
    /\ left \in Seq(Items)
    /\ function = "intersection" => Moved
    /\ function = "slowRemoveAt" => at \in Int /\ (~Slices!Rejected => Copied)

\* A match moves one element.
LEMMA MatchMoves ==
  ASSUME left \in Seq(Items), Moved, Slices!Match PROVE Moved'
<1> DEFINE l == Slices!low
<1>1. /\ loop < Len(l) /\ loop' = loop + 1 /\ right' = right /\ Slices!longer' = Slices!longer
      /\ Slices!low' = l
  BY DEF Slices!Match, Slices!Iterates, Slices!args, Slices!low, Slices!longer
<1>2. PICK j \in Slices!Same : out' = Append(out, high[j]) /\ high' = Slices!Shortened(high, j)
  BY DEF Slices!Match
<1>3. l \in Seq(Items) /\ loop \in 0..Len(l) /\ loop + 1 \in 0..Len(l)
  BY <1>1 DEF Moved, Slices!low
<1>4. j \in 1..Len(high) /\ high[j] = l[loop + 1]
  BY DEF Slices!Same
<1>5. high' \in Seq(Items) /\ out' \in Seq(Items)
  <2>1. high \in Seq(Items) /\ out \in Seq(Items) /\ high[j] \in Items
    BY <1>4 DEF Moved
  <2>2. Slices!Shortened(high, j) \in Seq(Items)
    BY <1>4, <2>1, ShortenedElements
  <2> QED
    BY <1>2, <2>1, <2>2
<1> HIDE DEF l
<1>6. ASSUME NEW x \in Items
      PROVE  /\ Slices!Occurs(x, out') <= Slices!Occurs(x, SubSeq(l, 1, loop + 1))
             /\ Slices!Occurs(x, out') + Slices!Occurs(x, high') = Slices!Occurs(x, Slices!longer)
  <2> DEFINE one == IF high[j] = x THEN 1 ELSE 0
  <2>1. Slices!Occurs(x, out') = Slices!Occurs(x, out) + one
    BY <1>2, OccursAppended DEF Moved
  <2>2. Slices!Occurs(x, high) = Slices!Occurs(x, high') + one
    BY <1>2, <1>4, OccursShortened DEF Moved
  <2>3. Slices!Occurs(x, SubSeq(l, 1, loop + 1)) = Slices!Occurs(x, SubSeq(l, 1, loop)) + one
    BY <1>1, <1>3, <1>4, Prefixes
  <2>4. /\ Slices!Occurs(x, out) <= Slices!Occurs(x, SubSeq(l, 1, loop))
        /\ Slices!Occurs(x, out) + Slices!Occurs(x, high) = Slices!Occurs(x, Slices!longer)
    BY DEF Moved, l
  <2>5. /\ Slices!Occurs(x, out) \in Nat /\ Slices!Occurs(x, high') \in Nat
        /\ Slices!Occurs(x, SubSeq(l, 1, loop)) \in Nat
    <3>1. Len(out) \in Nat /\ Len(high') \in Nat /\ Len(SubSeq(l, 1, loop)) \in Nat
      BY <1>3, <1>5, Prefixes DEF Moved
    <3> QED
      BY <3>1, OccursType
  <2> HIDE DEF one
  <2>6. one \in {0, 1}
    BY DEF one
  <2> QED
    BY <2>1, <2>2, <2>3, <2>4, <2>5, <2>6
<1> QED
  BY <1>1, <1>3, <1>5, <1>6 DEF Moved, l
\* slowRemoveAt and the element it looks at.
LEMMA KeepCopies ==
  ASSUME left \in Seq(Items), at \in 0..Len(left), Copied, Slices!Keep PROVE Copied'
<1>1. /\ loop < Len(left) /\ loop' = loop + 1 /\ UNCHANGED <<left, at, over>> /\ ~over
      /\ out' = IF loop # at THEN Append(out, left[loop + 1]) ELSE out
  BY DEF Slices!Keep, Slices!Iterates, Slices!args
<1>2. loop \in Nat /\ loop + 1 \in 0..Len(left) /\ left[loop + 1] \in Items
  BY <1>1 DEF Copied
<1>3. out \in Seq(Items) /\ Len(out) = IF loop <= at THEN loop ELSE loop - 1
  BY DEF Copied
<1>4. CASE loop = at
  BY <1>1, <1>2, <1>3, <1>4 DEF Copied
<1>5. CASE loop # at
  <2> DEFINE k == Len(out) + 1
  <2>1. out' \in Seq(Items) /\ Len(out') = k /\ out'[k] = left[loop + 1]
        /\ \A p \in 1..Len(out) : out'[p] = out[p]
    BY <1>1, <1>2, <1>3, <1>5
  <2>2. loop + 1 = IF k <= at THEN k ELSE k + 1
    BY <1>2, <1>3, <1>5
  <2>3. k = IF loop + 1 <= at THEN loop + 1 ELSE (loop + 1) - 1
    BY <1>2, <1>3, <1>5
  <2>4. \A p \in 1..k : out'[p] = left[IF p <= at THEN p ELSE p + 1]
    <3> SUFFICES ASSUME NEW p \in 1..k PROVE out'[p] = left[IF p <= at THEN p ELSE p + 1]
      OBVIOUS
    <3>1. CASE p = k
      BY <2>1, <2>2, <3>1
    <3>2. CASE p \in 1..Len(out)
      BY <2>1, <3>2 DEF Copied
    <3>3. p = k \/ p \in 1..Len(out)
      BY <1>3
    <3> QED
      BY <3>1, <3>2, <3>3, ZenonT(30)
  <2> HIDE DEF k
  <2> QED
    BY <1>1, <1>2, <2>1, <2>3, <2>4 DEF Copied
<1> QED
  BY <1>4, <1>5

\* Every iteration keeps what the loops have done.
THEOREM SliceInvariance == Spec => []SliceInv
<1> USE ProgramsAssumption DEF Slices!SliceAssumption
<1>1. Init => SliceInv
  <2> SUFFICES ASSUME Slices!Init, program = "slices" PROVE SliceInv
    BY DEF Init, SliceInv
  <2>1. \A s \in Slices!Slices : s \in Seq(Items)
    BY DEF Slices!Slices
  <2>2. left \in Seq(Items) /\ loop = 0 /\ out = <<>> /\ over = FALSE
    BY <2>1 DEF Slices!Init
  <2>3. CASE function = "intersection"
    <3>1. right \in Seq(Items) /\ high = Slices!longer
      BY <2>1, <2>3 DEF Slices!Init
    <3>2. Slices!low \in Seq(Items) /\ Slices!longer \in Seq(Items)
      BY <2>2, <3>1 DEF Slices!low, Slices!longer
    <3>3. \A x : Slices!Occurs(x, out) = 0
      <4>1. Len(out) = 0 /\ \A x : Places(x, out) = {}
        BY <2>2 DEF Places
      <4> QED
        BY <4>1, OccursType, FS_EmptySet
    <3>4. \A x : Slices!Occurs(x, SubSeq(Slices!low, 1, 0)) \in Nat /\ Slices!Occurs(x, high) \in Nat
      <4>1. Len(SubSeq(Slices!low, 1, 0)) \in Nat /\ Len(high) \in Nat
        BY <3>1, <3>2
      <4> QED
        BY <4>1, OccursType
    <3>5. Moved
      BY <2>2, <3>1, <3>2, <3>3, <3>4 DEF Moved
    <3> QED
      BY <2>2, <2>3, <3>5 DEF SliceInv
  <2>4. CASE function = "slowRemoveAt"
    <3>1. at \in Int
      BY <2>2, <2>4 DEF Slices!Init
    <3>2. ~Slices!Rejected => Copied
      BY <2>2, <3>1 DEF Slices!Rejected, Copied
    <3> QED
      BY <2>2, <2>4, <3>1, <3>2 DEF SliceInv
  <2> QED
    BY <2>2, <2>3, <2>4 DEF Slices!Init
<1>2. SliceInv /\ [Next]_all => SliceInv'
  <2> SUFFICES ASSUME SliceInv, program = "slices", program' = program, Slices!Next \/ UNCHANGED slices
               PROVE  SliceInv'
    BY DEF SliceInv, Next, all
  <2>1. left \in Seq(Items)
    BY DEF SliceInv
  <2>2. CASE Slices!Match
    <3>1. function = "intersection" /\ UNCHANGED <<function, left>>
      BY <2>2 DEF Slices!Match, Slices!Iterates, Slices!args
    <3>2. Moved'
      BY <2>1, <2>2, <3>1, MatchMoves DEF SliceInv
    <3> QED
      BY <2>1, <3>1, <3>2 DEF SliceInv
  <2>3. CASE Slices!NoMatch
    <3>1. /\ function = "intersection" /\ loop < Len(Slices!low) /\ loop' = loop + 1
          /\ UNCHANGED <<function, left, right, high, out>>
      BY <2>3 DEF Slices!NoMatch, Slices!Iterates, Slices!args
    <3>2. Slices!low' = Slices!low /\ Slices!longer' = Slices!longer
      BY <3>1 DEF Slices!low, Slices!longer
    <3>3. Moved
      BY <3>1 DEF SliceInv
    <3> DEFINE l == Slices!low
    <3>4. l \in Seq(Items) /\ loop \in 0..Len(l) /\ loop + 1 \in 0..Len(l) /\ loop < Len(l)
      BY <2>1, <3>1, <3>3 DEF Moved, Slices!low
    <3> HIDE DEF l
    <3>5. ASSUME NEW x
          PROVE  Slices!Occurs(x, SubSeq(l, 1, loop + 1)) =
                   Slices!Occurs(x, SubSeq(l, 1, loop)) + (IF l[loop + 1] = x THEN 1 ELSE 0)
      BY <3>4, Prefixes
    <3>6. ASSUME NEW x PROVE Slices!Occurs(x, out) \in Nat /\ Slices!Occurs(x, SubSeq(l, 1, loop)) \in Nat
                             /\ Slices!Occurs(x, SubSeq(l, 1, loop + 1)) \in Nat
      <4>1. Len(out) \in Nat /\ Len(SubSeq(l, 1, loop)) \in Nat /\ Len(SubSeq(l, 1, loop + 1)) \in Nat
        BY <3>3, <3>4 DEF Moved
      <4> QED
        BY <4>1, OccursType
    <3>7. Moved'
      BY <3>1, <3>2, <3>3, <3>4, <3>5, <3>6 DEF Moved, l
    <3> QED
      BY <2>1, <3>1, <3>7 DEF SliceInv
  <2>4. CASE Slices!Ends("intersection", Slices!low)
    <3>1. function = "intersection" /\ UNCHANGED <<function, left, right, loop, high, out>>
      BY <2>4 DEF Slices!Ends, Slices!args
    <3> QED
      BY <3>1 DEF SliceInv, Moved, Slices!low, Slices!longer
  <2>5. CASE Slices!Reject
    BY <2>5 DEF Slices!Reject, Slices!args, SliceInv, Slices!Rejected
  <2>6. CASE Slices!Keep
    <3>1. function = "slowRemoveAt" /\ UNCHANGED <<function, left, at>> /\ ~Slices!Rejected
      BY <2>6 DEF Slices!Keep, Slices!Iterates, Slices!args
    <3>2. at \in 0..Len(left) /\ Copied
      BY <2>1, <3>1 DEF SliceInv, Slices!Rejected
    <3>3. Copied'
      BY <2>1, <2>6, <3>2, KeepCopies
    <3> QED
      BY <2>1, <3>1, <3>2, <3>3 DEF SliceInv
  <2>7. CASE ~Slices!Rejected /\ Slices!Ends("slowRemoveAt", left)
    <3>1. /\ function = "slowRemoveAt" /\ UNCHANGED <<function, left, at, loop, out>>
          /\ loop = Len(left)
      BY <2>7 DEF Slices!Ends, Slices!args
    <3> QED
      BY <2>7, <3>1 DEF SliceInv, Copied
  <2>8. CASE UNCHANGED slices
    BY <2>8 DEF slices, SliceInv, Moved, Copied, Slices!low, Slices!longer, Slices!Rejected
  <2> QED
    BY <2>2, <2>3, <2>4, <2>5, <2>6, <2>7, <2>8 DEF Slices!Next
<1> QED
  BY <1>1, <1>2, PTL DEF Spec
\* Whatever the slices, intersection moves elements of the longer list to its
\* result and none more often than the shorter list has it, and the three
\* deletions of slice-delete leave the same elements.
THEOREM NoElementLost == Spec => []ElementsAccounted
<1>1. SliceInv => ElementsAccounted
  <2> SUFFICES ASSUME SliceInv, program = "slices" PROVE Slices!ElementsAccounted
    BY DEF ElementsAccounted
  <2>1. left \in Seq(Items)
    BY DEF SliceInv
  <2>2. ASSUME function = "intersection", NEW x \in Items
        PROVE  /\ Slices!Occurs(x, out) <= Slices!Occurs(x, Slices!low)
               /\ Slices!Occurs(x, out) + Slices!Occurs(x, high) = Slices!Occurs(x, Slices!longer)
    <3> DEFINE l == Slices!low
               r == SubSeq(l, 1, loop)
    <3>1. Moved
      BY <2>2 DEF SliceInv
    <3>2. l \in Seq(Items) /\ loop \in 0..Len(l)
      BY <2>1, <3>1 DEF Moved, Slices!low
    <3>3. Slices!Occurs(x, out) <= Slices!Occurs(x, r)
      BY <3>1 DEF Moved
    <3> HIDE DEF l
    <3>4. r \in Seq(Items) /\ Slices!Occurs(x, r) <= Slices!Occurs(x, l)
      BY <3>2, Prefixes
    <3> HIDE DEF r
    <3>5. Slices!Occurs(x, r) \in Nat /\ Slices!Occurs(x, l) \in Nat /\ Slices!Occurs(x, out) \in Nat
      <4>1. Len(r) \in Nat /\ Len(l) \in Nat /\ Len(out) \in Nat
        BY <3>1, <3>2, <3>4 DEF Moved
      <4> QED
        BY <4>1, OccursType
    <3>6. Slices!Occurs(x, out) <= Slices!Occurs(x, l)
      BY <3>3, <3>4, <3>5
    <3> QED
      BY <3>1, <3>6 DEF Moved, l
  <2>3. ASSUME function = "slowRemoveAt", over, at \in 0..Len(left)-1
        PROVE  /\ out = Slices!OkRemoveAt(at, left)
               /\ \A x \in Items : Slices!Occurs(x, out) = Slices!Occurs(x, Slices!VFastRemoveAt(at, left))
    <3> DEFINE t == Slices!Shortened(left, at + 1)
    <3>1. Copied
      BY <2>3 DEF SliceInv, Slices!Rejected
    <3>2. at + 1 \in 1..Len(left) /\ at \in Nat
      BY <2>1, <2>3
    <3>3. /\ t \in Seq(Items) /\ Len(t) = Len(left) - 1
          /\ \A p \in 1..Len(left)-1 : t[p] = left[IF p < at + 1 THEN p ELSE p + 1]
      BY <2>1, <3>2, ShortenedElements
    <3> HIDE DEF t
    <3>4. out \in Seq(Items) /\ Len(out) = Len(left) - 1
      BY <2>1, <2>3, <3>1 DEF Copied
    <3>5. ASSUME NEW p \in 1..Len(out) PROVE out[p] = t[p]
      <4>1. p \in Int /\ p \in 1..Len(left)-1 /\ (p <= at <=> p < at + 1)
        BY <2>1, <3>2, <3>4
      <4> QED
        BY <3>1, <3>3, <4>1 DEF Copied
    <3>6. out = t
      BY <3>3, <3>4, <3>5
    <3>7. t = Slices!OkRemoveAt(at, left)
      BY <3>2, OkIsShortened DEF t
    <3>8. ASSUME NEW x PROVE Slices!Occurs(x, t) = Slices!Occurs(x, Slices!VFastRemoveAt(at, left))
      <4> DEFINE v == Slices!VFastRemoveAt(at, left)
                 one == IF left[at + 1] = x THEN 1 ELSE 0
      <4>1. Slices!Occurs(x, left) = Slices!Occurs(x, t) + one
        BY <2>1, <3>2, OccursShortened DEF t
      <4>2. Slices!Occurs(x, left) = Slices!Occurs(x, v) + one
        BY <2>1, <2>3, OccursVFast
      <4>3. Len(v) \in Nat
        BY <2>1, <2>3 DEF Slices!VFastRemoveAt
      <4>4. Slices!Occurs(x, t) \in Nat /\ Slices!Occurs(x, v) \in Nat
        BY <3>3, <4>3, OccursType
      <4> HIDE DEF v, one
      <4>5. one \in {0, 1}
        BY DEF one
      <4>6. Slices!Occurs(x, t) = Slices!Occurs(x, v)
        BY <4>1, <4>2, <4>4, <4>5
      <4> QED
        BY <4>6 DEF v
    <3> QED
      BY <3>6, <3>7, <3>8
  <2> QED
    BY <2>2, <2>3 DEF Slices!ElementsAccounted
<1> QED
  BY <1>1, SliceInvariance, PTL
=============================================================================
