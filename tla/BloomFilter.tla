---------------------------- MODULE BloomFilter -----------------------------
(***************************************************************************)
(* The Bloom filter of bloomfilter-explore.  Its hash functions are        *)
(* objects that keep what was written to them, so that every computation   *)
(* of a hash depends on how the last one left them.                        *)
(***************************************************************************)
EXTENDS Naturals

CONSTANTS
  Items,
  K,          \* hash functions
  M,          \* size of the bitset
  Digests,    \* the digests a hash function may give
  MaxAdds     \* bound on the calls of Add

FilterAssumption == K \in Nat /\ M \in Nat \ {0} /\ Digests \subseteq Nat /\ MaxAdds \in Nat

VARIABLES
  digest,     \* the digest of each item alone, by each function (external)
  residue,    \* what a function starts from: zero after Reset
  bitset,
  n,
  added       \* history: the items that were added

vars == <<digest, residue, bitset, n, added>>

Funcs == 1..K
Positions == 0..(M - 1)

Init ==
  /\ digest \in [Items -> [Funcs -> Digests]]
  /\ residue = [i \in Funcs |-> 0]
  /\ bitset = [p \in Positions |-> FALSE] /\ n = 0 /\ added = {}

\* Write and Sum64: the digest of what was written since Reset.
Sum64(x, i) == residue[i] + digest[x][i]

\* Mutant: hashFunc.Reset is left out.
Reset_Not(x) == [i \in Funcs |-> Sum64(x, i)]

Reset(x) == [i \in Funcs |-> 0]

Position(x, i) == Sum64(x, i) % M

Add(x) ==
  /\ n < MaxAdds
  /\ bitset' = [p \in Positions |-> bitset[p] \/ \E i \in Funcs : Position(x, i) = p]
  /\ residue' = Reset(x)
  /\ n' = n + 1 /\ added' = added \cup {x}
  /\ UNCHANGED digest

\* What TestIsPresent returns.
Present(x) == \A i \in Funcs : bitset[Position(x, i)]

\* It computes all hashes before it looks at the first bit.
TestIsPresent(x) ==
  /\ residue' = Reset(x)
  /\ UNCHANGED <<digest, bitset, n, added>>

Next == \E x \in Items : Add(x) \/ TestIsPresent(x)

Spec == Init /\ [][Next]_vars

-----------------------------------------------------------------------------
(* Properties.                                                             *)

\* "Check if items is maybe in the Set": an item that was added is never
\* reported missing, whatever was added or tested since and however digests
\* collide.
NoFalseNegatives == \A x \in added : Present(x)
=============================================================================
