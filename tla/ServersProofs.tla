--------------------------- MODULE ServersProofs ---------------------------
(***************************************************************************)
(* Two servers.  The lease table of the DHCP server: no address is used    *)
(* twice, for any number of clients and addresses, any lease duration and  *)
(* any delay of messages.  The shutdown of a member of the goraft cluster, *)
(* for any number of handlers: no channel is closed twice, peers are       *)
(* served while the loop runs, and an error of the transport is seen by a  *)
(* reader of errorC.                                                       *)
(***************************************************************************)
EXTENDS KVShutdown, DHCPLeases, FiniteSetTheorems, TLAPS

\* The solvers that a leaf without one of its own tries in turn, with their time
\* limits in seconds.
USE SMTT(15), ZenonT(20), SMTT(30), SMTT(60), SMTT(120)

(***************************************************************************)
(* The lease table.                                                        *)
(***************************************************************************)
\* A client that uses an address, or is about to learn that it may, owns the
\* entry of the lease table.
Owned ==
  /\ \A c \in Clients : phase[c] \in Using => addr[c] \in Addresses /\ nic[addr[c]] = c
  /\ \A a \in acks : Current(a) =>
       a.addr = addr[a.nic] /\ a.addr \in Addresses /\ nic[a.addr] = a.nic

\* The latest request of a waiting client is for the address it has in mind,
\* and no message is ahead of its client.
Orderly ==
  /\ \A m \in requests : m.xid <= xid[m.nic] /\ (Current(m) => m.addr = addr[m.nic])
  /\ \A r \in acks \cup naks : r.xid <= xid[r.nic]

IInv == TypeOK /\ Orderly /\ Owned /\ RenewalHonoured
-----------------------------------------------------------------------------
USE LeaseAssumption DEF Addresses, Asked, Unusable, Using, Waiting, Phases

\* The invariant holds of an empty table and clients that have not asked.
LEMMA InitInv == Init => IInv
BY DEF Init, IInv, TypeOK, Orderly, Owned, RenewalHonoured, Requests, Replies

\* Steps that send nothing, leave the server alone and only make a client c
\* stop waiting or using.
LEMMA RestPreserves ==
  ASSUME IInv, NEW c \in Clients, NEW p \in {"init", "selecting", "releasing"},
         phase' = [phase EXCEPT ![c] = p], addr' \in [Clients -> Asked],
         \A d \in Clients \ {c} : addr'[d] = addr[d],
         UNCHANGED <<now, server, xid, requests, acks, naks>>
  PROVE  IInv'
<1>1. TypeOK'
  BY ZenonT(30) DEF IInv, TypeOK, server
<1>2. \A d \in Clients : phase'[d] \in Using \cup Waiting => d # c /\ phase'[d] = phase[d] /\ addr'[d] = addr[d]
  BY DEF IInv, TypeOK
<1>3. requests \subseteq Requests /\ acks \subseteq Replies /\ naks \subseteq Replies
  BY DEF IInv, TypeOK
<1>4. \A r \in requests \cup acks \cup naks : r.nic \in Clients
  BY <1>3 DEF Requests, Replies
<1>5. Orderly'
  BY <1>2, <1>4 DEF IInv, Orderly, Current
<1>6. Owned'
  BY <1>2, <1>4 DEF IInv, Owned, Current, server
<1>7. RenewalHonoured'
  BY <1>2, <1>4 DEF IInv, RenewalHonoured, Current
<1> QED
  BY <1>1, <1>5, <1>6, <1>7 DEF IInv

\* Every message comes from a client.
LEMMA Senders ==
  TypeOK => /\ \A r \in requests \cup acks \cup naks : r.nic \in Clients /\ r.xid \in 0..MaxXid
            /\ \A r \in requests \cup acks \cup naks : r.addr \in Asked
BY DEF TypeOK, Requests, Replies

\* A new request makes every earlier message of its client late.
LEMMA SendPreserves ==
  ASSUME IInv, NEW c \in Clients, NEW i \in Asked, NEW b \in BOOLEAN, NEW p \in Phases,
         Send(c, i, b), phase' = [phase EXCEPT ![c] = p], addr' = [addr EXCEPT ![c] = i],
         \/ p \in {"init", "requesting"}
         \/ p = "renewing" /\ phase[c] \in Using /\ i = addr[c]
  PROVE  IInv'
<1> DEFINE new == Request(c, i, xid[c] + 1, b)
<1>a. TypeOK /\ Orderly /\ Owned /\ RenewalHonoured
  BY DEF IInv
<1>b. /\ xid[c] \in Nat /\ xid[c] + 1 \in 0..MaxXid
      /\ xid' = [xid EXCEPT ![c] = xid[c] + 1] /\ requests' = requests \cup {new}
      /\ UNCHANGED <<now, nic, expiry, acks, naks>>
  BY <1>a DEF TypeOK, Send, server
<1>c. new \in Requests /\ new.nic = c /\ new.addr = i /\ new.xid = xid[c] + 1
  BY <1>b DEF Request, Requests
<1>d. \A d \in Clients : d # c => phase'[d] = phase[d] /\ addr'[d] = addr[d] /\ xid'[d] = xid[d]
  BY <1>a, <1>b DEF TypeOK
<1>e. phase'[c] = p /\ addr'[c] = i /\ xid'[c] = xid[c] + 1
  BY <1>a, <1>b DEF TypeOK
<1>f. \A r \in requests \cup acks \cup naks : r.xid <= xid[r.nic] /\ r.nic \in Clients /\ r.xid \in Nat
  BY <1>a, Senders DEF Orderly
<1>g. \A r \in requests \cup acks \cup naks : Current(r)' => r.nic # c /\ Current(r)
  BY <1>b, <1>d, <1>e, <1>f DEF Current
<1>1. TypeOK'
  BY <1>a, <1>b, <1>c DEF TypeOK
<1>2. Orderly'
  <2>1. \A r \in requests \cup acks \cup naks : r.xid <= xid'[r.nic]
    BY <1>b, <1>d, <1>e, <1>f
  <2>2. \A r \in requests : Current(r)' => r.addr = addr'[r.nic]
    BY <1>a, <1>d, <1>f, <1>g DEF Orderly
  <2>3. new.xid <= xid'[new.nic] /\ new.addr = addr'[new.nic]
    BY <1>b, <1>c, <1>e
  <2> QED
    BY <1>b, <2>1, <2>2, <2>3 DEF Orderly
<1>3. Owned'
  <2>1. \A d \in Clients : phase'[d] \in Using => phase[d] \in Using /\ addr'[d] = addr[d]
    BY <1>d, <1>e
  <2>2. \A a \in acks : Current(a)' => addr'[a.nic] = addr[a.nic] /\ Current(a)
    BY <1>d, <1>f, <1>g
  <2> QED
    BY <1>a, <1>b, <2>1, <2>2 DEF Owned
<1>4. RenewalHonoured'
  BY <1>a, <1>b, <1>d, <1>f, <1>g DEF RenewalHonoured
<1> QED
  BY <1>1, <1>2, <1>3, <1>4 DEF IInv

\* Granting a request takes an entry from nobody: its owner before, if any,
\* is the client that asks.
LEMMA HandleRequestPreserves ==
  ASSUME IInv, NEW m \in requests, HandleRequest(m)
  PROVE  IInv'
<1> DEFINE r == Reply(m.nic, m.addr, m.xid)
<1>a. TypeOK /\ Orderly /\ Owned /\ RenewalHonoured
  BY DEF IInv
<1>b. m.nic \in Clients /\ m.addr \in Asked /\ m.xid \in 0..MaxXid
  BY <1>a, Senders
<1>c. r \in Replies /\ r.nic = m.nic /\ r.addr = m.addr /\ r.xid = m.xid
  BY <1>b DEF Reply, Replies
<1>d. requests' \subseteq requests /\ UNCHANGED <<now, phase, addr, xid>>
  BY DEF HandleRequest, client
<1>e. m.xid <= xid[m.nic] /\ (Current(m) => m.addr = addr[m.nic])
  BY <1>a DEF Orderly
<1>1. CASE ~m.forUs
  <2>1. UNCHANGED <<nic, expiry, acks, naks>>
    BY <1>1 DEF HandleRequest, server
  <2> QED
    BY <1>a, <1>d, <2>1 DEF IInv, TypeOK, Orderly, Owned, RenewalHonoured, Current
<1>2. CASE m.forUs /\ InRange(m.addr) /\ MayLease(m.addr, m.nic)
  <2>a. /\ nic' = [nic EXCEPT ![m.addr] = m.nic]
        /\ expiry' = [expiry EXCEPT ![m.addr] = now + LeaseDuration]
        /\ acks' = acks \cup {r} /\ naks' = naks
    BY <1>2 DEF HandleRequest, NewExpiry
  <2>b. m.addr \in Addresses /\ nic[m.addr] \in {NoNic, m.nic}
    BY <1>2 DEF InRange, MayLease
  <2>c. \A i \in Addresses : nic[i] \in Clients => nic'[i] = nic[i]
    BY <1>a, <2>a, <2>b DEF TypeOK
  <2>d. nic'[m.addr] = m.nic
    BY <1>a, <2>a, <2>b DEF TypeOK
  <2>1. TypeOK'
    <3>1. now + LeaseDuration \in 0..MaxTime+LeaseDuration
      BY <1>a DEF TypeOK
    <3> QED
      BY <1>a, <1>b, <1>c, <1>d, <2>a, <3>1, ZenonT(30) DEF TypeOK
  <2>2. Orderly'
    BY <1>a, <1>c, <1>d, <1>e, <2>a DEF Orderly, Current
  <2>3. Owned'
    <3>1. \A c \in Clients : phase[c] \in Using => addr[c] \in Addresses /\ nic'[addr[c]] = c
      BY <1>a, <2>c DEF Owned
    <3>2. \A a \in acks : Current(a) =>
            a.addr = addr[a.nic] /\ a.addr \in Addresses /\ nic'[a.addr] = a.nic
      BY <1>a, <2>c, Senders DEF Owned
    <3>3. Current(r) => r.addr = addr[r.nic] /\ r.addr \in Addresses /\ nic'[r.addr] = r.nic
      BY <1>c, <1>e, <2>b, <2>d DEF Current
    <3> QED
      BY <1>d, <2>a, <3>1, <3>2, <3>3 DEF Owned, Current
  <2>4. RenewalHonoured'
    BY <1>a, <1>d, <2>a DEF RenewalHonoured, Current
  <2> QED
    BY <2>1, <2>2, <2>3, <2>4 DEF IInv
<1>3. CASE m.forUs /\ ~(InRange(m.addr) /\ MayLease(m.addr, m.nic))
  <2>a. naks' = naks \cup {r} /\ UNCHANGED <<nic, expiry, acks>>
    BY <1>3 DEF HandleRequest, server
  <2>1. TypeOK'
    BY <1>a, <1>c, <1>d, <2>a DEF TypeOK
  <2>2. Orderly' /\ Owned'
    BY <1>a, <1>c, <1>d, <1>e, <2>a DEF Orderly, Owned, Current
  <2>3. Current(r) => phase[r.nic] # "renewing"
    <3>1. phase[m.nic] = "renewing" /\ m.addr = addr[m.nic] => InRange(m.addr) /\ MayLease(m.addr, m.nic)
      BY <1>a, <1>b DEF Owned, InRange, MayLease
    <3> QED
      BY <1>3, <1>c, <1>e, <3>1 DEF Current
  <2>4. RenewalHonoured'
    BY <1>a, <1>d, <2>a, <2>3 DEF RenewalHonoured, Current
  <2> QED
    BY <2>1, <2>2, <2>4 DEF IInv
<1> QED
  BY <1>1, <1>2, <1>3

\* The entry that goes belongs to a client that uses nothing and waits for
\* nothing.
LEMMA HandleReleasePreserves ==
  ASSUME IInv, NEW c \in Clients, HandleRelease(c)
  PROVE  IInv'
<1>a. TypeOK /\ Orderly /\ Owned /\ RenewalHonoured
  BY DEF IInv
<1>b. phase[c] = "releasing" /\ UNCHANGED <<now, expiry, addr, xid, requests, acks, naks>>
  BY DEF HandleRelease
<1>c. \A d \in Clients : phase'[d] \in Using \cup Waiting => d # c /\ phase'[d] = phase[d]
  BY <1>a DEF TypeOK, HandleRelease
<1>d. nic' \in [Addresses -> Clients \cup {NoNic}]
  BY <1>a DEF TypeOK, HandleRelease
<1>e. \A i \in Addresses : nic[i] \in Clients \ {c} => nic'[i] = nic[i]
  BY <1>a DEF TypeOK, HandleRelease, Released
<1>f. \A r \in requests \cup acks \cup naks : r.nic \in Clients
  BY <1>a, Senders
<1>1. TypeOK'
  BY <1>a, <1>b, <1>d DEF TypeOK, HandleRelease
<1>2. Orderly'
  BY <1>a, <1>b, <1>c, <1>f DEF Orderly, Current
<1>3. Owned'
  BY <1>a, <1>b, <1>c, <1>e, <1>f DEF Owned, Current
<1>4. RenewalHonoured'
  BY <1>a, <1>b, <1>c, <1>f DEF RenewalHonoured, Current
<1> QED
  BY <1>1, <1>2, <1>3, <1>4 DEF IInv

\* The ACK names the entry the client then relies on.
LEMMA AcceptAckPreserves ==
  ASSUME IInv, NEW a \in acks, AcceptAck(a)
  PROVE  IInv'
<1>a. TypeOK /\ Orderly /\ Owned /\ RenewalHonoured
  BY DEF IInv
<1>b. a.nic \in Clients
  BY <1>a, Senders
<1>c. addr[a.nic] \in Addresses /\ nic[addr[a.nic]] = a.nic
  BY <1>a DEF Owned, AcceptAck
<1>d. acks' \subseteq acks /\ UNCHANGED <<now, nic, expiry, addr, xid, requests, naks>>
  BY DEF AcceptAck, server
<1>e. phase'[a.nic] = "bound" /\ \A d \in Clients \ {a.nic} : phase'[d] = phase[d]
  BY <1>a, <1>b DEF TypeOK, AcceptAck
<1>f. \A r \in requests \cup acks \cup naks : r.nic \in Clients /\ (Current(r)' => r.nic # a.nic /\ Current(r))
  BY <1>a, <1>d, <1>e, Senders DEF Current
<1>1. TypeOK'
  BY <1>a, <1>b, <1>d DEF TypeOK, AcceptAck
<1>2. Orderly'
  BY <1>a, <1>d, <1>f DEF Orderly
<1>3. Owned'
  BY <1>a, <1>c, <1>d, <1>e, <1>f DEF Owned
<1>4. RenewalHonoured'
  BY <1>a, <1>d, <1>e, <1>f DEF RenewalHonoured
<1> QED
  BY <1>1, <1>2, <1>3, <1>4 DEF IInv

\* A client that is refused gives up its address.
LEMMA AcceptNakPreserves ==
  ASSUME IInv, NEW n \in naks, AcceptNak(n)
  PROVE  IInv'
<1>a. TypeOK /\ Orderly /\ Owned /\ RenewalHonoured
  BY DEF IInv
<1>b. n.nic \in Clients
  BY <1>a, Senders
<1>c. naks' \subseteq naks /\ UNCHANGED <<now, nic, expiry, addr, xid, requests, acks>>
  BY DEF AcceptNak, server
<1>d. phase'[n.nic] = "init" /\ \A d \in Clients \ {n.nic} : phase'[d] = phase[d]
  BY <1>a, <1>b DEF TypeOK, AcceptNak
<1>e. \A r \in requests \cup acks \cup naks : r.nic \in Clients /\ (Current(r)' => r.nic # n.nic /\ Current(r))
  BY <1>a, <1>c, <1>d, Senders DEF Current
<1>1. TypeOK'
  BY <1>a, <1>b, <1>c DEF TypeOK, AcceptNak
<1>2. Orderly'
  BY <1>a, <1>c, <1>e DEF Orderly
<1>3. Owned'
  BY <1>a, <1>c, <1>d, <1>e DEF Owned
<1>4. RenewalHonoured'
  BY <1>a, <1>c, <1>d, <1>e DEF RenewalHonoured
<1> QED
  BY <1>1, <1>2, <1>3, <1>4 DEF IInv

\* What a client does by itself keeps IInv.
LEMMA ClientPreserves ==
  ASSUME IInv, NEW c \in Clients,
         \/ Discover(c) \/ AskOffered(c) \/ AskOtherServer(c) \/ Renew(c)
         \/ \E i \in Asked : AskRemembered(c, i)
         \/ Leave(c) \/ SendRelease(c) \/ LoseRelease(c)
  PROVE  IInv'
<1>a. addr \in [Clients -> Asked] /\ addr[c] \in Asked /\ addr = [addr EXCEPT ![c] = addr[c]]
  BY DEF IInv, TypeOK
<1>1. CASE Discover(c)
  <2>1. PICK i \in Offers(c) : addr' = [addr EXCEPT ![c] = i]
    BY <1>1, ZenonT(30) DEF Discover
  <2>2. i \in Asked
    BY <2>1 DEF Offers, FreeLease, Scan
  <2> QED
    BY <1>1, <1>a, <2>1, <2>2, RestPreserves, ZenonT(30) DEF Discover
<1>2. CASE AskOffered(c)
  BY <1>2, <1>a, SendPreserves, ZenonT(30) DEF AskOffered
<1>3. CASE AskOtherServer(c)
  BY <1>3, <1>a, SendPreserves, ZenonT(30) DEF AskOtherServer
<1>4. CASE Renew(c)
  BY <1>4, <1>a, SendPreserves, ZenonT(30) DEF Renew
<1>5. CASE \E i \in Asked : AskRemembered(c, i)
  BY <1>5, SendPreserves, ZenonT(30) DEF AskRemembered
<1>6. CASE Leave(c) \/ SendRelease(c) \/ LoseRelease(c)
  BY <1>6, <1>a, RestPreserves DEF Leave, SendRelease, LoseRelease
<1> QED
  BY <1>1, <1>2, <1>3, <1>4, <1>5, <1>6

\* Every step of the server, the clients and the clock keeps IInv.
LEMMA NextPreserves == IInv /\ [Next]_vars => IInv'
<1> SUFFICES ASSUME IInv, [Next]_vars PROVE IInv'
  OBVIOUS
<1>1. CASE Tick
  BY <1>1 DEF IInv, Tick, TypeOK, Orderly, Owned, RenewalHonoured, Current, server, client
<1>2. CASE \E c \in Clients : HandleRelease(c)
  BY <1>2, HandleReleasePreserves
<1>3. CASE \E m \in requests : HandleRequest(m)
  BY <1>3, HandleRequestPreserves
<1>4. CASE \E a \in acks : AcceptAck(a)
  BY <1>4, AcceptAckPreserves
<1>5. CASE \E n \in naks : AcceptNak(n)
  BY <1>5, AcceptNakPreserves
<1>6. CASE UNCHANGED vars
  BY <1>6 DEF IInv, vars, TypeOK, Orderly, Owned, RenewalHonoured, Current, server, client
<1> QED
  BY <1>1, <1>2, <1>3, <1>4, <1>5, <1>6, ClientPreserves DEF Next

\* IInv is an inductive invariant of the lease table and its clients.
THEOREM Invariance == Spec => []IInv
<1>1. Init => IInv
  BY InitInv
<1>2. IInv /\ [Next]_vars => IInv'
  BY NextPreserves
<1> QED
  BY <1>1, <1>2, PTL DEF Spec

\* ServeDHCP never lets two clients use one address at a time.
THEOREM NoAddressTwice == Spec => []AddressUnique
<1>1. IInv => AddressUnique
  BY DEF IInv, Owned, AddressUnique
<1> QED
  BY <1>1, Invariance, PTL

\* ServeDHCP never refuses the renewal of an address in use.
THEOREM RenewalsGranted == Spec => []RenewalHonoured
<1>1. IInv => RenewalHonoured
  BY DEF IInv
<1> QED
  BY <1>1, Invariance, PTL

-----------------------------------------------------------------------------
(* The search for a free address.                                          *)

\* A set of natural numbers that is not empty has a least element.
LEMMA Least ==
  ASSUME NEW T \in SUBSET Nat, T # {}
  PROVE  \E x \in T : \A y \in T : x <= y
<1> DEFINE D == {1..x : x \in T}
<1>1. D \subseteq FiniteSubsetsOf(Nat) /\ D # {}
  <2>1. \A x \in T : 1..x \in SUBSET Nat /\ IsFiniteSet(1..x)
    BY FS_Interval
  <2>2. \A x \in T : 1..x \in FiniteSubsetsOf(Nat)
    BY <2>1 DEF FiniteSubsetsOf
  <2> QED
    BY <2>2, ZenonT(30)
<1> HIDE DEF D
<1>2. PICK X \in D : \A Y \in D : ~(<<Y, X>> \in StrictSubsetOrdering(Nat))
  BY <1>1, FS_StrictSubsetOrderingWellFounded, WFMin
<1>3. PICK x \in T : X = 1..x
  BY <1>2 DEF D
<1>4. ASSUME NEW y \in T, y < x PROVE FALSE
  <2>1. 1..y \in D /\ 1..y \in SUBSET Nat /\ 1..x \in SUBSET Nat
    BY DEF D
  <2>2. 1..y \subseteq 1..x /\ x \in 1..x /\ x \notin 1..y
    BY <1>4
  <2>3. <<1..y, 1..x>> \in StrictSubsetOrdering(Nat)
    BY <2>1, <2>2 DEF StrictSubsetOrdering
  <2> QED
    BY <1>2, <1>3, <2>1, <2>3
<1> QED
  BY <1>3, <1>4

\* The loops of freeLease stop at the first free address they meet, so one
\* that comes to its end has met none.
LEMMA ScanFindsFirst ==
  ASSUME NEW lo \in Nat, NEW hi \in Nat, Scan(lo, hi) = {}, NEW i \in lo..hi-1
  PROVE  ~Free(i)
<1> SUFFICES ASSUME Free(i) PROVE FALSE
  OBVIOUS
<1> DEFINE T == {j \in lo..hi-1 : Free(j)}
<1>1. T \in SUBSET Nat /\ T # {}
  OBVIOUS
<1>2. PICK x \in T : \A y \in T : x <= y
  BY <1>1, Least, ZenonT(30)
<1>3. \A j \in lo..x-1 : ~Free(j)
  BY <1>2
<1>4. x \in Scan(lo, hi)
  BY <1>2, <1>3 DEF Scan
<1> QED
  BY <1>4

\* freeLease finds a free address whenever there is one, wherever rand.Intn
\* makes it start, for every size of the range and every state of the table.
THEOREM FreeLeaseComplete == Spec => []FreeLeaseFindsAny
<1>1. FreeLeaseFindsAny
  <2> SUFFICES ASSUME NEW b \in Addresses, FreeLease(b) = {}, NEW i \in Addresses
               PROVE  ~Free(i)
    BY DEF FreeLeaseFindsAny
  <2>1. Scan(b, LeaseRange) = {} /\ Scan(0, b) = {}
    BY DEF FreeLease
  <2>2. CASE i >= b
    <3>1. i \in b..LeaseRange-1 /\ b \in Nat /\ LeaseRange \in Nat
      BY <2>2, LeaseAssumption DEF Addresses
    <3> QED
      BY <2>1, <3>1, ScanFindsFirst, ZenonT(30)
  <2>3. CASE i < b
    <3>1. i \in 0..b-1 /\ b \in Nat
      BY <2>3 DEF Addresses
    <3> QED
      BY <2>1, <3>1, ScanFindsFirst
  <2> QED
    BY <2>2, <2>3 DEF Addresses
<1> QED
  BY <1>1, PTL

HIDE LeaseAssumption DEF Addresses, Asked, Unusable, Using, Waiting, Phases

(***************************************************************************)
(* The shutdown of a member.                                               *)
(***************************************************************************)
\* Places of the event loop after each of the closes of its stop.
Stopped == {"stopNode", "returned"}
Ended == {"sendError", "closeError"} \cup Stopped
Stopping == {"waitHTTP"} \cup Ended

\* A channel is closed exactly when the goroutine that closes it has come to a
\* place behind its close.
ClosesInv ==
  /\ closes \in [Channels -> {0, 1}]
  /\ Closed("httpstopc") <=> loop \in Stopping
  /\ Closed("httpdonec") <=> serveRaft = "done"
  /\ Closed("commitC") <=> loop \in Ended
  /\ Closed("errorC") <=> loop \in Stopped
  /\ Closed("confChangeC") <=> main \in {"closeProp", "returned"}
  /\ Closed("proposeC") <=> main = "returned"
  /\ Closed("stopc") <=> proposer = "ended"

\* The loop stops for a cause, and only then does the server end.
CauseInv ==
  /\ cause = "none" <=> loop \in {"select", "publish"}
  /\ loop = "sendError" => cause = "error"
  /\ serveRaft = "done" => loop \in Stopping

\* Once writeError has sent the error, main or the reader has it for good; main
\* goes to its end only behind the close of errorC.
ErrorInv ==
  /\ cause = "error" /\ loop \in {"closeError", "stopNode", "returned"} =>
       main = "fatal" \/ reader = "fatal"
  /\ main \in {"replay", "replayError"} => reader = "none"
  /\ main \in {"closeConf", "closeProp", "returned"} => loop \in Stopped
  /\ exit = "ok" => main = "returned"

ShutdownInv == ShutdownTypeOK /\ ClosesInv /\ CauseInv /\ ErrorInv

\* A close of a channel that is open.
LEMMA CloseOne ==
  ASSUME closes \in [Channels -> {0, 1}], NEW ch \in Channels, ~Closed(ch), Close(ch)
  PROVE  /\ closes' \in [Channels -> {0, 1}]
         /\ closes'[ch] = 1
         /\ \A x \in Channels \ {ch} : closes'[x] = closes[x]
<1>1. closes[ch] = 0
  BY DEF Closed
<1>2. closes' = [closes EXCEPT ![ch] = 1]
  BY <1>1 DEF Close
<1> QED
  BY <1>2

\* Every step keeps the types.
LEMMA TypePreserved == ShutdownTypeOK /\ [ShutdownNext]_shutdownVars => ShutdownTypeOK'
<1> SUFFICES ASSUME ShutdownTypeOK, [ShutdownNext]_shutdownVars PROVE ShutdownTypeOK'
  OBVIOUS
<1> USE DEF ShutdownTypeOK
<1>1. \A ch \in Channels : Close(ch) => closes' \in [Channels -> Nat]
  BY DEF Close
<1>2. CASE TakeReady \/ PublishNil \/ EndReady \/ PublishRemoval \/ TransportError \/ SendError \/ StopNode
  BY <1>2 DEF TakeReady, PublishNil, EndReady, PublishRemoval, TransportError, SendError, StopNode,
     AfterStop, readers, down, proposals
<1>3. CASE StopHTTP \/ CloseCommitC \/ CloseErrorC
  BY <1>1, <1>3 DEF StopHTTP, SignalStop, CloseCommitC, CloseErrorC, AfterCommitC, readers, proposals, Channels
<1>4. CASE Listen \/ AcceptStopped \/ AcceptFails \/ Served
  BY <1>1, <1>4 DEF Listen, AcceptStopped, AcceptFails, Served, Die, down, readers, proposals, Channels
<1>5. CASE RangeEnds \/ ReadCommitsReturns \/ LogFatal \/ ServeReturns \/ ListenAndServeFails
  BY <1>5 DEF RangeEnds, ReadCommitsReturns, LogFatal, ServeReturns, ListenAndServeFails, Die,
     down, readers, proposals
<1>6. CASE MainReturns
  BY <1>1, <1>6 DEF MainReturns, down, proposals, Channels
<1>7. ASSUME NEW c \in Callers, NEW ch \in RequestChannels, ServeHTTP(c) \/ SendPanics(c) \/ Receive(c, ch)
      PROVE  ShutdownTypeOK'
  BY <1>7 DEF ServeHTTP, SendPanics, Receive, down, readers
<1>8. ASSUME NEW c \in Callers, ServeHTTP(c) \/ SendPanics(c) PROVE ShutdownTypeOK'
  BY <1>8 DEF ServeHTTP, SendPanics, down, readers
<1>9. CASE Propose \/ ProposerEnds \/ LeaderChanges
  BY <1>1, <1>9, ZenonT(30) DEF Propose, ProposerEnds, LeaderChanges, down, readers, Channels
<1>10. CASE UNCHANGED shutdownVars
  BY <1>10 DEF shutdownVars, down, readers, proposals
<1> QED
  BY <1>2, <1>3, <1>4, <1>5, <1>6, <1>7, <1>8, <1>9, <1>10 DEF ShutdownNext

\* Every step keeps the closes where they belong.
LEMMA ClosesPreserved == ShutdownInv /\ [ShutdownNext]_shutdownVars => ClosesInv'
<1> SUFFICES ASSUME ShutdownInv, [ShutdownNext]_shutdownVars PROVE ClosesInv'
  OBVIOUS
<1> USE DEF ShutdownInv, ShutdownTypeOK, Stopped, Ended, Stopping
<1>1. closes \in [Channels -> {0, 1}] /\ Channels # {}
  BY DEF ClosesInv, Channels
<1>2. CASE /\ UNCHANGED <<closes, serveRaft, main, proposer>>
           /\ loop' \in Stopping <=> loop \in Stopping
           /\ loop' \in Ended <=> loop \in Ended
           /\ loop' \in Stopped <=> loop \in Stopped
  BY <1>2 DEF ClosesInv, Closed
<1>3. CASE TakeReady \/ EndReady \/ PublishRemoval \/ TransportError \/ StopNode
  BY <1>2, <1>3 DEF TakeReady, EndReady, PublishRemoval, TransportError, StopNode, AfterStop,
     readers, proposals
<1>4. CASE PublishNil \/ RangeEnds \/ ReadCommitsReturns
  BY <1>4 DEF PublishNil, RangeEnds, ReadCommitsReturns, ClosesInv, Closed, down, proposals
<1>5. CASE StopHTTP
  <2>1. ~Closed("httpstopc") /\ "httpstopc" \in Channels
    BY <1>5 DEF StopHTTP, ClosesInv, Channels
  <2>2. loop' = "waitHTTP" /\ UNCHANGED <<main, serveRaft, proposer>> /\ Close("httpstopc")
    BY <1>5 DEF StopHTTP, SignalStop, readers, proposals
  <2> QED
    BY <1>1, <1>5, <2>1, <2>2, CloseOne DEF StopHTTP, ClosesInv, Closed, Channels
<1>6. CASE CloseCommitC
  <2>1. ~Closed("commitC") /\ "commitC" \in Channels
    BY <1>6 DEF CloseCommitC, ClosesInv, Channels
  <2>2. loop' \in {"sendError", "closeError"} /\ UNCHANGED <<main, serveRaft, proposer>> /\ Close("commitC")
    BY <1>6 DEF CloseCommitC, AfterCommitC, readers, proposals
  <2> QED
    BY <1>1, <1>6, <2>1, <2>2, CloseOne DEF CloseCommitC, ClosesInv, Closed, Channels
<1>7. CASE SendError
  BY <1>7 DEF SendError, ClosesInv, Closed, proposals
<1>8. CASE CloseErrorC
  <2>1. ~Closed("errorC") /\ "errorC" \in Channels
    BY <1>8 DEF CloseErrorC, ClosesInv, Channels
  <2>2. loop' = "stopNode" /\ UNCHANGED <<main, serveRaft, proposer>> /\ Close("errorC")
    BY <1>8 DEF CloseErrorC, readers, proposals
  <2> QED
    BY <1>1, <1>8, <2>1, <2>2, CloseOne DEF CloseErrorC, ClosesInv, Closed, Channels
<1>9. CASE Listen \/ AcceptStopped \/ AcceptFails
  BY <1>9 DEF Listen, AcceptStopped, AcceptFails, ClosesInv, Closed, down, readers, proposals
<1>10. CASE Served
  <2>1. UNCHANGED <<loop, main, proposer>> /\ serveRaft = "returned"
    BY <1>10 DEF Served, down, readers, proposals
  <2>2. CASE Closed("httpstopc")
    <3>1. ~Closed("httpdonec") /\ "httpdonec" \in Channels
      BY <2>1 DEF ClosesInv, Channels
    <3>2. serveRaft' = "done" /\ Close("httpdonec")
      BY <1>10, <2>2 DEF Served
    <3> QED
      BY <1>1, <2>1, <3>1, <3>2, CloseOne DEF ClosesInv, Closed, Channels
  <2>3. CASE ~Closed("httpstopc")
    BY <1>10, <2>1, <2>3 DEF Served, ClosesInv, Closed
  <2> QED
    BY <2>2, <2>3
<1>11. CASE ServeReturns
  BY <1>11 DEF ServeReturns, ClosesInv, Closed, down, proposals
<1>12. CASE MainReturns
  <2>1. UNCHANGED <<loop, serveRaft, proposer>>
    BY <1>12 DEF MainReturns, down, proposals
  <2>2. CASE main = "closeConf"
    <3>1. ~Closed("confChangeC") /\ "confChangeC" \in Channels
      BY <2>2 DEF ClosesInv, Channels
    <3>2. main' = "closeProp" /\ Close("confChangeC")
      BY <1>12, <2>2 DEF MainReturns
    <3> QED
      BY <1>1, <2>1, <2>2, <3>1, <3>2, CloseOne DEF ClosesInv, Closed, Channels
  <2>3. CASE main = "closeProp"
    <3>1. ~Closed("proposeC") /\ "proposeC" \in Channels
      BY <2>3 DEF ClosesInv, Channels
    <3>2. main' = "returned" /\ Close("proposeC")
      BY <1>12, <2>3 DEF MainReturns
    <3> QED
      BY <1>1, <2>1, <2>3, <3>1, <3>2, CloseOne DEF ClosesInv, Closed, Channels
  <2>4. CASE main = "returned"
    BY <1>12, <2>1, <2>4 DEF MainReturns, ClosesInv, Closed
  <2> QED
    BY <1>12, <2>2, <2>3, <2>4 DEF MainReturns
<1>13. CASE \/ \E c \in Callers : ServeHTTP(c) \/ SendPanics(c)
            \/ LogFatal \/ ListenAndServeFails \/ LeaderChanges \/ UNCHANGED shutdownVars
  BY <1>2, <1>13 DEF ServeHTTP, SendPanics, LogFatal, ListenAndServeFails, LeaderChanges, shutdownVars,
     down, readers, proposals
<1>14. CASE Propose \/ \E c \in Callers, ch \in RequestChannels : Receive(c, ch)
  BY <1>14 DEF Propose, Receive, ClosesInv, Closed, down, readers
<1>15. CASE ProposerEnds
  <2>1. ~Closed("stopc") /\ "stopc" \in Channels
    BY <1>15 DEF ProposerEnds, ClosesInv, Channels
  <2>2. proposer' = "ended" /\ UNCHANGED <<loop, main, serveRaft>> /\ Close("stopc")
    BY <1>15 DEF ProposerEnds, down, readers
  <2> QED
    BY <1>1, <2>1, <2>2, CloseOne DEF ClosesInv, Closed, Channels
<1> QED
  BY <1>3, <1>4, <1>5, <1>6, <1>7, <1>8, <1>9, <1>10, <1>11, <1>12, <1>13, <1>14, <1>15 DEF ShutdownNext

\* Every step keeps the cause with the stop.
LEMMA CausePreserved == ShutdownInv /\ [ShutdownNext]_shutdownVars => CauseInv'
<1> SUFFICES ASSUME ShutdownInv, [ShutdownNext]_shutdownVars PROVE CauseInv'
  OBVIOUS
<1> USE DEF ShutdownInv, ShutdownTypeOK, CauseInv, Stopped, Ended, Stopping
<1>1. CASE TakeReady \/ EndReady \/ PublishRemoval \/ TransportError \/ StopHTTP \/ SendError
           \/ CloseErrorC \/ StopNode
  BY <1>1 DEF TakeReady, EndReady, PublishRemoval, TransportError, StopHTTP, SendError, CloseErrorC,
     StopNode, AfterStop
<1>2. CASE CloseCommitC
  BY <1>2 DEF CloseCommitC, AfterCommitC
<1>3. CASE Listen \/ AcceptStopped \/ AcceptFails
  BY <1>3 DEF Listen, AcceptStopped, AcceptFails, down
<1>4. CASE Served
  <2>1. UNCHANGED <<loop, cause>>
    BY <1>4 DEF Served, down
  <2>2. serveRaft' = serveRaft \/ loop \in Stopping
    BY <1>4 DEF Served, ClosesInv
  <2> QED
    BY <2>1, <2>2
<1>5. CASE UNCHANGED <<loop, cause, serveRaft>>
  BY <1>5
<1>6. CASE PublishNil \/ RangeEnds \/ ReadCommitsReturns \/ LogFatal \/ ServeReturns \/ MainReturns
           \/ ListenAndServeFails \/ Propose \/ ProposerEnds \/ LeaderChanges
  BY <1>5, <1>6 DEF PublishNil, RangeEnds, ReadCommitsReturns, LogFatal, ServeReturns, MainReturns,
     ListenAndServeFails, Propose, ProposerEnds, LeaderChanges, down
<1>7. CASE \/ \E c \in Callers : ServeHTTP(c) \/ SendPanics(c)
           \/ \E c \in Callers, ch \in RequestChannels : Receive(c, ch)
           \/ UNCHANGED shutdownVars
  BY <1>5, <1>7 DEF ServeHTTP, SendPanics, Receive, shutdownVars, down
<1> QED
  BY <1>1, <1>2, <1>3, <1>4, <1>6, <1>7 DEF ShutdownNext

\* Every step keeps the error with the one who has it.
LEMMA ErrorPreserved == ShutdownInv /\ [ShutdownNext]_shutdownVars => ErrorInv'
<1> SUFFICES ASSUME ShutdownInv, [ShutdownNext]_shutdownVars PROVE ErrorInv'
  OBVIOUS
<1> USE DEF ShutdownInv, ShutdownTypeOK, ErrorInv, Stopped
<1>1. CASE TakeReady \/ PublishNil \/ EndReady \/ PublishRemoval \/ TransportError
           \/ StopHTTP \/ CloseErrorC \/ StopNode
  BY <1>1 DEF TakeReady, PublishNil, EndReady, PublishRemoval, TransportError, StopHTTP, CloseErrorC,
     StopNode, AfterStop, down, readers
<1>2. CASE CloseCommitC
  BY <1>2 DEF CloseCommitC, AfterCommitC, readers
<1>3. CASE SendError
  BY <1>3 DEF SendError
<1>4. CASE UNCHANGED <<loop, cause, main, reader, exit>>
  BY <1>4
<1>5. CASE Listen \/ AcceptStopped \/ AcceptFails \/ Served \/ LogFatal \/ ListenAndServeFails
  BY <1>5 DEF Listen, AcceptStopped, AcceptFails, Served, LogFatal, ListenAndServeFails, Die, down, readers
<1>6. CASE RangeEnds
  BY <1>6 DEF RangeEnds, down
<1>7. CASE ReadCommitsReturns
  BY <1>7 DEF ReadCommitsReturns, down
<1>8. CASE ServeReturns
  BY <1>8 DEF ServeReturns, ClosesInv, down
<1>9. CASE MainReturns
  BY <1>9 DEF MainReturns, down
<1>10. CASE Propose \/ ProposerEnds \/ LeaderChanges \/ UNCHANGED shutdownVars
            \/ (\E c \in Callers : ServeHTTP(c) \/ SendPanics(c))
            \/ (\E c \in Callers, ch \in RequestChannels : Receive(c, ch))
  BY <1>4, <1>10 DEF Propose, ProposerEnds, LeaderChanges, ServeHTTP, SendPanics, Receive, shutdownVars, down, readers
<1> QED
  BY <1>1, <1>2, <1>3, <1>5, <1>6, <1>7, <1>8, <1>9, <1>10 DEF ShutdownNext

\* The invariant holds of every member, however its goroutines interleave.
THEOREM ShutdownInvariance == ShutdownSpec => []ShutdownInv
<1>1. ShutdownInit => ShutdownInv
  <2> SUFFICES ASSUME ShutdownInit PROVE ShutdownInv
    OBVIOUS
  <2>1. \A ch \in Channels : closes[ch] = 0 /\ ~Closed(ch)
    BY DEF ShutdownInit, Closed
  <2>2. ShutdownTypeOK
    BY DEF ShutdownInit, ShutdownTypeOK
  <2>3. ClosesInv
    BY <2>1 DEF ShutdownInit, ClosesInv, Channels, Stopped, Ended, Stopping
  <2> QED
    BY <2>2, <2>3 DEF ShutdownInit, ShutdownInv, CauseInv, ErrorInv
<1>2. ShutdownInv /\ [ShutdownNext]_shutdownVars => ShutdownInv'
  BY TypePreserved, ClosesPreserved, CausePreserved, ErrorPreserved DEF ShutdownInv
<1> QED
  BY <1>1, <1>2, PTL DEF ShutdownSpec

\* stop, writeError, serveRaft, the proposer and main never close a channel
\* that is closed.
THEOREM NoSecondClose == ShutdownSpec => []ClosedOnce
<1>1. ShutdownInv => ClosedOnce
  BY DEF ShutdownInv, ClosesInv, ClosedOnce
<1> QED
  BY <1>1, ShutdownInvariance, PTL

\* serveRaft ends in order only for a loop that stops.
THEOREM PeersAreServed == ShutdownSpec => []PeersServed
<1>1. ShutdownInv => PeersServed
  BY DEF ShutdownInv, CauseInv, PeersServed, Stopping, Ended, Stopped
<1> QED
  BY <1>1, ShutdownInvariance, PTL

\* A process that ends with status 0 after an error of the transport has a
\* reader that is about to end it with that error.
THEOREM ErrorIsHeld == ShutdownSpec => []ErrorIsSeen
<1>1. ShutdownInv => ErrorIsSeen
  BY DEF ShutdownInv, ErrorInv, ErrorIsSeen, Stopped
<1> QED
  BY <1>1, ShutdownInvariance, PTL
=============================================================================
