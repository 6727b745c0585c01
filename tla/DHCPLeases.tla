----------------------------- MODULE DHCPLeases -----------------------------
(***************************************************************************)
(* The lease table of opendhcpd and the clients it serves over a network   *)
(* that delays, reorders and loses messages.  ServeDHCP handles one packet *)
(* at a time; a client accepts a reply only to its latest request (xid).   *)
(* An address is its distance from Handler.start.                          *)
(***************************************************************************)
EXTENDS Integers

CONSTANTS
  Clients,         \* hardware addresses
  NoNic,           \* an absent entry of Handler.leases
  LeaseRange,      \* Handler.leaseRange
  LeaseDuration,   \* Handler.leaseDuration, in ticks
  MaxTime,         \* bound on the clock
  MaxXid           \* bound on the requests of a client

ASSUME LeaseAssumption ==
  /\ NoNic \notin Clients
  /\ LeaseRange \in Nat \ {0}
  /\ LeaseDuration \in Nat \ {0}
  /\ MaxTime \in Nat
  /\ MaxXid \in Nat

Addresses == 0..LeaseRange-1

\* What a client may ask for: an address of the range, the one above it, or
\* nothing usable (no address, 0.0.0.0, not four bytes, below the range).
Unusable == -1
Asked == {Unusable} \cup 0..LeaseRange

VARIABLES
  now,        \* time.Now()
  nic,        \* leases[i].nic, NoNic when i is not in the map
  expiry,     \* leases[i].expiry
  phase,      \* what a client is doing
  addr,       \* the address a client was offered, asks for or uses
  xid,        \* the latest transaction of a client
  requests, acks, naks    \* messages on their way; a lost one stays there

server == <<nic, expiry>>
client == <<phase, addr, xid>>
vars == <<now, server, client, requests, acks, naks>>

Request(c, i, x, forUs) == [nic |-> c, addr |-> i, xid |-> x, forUs |-> forUs]
Reply(c, i, x) == [nic |-> c, addr |-> i, xid |-> x]

Requests == [nic: Clients, addr: Asked, xid: 0..MaxXid, forUs: BOOLEAN]
Replies == [nic: Clients, addr: Asked, xid: 0..MaxXid]

Init ==
  /\ now = 0
  /\ nic = [i \in Addresses |-> NoNic] /\ expiry = [i \in Addresses |-> 0]
  /\ phase = [c \in Clients |-> "init"] /\ addr = [c \in Clients |-> Unusable]
  /\ xid = [c \in Clients |-> 0]
  /\ requests = {} /\ acks = {} /\ naks = {}

-----------------------------------------------------------------------------
(* The server.                                                             *)

\* What freeLease takes for free: no entry, or an expired one.
Free(i) == nic[i] = NoNic \/ expiry[i] < now

\* The first free address from lo up to hi, if there is one.
Scan(lo, hi) == {i \in lo..hi-1 : Free(i) /\ \A j \in lo..i-1 : ~Free(j)}

\* Mutant: the addresses before the random start are not tried.
FreeLease_NoWrap(b) == Scan(b, LeaseRange)

\* freeLease, with b the result of rand.Intn.
FreeLease(b) == IF Scan(b, LeaseRange) # {} THEN Scan(b, LeaseRange) ELSE Scan(0, b)

\* A Discover is answered with an earlier lease of the client, whichever the
\* map yields first, or else with a free address.
Offers(c) ==
  LET previous == {i \in Addresses : nic[i] = c}
  IN IF previous # {} THEN previous ELSE UNION {FreeLease(b) : b \in Addresses}

\* Mutant: the owner of an entry that has expired is not looked at.
MayLease_Expired(i, c) == nic[i] \in {NoNic, c} \/ expiry[i] < now

\* A Request is granted for an address without entry, or with the client's.
MayLease(i, c) == nic[i] \in {NoNic, c}

InRange(i) == i \in Addresses

NewExpiry == now + LeaseDuration

\* ServeDHCP, Request.
HandleRequest(m) ==
  /\ m \in requests
  /\ requests' = requests \ {m}
  /\ IF ~m.forUs
     THEN UNCHANGED <<server, acks, naks>>
     ELSE IF InRange(m.addr) /\ MayLease(m.addr, m.nic)
     THEN /\ nic' = [nic EXCEPT ![m.addr] = m.nic]
          /\ expiry' = [expiry EXCEPT ![m.addr] = NewExpiry]
          /\ acks' = acks \cup {Reply(m.nic, m.addr, m.xid)}
          /\ UNCHANGED naks
     ELSE /\ naks' = naks \cup {Reply(m.nic, m.addr, m.xid)}
          /\ UNCHANGED <<server, acks>>
  /\ UNCHANGED <<now, client>>

\* Mutant: any entry may go.
Released_Any(c) == {i \in Addresses : nic[i] # NoNic}

\* The entries a Release or Decline may delete: the first one of the client
\* that the map yields.
Released(c) == {i \in Addresses : nic[i] = c}

\* ServeDHCP, Release and Decline.  The client starts anew once its message
\* has arrived.
HandleRelease(c) ==
  /\ phase[c] = "releasing"
  /\ \/ \E i \in Released(c) : nic' = [nic EXCEPT ![i] = NoNic]
     \/ Released(c) = {} /\ UNCHANGED nic
  /\ phase' = [phase EXCEPT ![c] = "init"]
  /\ UNCHANGED <<now, expiry, addr, xid, requests, acks, naks>>

-----------------------------------------------------------------------------
(* The clients and the network.                                            *)

Using == {"bound", "renewing"}
Waiting == {"requesting", "renewing"}
Phases == {"init", "selecting", "releasing"} \cup Using \cup Waiting

Tick == now < MaxTime /\ now' = now + 1 /\ UNCHANGED <<server, client, requests, acks, naks>>

\* ServeDHCP, Discover, and its offer at the client.
Discover(c) ==
  /\ phase[c] = "init"
  /\ \E i \in Offers(c) : addr' = [addr EXCEPT ![c] = i]
  /\ phase' = [phase EXCEPT ![c] = "selecting"]
  /\ UNCHANGED <<now, server, xid, requests, acks, naks>>

Send(c, i, forUs) ==
  /\ xid[c] < MaxXid
  /\ xid' = [xid EXCEPT ![c] = xid[c] + 1]
  /\ requests' = requests \cup {Request(c, i, xid[c] + 1, forUs)}
  /\ UNCHANGED <<now, server, acks, naks>>

\* The client asks for what it was offered, or asks again.
AskOffered(c) ==
  /\ phase[c] \in {"selecting", "requesting"}
  /\ Send(c, addr[c], TRUE)
  /\ phase' = [phase EXCEPT ![c] = "requesting"]
  /\ UNCHANGED addr

\* A client that reboots asks for an address it remembers.
AskRemembered(c, i) ==
  /\ phase[c] = "init"
  /\ Send(c, i, TRUE)
  /\ phase' = [phase EXCEPT ![c] = "requesting"]
  /\ addr' = [addr EXCEPT ![c] = i]

\* The client takes the offer of another server, named in its request.
AskOtherServer(c) ==
  /\ phase[c] = "selecting"
  /\ Send(c, addr[c], FALSE)
  /\ phase' = [phase EXCEPT ![c] = "init"]
  /\ UNCHANGED addr

Renew(c) ==
  /\ phase[c] \in Using
  /\ Send(c, addr[c], TRUE)
  /\ phase' = [phase EXCEPT ![c] = "renewing"]
  /\ UNCHANGED addr

\* A reply to the client's latest request.
Current(r) == r.xid = xid[r.nic] /\ phase[r.nic] \in Waiting

AcceptAck(a) ==
  /\ a \in acks /\ Current(a)
  /\ phase' = [phase EXCEPT ![a.nic] = "bound"]
  /\ acks' = acks \ {a}
  /\ UNCHANGED <<now, server, addr, xid, requests, naks>>

AcceptNak(n) ==
  /\ n \in naks /\ Current(n)
  /\ phase' = [phase EXCEPT ![n.nic] = "init"]
  /\ naks' = naks \ {n}
  /\ UNCHANGED <<now, server, addr, xid, requests, acks>>

\* The client gives up, is switched off, or its lease runs out.
Leave(c) ==
  /\ phase[c] \in {"selecting"} \cup Using \cup Waiting
  /\ phase' = [phase EXCEPT ![c] = "init"]
  /\ UNCHANGED <<now, server, addr, xid, requests, acks, naks>>

\* DHCPRELEASE, or DHCPDECLINE when the address is found in use.
SendRelease(c) ==
  /\ phase[c] \in Using
  /\ phase' = [phase EXCEPT ![c] = "releasing"]
  /\ UNCHANGED <<now, server, addr, xid, requests, acks, naks>>

LoseRelease(c) ==
  /\ phase[c] = "releasing"
  /\ phase' = [phase EXCEPT ![c] = "init"]
  /\ UNCHANGED <<now, server, addr, xid, requests, acks, naks>>

Next ==
  \/ Tick
  \/ \E c \in Clients :
       \/ Discover(c) \/ AskOffered(c) \/ AskOtherServer(c) \/ Renew(c)
       \/ \E i \in Asked : AskRemembered(c, i)
       \/ Leave(c) \/ SendRelease(c) \/ HandleRelease(c) \/ LoseRelease(c)
  \/ \E m \in requests : HandleRequest(m)
  \/ \E a \in acks : AcceptAck(a)
  \/ \E n \in naks : AcceptNak(n)

Spec == Init /\ [][Next]_vars

-----------------------------------------------------------------------------
(* Properties.                                                             *)

TypeOK ==
  /\ now \in 0..MaxTime
  /\ nic \in [Addresses -> Clients \cup {NoNic}]
  /\ expiry \in [Addresses -> 0..MaxTime+LeaseDuration]
  /\ phase \in [Clients -> Phases] /\ addr \in [Clients -> Asked]
  /\ xid \in [Clients -> 0..MaxXid]
  /\ requests \subseteq Requests /\ acks \subseteq Replies /\ naks \subseteq Replies

\* No two clients use one address, whatever is delayed, lost or asked twice,
\* and however late an expired lease is used: ServeDHCP gives an entry away
\* only when its owner has released it.
AddressUnique ==
  \A c, d \in Clients : phase[c] \in Using /\ phase[d] \in Using /\ addr[c] = addr[d] => c = d

\* A client that renews the address it uses is never sent a NAK.
RenewalHonoured ==
  \A n \in naks : Current(n) => phase[n.nic] # "renewing"

\* freeLease finds a free address whenever there is one, wherever its search
\* starts: a Discover goes unanswered only when every address is leased.
FreeLeaseFindsAny ==
  \A b \in Addresses : FreeLease(b) = {} => \A i \in Addresses : ~Free(i)

\* "When the lease expires": an address of the range is refused only while
\* the lease of another client on it lasts.
NakOnlyWhileLeased ==
  [][\A n \in naks' \ naks : InRange(n.addr) => expiry[n.addr] >= now]_vars

\* "Deleted the lease %s": the lease that a Release names is the one deleted.
ReleaseDeletesNamed ==
  [][\A c \in Clients : HandleRelease(c) => nic'[addr[c]] # c]_vars
=============================================================================
