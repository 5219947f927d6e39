--------------------------- MODULE DiscoveryProofs ---------------------------
(***************************************************************************)
(* Theorems about Discovery, for any devices, networks and payloads.       *)
(***************************************************************************)
EXTENDS Discovery, FiniteSetTheorems, TLAPS

Fingerprint(d) == Payload[d].fingerprint

\* d and e take one another for somebody else.
Strange(d, e) == Fingerprint(d) # Fingerprint(e)

-----------------------------------------------------------------------------
(* Who can come to know whom.                                              *)

\* The listener and the server make the same peer of the same device.
LEMMA BothHearTheSame == \A d : RegisteredPeer(d) = HeardPeer(d)
BY DEF RegisteredPeer, HeardPeer

\* The peer stands for a device that is a stranger to d, or for d itself if its
\* own answer to a run that had its address before came back.
Known(d, p) ==
  \E e \in Devices : /\ p = HeardPeer(e)
                     /\ Strange(e, d) \/ RunsAt(Home(d)) # {d}

\* A request goes only to the address of a stranger.
PeersInv ==
  /\ air \subseteq Devices \X Devices
  /\ posts \subseteq {hop \in Devices \X Devices : Strange(hop[1], hop[2])}
  /\ found \in [Devices -> SUBSET {HeardPeer(e) : e \in Devices}]
  /\ \A d \in Devices : \A p \in found[d] : Known(d, p)

NetworkInv == network \subseteq Devices \X Devices /\ serving \subseteq Devices

LEMMA PeersInit == Init => PeersInv /\ NetworkInv
BY DiscoveryAssumption DEF Init, PeersInv, NetworkInv

\* A device that e comes to know, by a datagram or a request.
LEMMA PeerAdded ==
  ASSUME PeersInv, NEW d \in Devices, NEW e \in Devices,
         Strange(d, e) \/ RunsAt(Home(e)) # {e},
         found' = [found EXCEPT ![e] = @ \cup {HeardPeer(d)}]
  PROVE  /\ found' \in [Devices -> SUBSET {HeardPeer(x) : x \in Devices}]
         /\ \A x \in Devices : \A p \in found'[x] : Known(x, p)
<1>1. \A x \in Devices :
        found'[x] = IF x = e THEN found[x] \cup {HeardPeer(d)} ELSE found[x]
  BY DEF PeersInv
<1>2. found' \in [Devices -> SUBSET {HeardPeer(x) : x \in Devices}]
  BY DEF PeersInv
<1>3. ASSUME NEW x \in Devices, NEW p \in found'[x]
      PROVE  Known(x, p)
  <2>1. CASE p \in found[x]
    BY <2>1 DEF PeersInv
  <2>2. CASE x = e /\ p = HeardPeer(d)
    BY <2>2 DEF Known
  <2> QED
    BY <1>1, <1>3, <2>1, <2>2
<1> QED
  BY <1>2, <1>3

\* A request to the address of e finds e there or another run.
LEMMA AnswerArrives ==
  ASSUME NEW d \in Devices, NEW e \in Devices, Strange(d, e),
         NEW f \in Devices, Home(f) = Home(e)
  PROVE  Strange(d, f) \/ RunsAt(Home(f)) # {f}
<1>1. e \in RunsAt(Home(f))
  BY DEF RunsAt
<1>2. e = f => Strange(d, f)
  OBVIOUS
<1> QED
  BY <1>1, <1>2

LEMMA PeersStep ==
  PeersInv /\ NetworkInv /\ [Next]_vars => PeersInv' /\ NetworkInv'
<1> SUFFICES ASSUME PeersInv, NetworkInv, [Next]_vars
             PROVE  PeersInv' /\ NetworkInv'
  OBVIOUS
<1>1. NetworkInv'
  BY DEF Next, Start, Stop, LoseServer, Announce, Scan, Hear, Lose, Register, Refuse,
         Announced, lifeVars, vars, NetworkInv
<1>2. ASSUME air' \subseteq air, posts' \subseteq posts, UNCHANGED found
      PROVE  PeersInv'
  <2>1. air' \subseteq Devices \X Devices
    BY <1>2 DEF PeersInv
  <2>2. posts' \subseteq {hop \in Devices \X Devices : Strange(hop[1], hop[2])}
    BY <1>2 DEF PeersInv
  <2>3. /\ found' \in [Devices -> SUBSET {HeardPeer(e) : e \in Devices}]
        /\ \A d \in Devices : \A p \in found'[d] : Known(d, p)
    BY <1>2 DEF PeersInv
  <2> QED
    BY <2>1, <2>2, <2>3 DEF PeersInv
<1>3. ASSUME NEW d \in Devices, Announced(d), UNCHANGED <<posts, found>>
      PROVE  PeersInv'
  BY <1>3 DEF Announced, PeersInv, NetworkInv
<1>4. ASSUME NEW d \in Devices, NEW e \in Devices, Hear(d, e)
      PROVE  PeersInv'
  <2>1. air' \subseteq air
    BY <1>4 DEF Hear
  <2>2. CASE Ours(d, e)
    BY <1>2, <1>4, <2>1, <2>2 DEF Hear
  <2>3. CASE ~Ours(d, e)
    <3>1. Strange(d, e) /\ Strange(e, d)
      BY <2>3 DEF Ours, Strange, Fingerprint
    <3>2. posts' \subseteq posts \cup {<<e, d>>}
          /\ found' = [found EXCEPT ![e] = @ \cup {HeardPeer(d)}]
      BY <1>4, <2>3 DEF Hear, Answer
    <3>3. posts' \subseteq {hop \in Devices \X Devices : Strange(hop[1], hop[2])}
      BY <3>1, <3>2 DEF PeersInv
    <3> QED
      BY <2>1, <3>1, <3>2, <3>3, PeerAdded DEF PeersInv
  <2> QED
    BY <2>2, <2>3
<1>5. ASSUME NEW d \in Devices, NEW e \in Devices, Register(d, e)
      PROVE  PeersInv'
  <2>1. Strange(d, e)
    BY <1>5 DEF Register, PeersInv
  <2>2. posts' \subseteq posts /\ UNCHANGED air
    BY <1>5 DEF Register
  <2>3. PICK f \in serving :
          /\ Home(f) = Home(e)
          /\ found' = [found EXCEPT ![f] = @ \cup {HeardPeer(d)}]
    BY <1>5, BothHearTheSame DEF Register
  <2>4. f \in Devices /\ (Strange(d, f) \/ RunsAt(Home(f)) # {f})
    BY <2>1, <2>3, AnswerArrives DEF NetworkInv
  <2> QED
    BY <2>2, <2>3, <2>4, PeerAdded DEF PeersInv
<1>6. ASSUME NEW d \in Devices, Announce(d) \/ Scan(d) PROVE PeersInv'
  BY <1>3, <1>6 DEF Announce, Scan
<1> QED
  BY <1>1, <1>2, <1>4, <1>5, <1>6
     DEF Next, Start, Stop, LoseServer, Lose, Refuse, vars

-----------------------------------------------------------------------------
(* One peer for each device.                                               *)

LEMMA HeardPeerIs ==
  ASSUME NEW d \in Devices
  PROVE  /\ Address(HeardPeer(d).ip, HeardPeer(d).port) = Home(d)
         /\ HeardPeer(d).fingerprint =
              IF Fingerprint(d) = Absent THEN Home(d) ELSE Fingerprint(d)
BY DEF HeardPeer, Address, Home, Default, Fingerprint

\* One key leads to one address.
LEMMA KeyLeadsHome ==
  ASSUME NEW d \in Devices, NEW e \in Devices,
         HeardPeer(d).fingerprint = HeardPeer(e).fingerprint
  PROVE  Home(d) = Home(e)
<1> USE DEF Fingerprint
<1>1. CASE Fingerprint(d) = Absent /\ Fingerprint(e) = Absent
  BY <1>1, HeardPeerIs
<1>2. CASE Fingerprint(d) # Absent /\ Fingerprint(e) # Absent
  BY <1>2, HeardPeerIs, IdentityAssumption
<1>3. CASE Fingerprint(d) = Absent /\ Fingerprint(e) # Absent
  BY <1>3, HeardPeerIs, IdentityAssumption
<1>4. CASE Fingerprint(d) # Absent /\ Fingerprint(e) = Absent
  BY <1>4, HeardPeerIs, IdentityAssumption
<1> QED
  BY <1>1, <1>2, <1>3, <1>4

\* Every peer at an address stands for a run there, no two for the same.
LEMMA PeersAreRuns ==
  ASSUME PeersInv, NEW d \in Devices, NEW address
  PROVE  Cardinality(PeersAt(d, address)) <= Cardinality(RunsAt(address))
<1> DEFINE P == PeersAt(d, address)
           R == RunsAt(address)
           run == [p \in P |-> CHOOSE e \in R : p = HeardPeer(e)]
<1>1. ASSUME NEW p \in P PROVE \E e \in R : p = HeardPeer(e)
  <2>1. PICK e \in Devices : p = HeardPeer(e)
    BY DEF PeersAt, PeersInv, Known
  <2>2. Home(e) = address
    BY <2>1, HeardPeerIs DEF PeersAt
  <2> QED
    BY <2>1, <2>2 DEF RunsAt
<1> HIDE DEF P, R
<1>2. \A p \in P : run[p] \in R /\ p = HeardPeer(run[p])
  BY <1>1
<1>3. run \in Injection(P, R)
  <2>1. run \in [P -> R]
    BY <1>2
  <2> HIDE DEF run
  <2>2. \A p, q \in P : run[p] = run[q] => p = q
    BY <1>2
  <2> QED
    BY <2>1, <2>2 DEF Injection, IsInjective
<1>4. IsFiniteSet(R)
  BY DiscoveryAssumption, FS_Subset DEF R, RunsAt
<1> HIDE DEF run
<1>5. Cardinality(P) <= Cardinality(R)
  BY <1>3, <1>4, FS_Injection
<1> QED
  BY <1>5 DEF P, R

\* A run is one peer, whichever handler hears of it, how often and in what
\* order, whatever fields it leaves out and whoever had its address before; and
\* nobody is its own peer, unless it took over an address.
THEOREM EachIsOnePeer == Spec => []OnePeerEach
<1>1. PeersInv => OnePeerEach
  <2> SUFFICES ASSUME PeersInv, NEW d \in Devices
               PROVE  /\ \A p, q \in found[d] :
                           p.fingerprint = q.fingerprint
                             => p.ip = q.ip /\ p.port = q.port
                      /\ \A p \in found[d] :
                           Cardinality(PeersAt(d, Address(p.ip, p.port)))
                             <= Cardinality(RunsAt(Address(p.ip, p.port)))
                      /\ RunsAt(Home(d)) = {d} =>
                           \A p \in found[d] :
                             p.fingerprint # Payload[d].fingerprint
    BY Zenon DEF OnePeerEach
  <2>1. ASSUME NEW p \in found[d], NEW q \in found[d],
               p.fingerprint = q.fingerprint
        PROVE  p.ip = q.ip /\ p.port = q.port
    <3>1. PICK e \in Devices : p = HeardPeer(e)
      BY DEF PeersInv, Known
    <3>2. PICK f \in Devices : q = HeardPeer(f)
      BY DEF PeersInv, Known
    <3>3. Address(p.ip, p.port) = Address(q.ip, q.port)
      BY <2>1, <3>1, <3>2, HeardPeerIs, KeyLeadsHome
    <3> QED
      BY <3>3 DEF Address
  <2>2. \A p \in found[d] :
          Cardinality(PeersAt(d, Address(p.ip, p.port)))
            <= Cardinality(RunsAt(Address(p.ip, p.port)))
    BY PeersAreRuns
  <2>3. ASSUME NEW p \in found[d], RunsAt(Home(d)) = {d}
        PROVE  p.fingerprint # Payload[d].fingerprint
    <3>1. PICK e \in Devices : p = HeardPeer(e) /\ Strange(e, d)
      BY <2>3 DEF PeersInv, Known
    <3> QED
      BY <3>1, HeardPeerIs, IdentityAssumption DEF Strange, Fingerprint
  <2> QED
    BY <2>1, <2>2, <2>3
<1> QED
  BY <1>1, PeersInit, PeersStep, PTL DEF Spec
=============================================================================
