----------------------------- MODULE Discovery ------------------------------
(***************************************************************************)
(* How devices find one another (src/src/localsend/discovery.rs, with      *)
(* handle_register of server.rs and trigger_scan of share.rs).  A device   *)
(* announces itself in UDP datagrams that may be lost, repeated, overtaken *)
(* and heard by itself; who hears an announcement answers by an HTTPS      *)
(* request to the announcer's server.                                      *)
(*                                                                         *)
(* A device is one run of a program: it draws its certificate, and with it *)
(* its fingerprint, when it starts.  A program that is started again at    *)
(* its old address is another device there.  Devices that are no monosend  *)
(* are external; they follow the same protocol and may leave fields out.   *)
(***************************************************************************)
EXTENDS Naturals, FiniteSets

CONSTANTS
  Devices,
  Pickers,      \* the devices that run `monosend share`
  Payload,      \* Payload[d]: the fields of its RegisterDto, some absent;
                \* and whether its datagrams ask for an answer
  Ip,           \* Ip[d]: the address its packets come from
  Networks,     \* each a set of pairs <<d, e>>: datagrams of d reach e
  DefaultPort,  \* LOCALSEND_DEFAULT_PORT
  Absent        \* a field left out, or empty

ASSUME DiscoveryAssumption ==
  /\ IsFiniteSet(Devices)
  /\ Pickers \subseteq Devices
  /\ Networks \subseteq SUBSET (Devices \X Devices)

VARIABLES
  network,    \* the network they are in
  running,    \* devices that run
  listening,  \* those whose DiscoveryEngine::start got its UDP socket
  serving,    \* those whose server got its port
  over,       \* devices that have stopped
  air,        \* datagrams on their way, as <<from, to>>
  posts,      \* register requests on their way, as <<from, to>>: to whoever
              \* has the address of `to` by then
  found       \* found[d]: PeerDiscovered events that d has sent itself

vars == <<network, running, listening, serving, over, air, posts, found>>

lifeVars == <<network, running, listening, serving, over>>

Init ==
  /\ network \in Networks
  /\ running = {} /\ listening = {} /\ serving = {} /\ over = {}
  /\ air = {} /\ posts = {}
  /\ found = [d \in Devices |-> {}]

-----------------------------------------------------------------------------
(* What a message tells of its sender.                                     *)

\* A field with its default; an address and a port in the place of a key.
Default(value, other) == IF value = Absent THEN other ELSE value
Address(ip, port)     == [ip |-> ip, port |-> port]

\* The peer that the UDP listener makes of a datagram, and handle_register of
\* a request: two pieces of code for the same fields.
HeardPeer(d) ==
  LET port == Default(Payload[d].port, DefaultPort)
  IN [ip          |-> Ip[d],
      port        |-> port,
      alias       |-> Default(Payload[d].alias, Ip[d]),
      fingerprint |-> Default(Payload[d].fingerprint, Address(Ip[d], port))]

\* Variant: without a fingerprint the request's alias is the key.
RegisteredByAlias(d) ==
  [ip          |-> Ip[d],
   port        |-> Default(Payload[d].port, DefaultPort),
   alias       |-> Default(Payload[d].alias, Ip[d]),
   fingerprint |-> Default(Payload[d].fingerprint, Payload[d].alias)]

RegisteredPeer(d) ==
  LET port == Default(Payload[d].port, DefaultPort)
  IN [ip          |-> Ip[d],
      port        |-> port,
      alias       |-> Default(Payload[d].alias, Ip[d]),
      fingerprint |-> Default(Payload[d].fingerprint, Address(Ip[d], port))]

\* Where a device takes requests, as far as the others can tell.
Home(d) == Address(Ip[d], Default(Payload[d].port, DefaultPort))

\* Fingerprints are hashes of certificates drawn anew for every run.
ASSUME IdentityAssumption ==
  \A d, e \in Devices :
    /\ Payload[d].fingerprint # Home(e)
    /\ d # e /\ Payload[d].fingerprint # Absent =>
         Payload[d].fingerprint # Payload[e].fingerprint

-----------------------------------------------------------------------------
\* A port is taken while somebody serves there; the UDP port is shared.
Taken(d) == \E e \in serving : Home(e) = Home(d)

\* A device starts.  In the picker either service may fail and the rest goes
\* on (its port may be taken since available_port looked); anywhere else the
\* failure is the end of the process.
Start(d, listens, serves) ==
  /\ d \notin running \cup over
  /\ d \in Pickers \/ (listens /\ serves)
  /\ serves => ~Taken(d)
  /\ running'   = running \cup {d}
  /\ listening' = IF listens THEN listening \cup {d} ELSE listening
  /\ serving'   = IF serves THEN serving \cup {d} ELSE serving
  /\ UNCHANGED <<network, over, air, posts, found>>

Stop(d) ==
  /\ d \in running
  /\ running'   = running \ {d}
  /\ listening' = listening \ {d}
  /\ serving'   = serving \ {d}
  /\ over'      = over \cup {d}
  /\ UNCHANGED <<network, air, posts, found>>

\* The server ends in an error of accept(): the picker goes on without it,
\* anything else is stopped by it (Stop).
LoseServer(d) ==
  /\ d \in serving \cap Pickers
  /\ serving' = serving \ {d}
  /\ UNCHANGED <<network, running, listening, over, air, posts, found>>

\* To multicast, broadcast and subnet; errors of a socket are ignored.
Announced(d) == air' = air \cup {hop \in network : hop[1] = d}

\* The 5 s ticker, whose first tick is at once.
Announce(d) ==
  /\ d \in listening
  /\ Announced(d)
  /\ UNCHANGED <<lifeVars, posts, found>>

\* The picker's scan, at its start and when the user asks for it: from a
\* socket of its own.
Scan(d) ==
  /\ d \in Pickers \cap running
  /\ Announced(d)
  /\ UNCHANGED <<lifeVars, posts, found>>

-----------------------------------------------------------------------------
\* Variant: announcements go unanswered.
NoAnswer(d, e) == {}

\* A datagram of d is ours if it has our fingerprint.
Ours(d, e) == Payload[d].fingerprint = Payload[e].fingerprint

\* The answer to an announcement: reply_register to where it came from.
Answer(d, e) == IF Payload[d].announce THEN {<<e, d>>} ELSE {}

\* The listener of e takes a datagram of d.  The network may repeat it.
Hear(d, e) ==
  /\ <<d, e>> \in air
  /\ e \in listening
  /\ air' \in {air, air \ {<<d, e>>}}
  /\ IF Ours(d, e)
     THEN UNCHANGED <<found, posts>>
     ELSE /\ found' = [found EXCEPT ![e] = @ \cup {HeardPeer(d)}]
          /\ posts' = posts \cup Answer(d, e)
  /\ UNCHANGED lifeVars

\* A datagram is lost, or is heard by nobody.
Lose(d, e) ==
  /\ <<d, e>> \in air
  /\ air' = air \ {<<d, e>>}
  /\ UNCHANGED <<lifeVars, posts, found>>

\* handle_register: the request of d reaches the server that is now at the
\* address of e.
Register(d, e) ==
  /\ <<d, e>> \in posts
  /\ posts' = posts \ {<<d, e>>}
  /\ \E f \in serving :
       /\ Home(f) = Home(e)
       /\ found' = [found EXCEPT ![f] = @ \cup {RegisteredPeer(d)}]
  /\ UNCHANGED <<lifeVars, air>>

\* Nobody takes the request, or it fails: the error is ignored.
Refuse(d, e) ==
  /\ <<d, e>> \in posts
  /\ posts' = posts \ {<<d, e>>}
  /\ UNCHANGED <<lifeVars, air, found>>

-----------------------------------------------------------------------------
Next ==
  \/ \E d \in Devices :
       \/ \E listens, serves \in BOOLEAN : Start(d, listens, serves)
       \/ Stop(d)
       \/ LoseServer(d)
       \/ Announce(d)
       \/ Scan(d)
  \/ \E d, e \in Devices :
       Hear(d, e) \/ Lose(d, e) \/ Register(d, e) \/ Refuse(d, e)

Spec == Init /\ [][Next]_vars

\* The ticker ticks.  What is sent again and again to somebody who takes it
\* gets there in the end; any single message may be lost.
FairSpec ==
  /\ Spec
  /\ \A d \in Devices : WF_vars(Announce(d))
  /\ \A d, e \in Devices :
       d # e => SF_vars(Hear(d, e)) /\ SF_vars(Register(d, e))

-----------------------------------------------------------------------------
(* Properties.                                                             *)

\* Runs of programs that have, or had, this address.
RunsAt(address) == {d \in Devices : Home(d) = address}

\* What d knows of this address.
PeersAt(d, address) == {p \in found[d] : Address(p.ip, p.port) = address}

\* A run is one peer, heard or registered, in whatever order and with whatever
\* fields left out: both handlers derive the same key and address.  So one key
\* leads to one address, there are no more peers at an address than programs
\* that ran there, and nobody is a peer of its own, though everybody hears what
\* it announces - but for one that took over an address: it may get the answer
\* that it sent to the run before it.
OnePeerEach ==
  \A d \in Devices :
    /\ \A p, q \in found[d] :
         p.fingerprint = q.fingerprint => p.ip = q.ip /\ p.port = q.port
    /\ \A p \in found[d] :
         LET address == Address(p.ip, p.port)
         IN Cardinality(PeersAt(d, address)) <= Cardinality(RunsAt(address))
    /\ RunsAt(Home(d)) = {d} =>
         \A p \in found[d] : p.fingerprint # Payload[d].fingerprint

\* d can learn of e from e's own datagrams, or from e's answer to its own.
WithinReach(d, e) ==
  /\ {d, e} \subseteq listening
  /\ \/ <<e, d>> \in network
     \/ <<d, e>> \in network /\ Payload[d].announce /\ d \in serving

\* Two devices that stay, with their services, find one another if datagrams get
\* through in one direction, whichever it is: the answer takes the other way, by HTTPS
\* (start and reply_register of one, handle_register of the other).
FoundWhenReachable ==
  \A d, e \in Devices : d # e =>
    (WithinReach(d, e) ~>
       (\E p \in found[d] : p = HeardPeer(e)) \/ ~WithinReach(d, e))
=============================================================================
