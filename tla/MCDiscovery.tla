----------------------------- MODULE MCDiscovery ----------------------------
(* A small instance of Discovery: a picker, a device that leaves out of its  *)
(* messages what it can and asks for no answers, and a receiver that is      *)
(* started at the address of that device; datagrams get through both ways or *)
(* only one.                                                                 *)
EXTENDS Discovery, TLC

CONSTANTS picker, other, receiver

MCPayload ==
  picker   :> [fingerprint |-> picker, port |-> 1, alias |-> picker,
               announce |-> TRUE] @@
  other    :> [fingerprint |-> Absent, port |-> Absent, alias |-> Absent,
               announce |-> FALSE] @@
  receiver :> [fingerprint |-> receiver, port |-> DefaultPort,
               alias |-> receiver, announce |-> TRUE]

MCIp == picker :> <<picker>> @@ other :> <<other>> @@ receiver :> <<other>>

\* Both ways with one and one way to the other; or only towards the picker.
MCNetworks ==
  {{<<picker, other>>, <<other, picker>>, <<picker, receiver>>},
   {<<picker, picker>>, <<other, picker>>, <<receiver, picker>>}}
=============================================================================
