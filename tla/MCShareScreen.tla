---------------------------- MODULE MCShareScreen ----------------------------
(* Small instances of ShareScreen: two devices, one of which moves to        *)
(* another address, this very picker and a receiver on this host.            *)
EXTENDS ShareScreen, TLC

CONSTANTS f1, tablet, laptop, us, here, there, elsewhere, others

MCFileSize == f1 :> 1

Device(fingerprint, alias, ip) ==
  [fingerprint |-> fingerprint, alias |-> alias, ip |-> ip]

Tablet == Device(tablet, others, there)
Laptop == Device(laptop, others, here)

MCDevices ==
  {Tablet, Device(tablet, others, elsewhere), Laptop, Device(us, us, here),
   Device(laptop, us, here)}

MCOneDevice == {Tablet}
=============================================================================
