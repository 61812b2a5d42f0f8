---------------------------- MODULE MCSynParking ----------------------------
(***************************************************************************)
(* Instances of SynParking for TLC: a proxied flow f1 and a direct flow f2,*)
(* on a port each or one after the other on the same port.                 *)
(***************************************************************************)
EXTENDS SynParking, TLC

CONSTANTS f1, f2, p1, p2

MCOwnPorts == [f \in Flows |-> IF f = f1 THEN p1 ELSE p2]
MCOnePort == [f \in Flows |-> p1]
MCRemoteOf == [f \in Flows |-> IF f = f1 THEN "r1" ELSE "r2"]
MCVerdict == [f \in Flows |-> IF f = f1 THEN "proxied" ELSE "direct"]
MCSymmetry == Permutations(Workers)
=============================================================================
