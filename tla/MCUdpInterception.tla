------------------------- MODULE MCUdpInterception -------------------------
(***************************************************************************)
(* Instances of UdpInterception for TLC: two sockets on one port.  The     *)
(* rule of the first is configured from the start, that of the second, in  *)
(* place of it, by a reload.                                               *)
(***************************************************************************)
EXTENDS UdpInterception

CONSTANTS u1, u2, p1, a, b, r1, r2, g0, g1

MCPortOf == [u \in Sockets |-> p1]
MCRuleOf == [u \in Sockets |-> IF u = u1 THEN r1 ELSE r2]
MCGroupOf == [u \in Sockets |-> g1]

Rule(x, y) == [global |-> {}, rule |-> [r \in ExcludeRules |-> IF r = r1 THEN x ELSE y]]
MCInitial == Rule({b}, Absent)
MCExcludes == {MCInitial, Rule(Absent, {a})}
=============================================================================
