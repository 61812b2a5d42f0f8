--------------------------- MODULE MCDnsForwarder ---------------------------
(***************************************************************************)
(* Instance of DnsForwarder: two clients whose queries collide, and a      *)
(* second query of one of them.                                            *)
(***************************************************************************)
EXTENDS DnsForwarder

CONSTANTS q1, q2, q3, c1, c2, i1, i2

MCQueries == {q1, q2, q3}
MCClientOf(k) == IF k = q2 THEN c2 ELSE c1
MCRepeated == {q1}
MCIdOf(k) == IF k = q3 THEN i2 ELSE i1
=============================================================================
