---------------------------- MODULE MCDnsManager ----------------------------
(***************************************************************************)
(* Instances of DnsManager for TLC: one interface on DHCP, one with a      *)
(* server of the user's own.                                               *)
(***************************************************************************)
EXTENDS DnsManager, TLC

CONSTANTS i1, i2, router, own, l1, l2, s1, x1, x2, main, h1

MCUserSetting == (i1 :> Automatic) @@ (i2 :> own)
MCDefaultConfig ==
  [enabled |-> FALSE, mode |-> "forwarder", listen |-> l1, upstream |-> s1, proxy |-> x1]
=============================================================================
