------------------------------ MODULE TcpRelay ------------------------------
(***************************************************************************)
(* proxy/acceptor.hpp and proxy/relay.hpp: one coroutine per reflected     *)
(* connection.  It identifies the flow it serves by the CONNECT time it    *)
(* takes from the slot, and when it ends, for whatever reason, it posts a  *)
(* clear of that slot to the strand.                                       *)
(***************************************************************************)
EXTENDS WindivertSocket

VARIABLES
  relay,        \* relay[f]: "none", "serving", "gone"
  flow_ts       \* CONNECT time the relay of f took

relayVars == <<relay, flow_ts>>

RelayTypeOK ==
  /\ relay \in [Flows -> {"none", "serving", "gone"}]
  /\ flow_ts \in [Flows -> Nat]

RelayInit ==
  /\ relay = [f \in Flows |-> "none"]
  /\ flow_ts = [f \in Flows |-> 0]

rport(f) == PortOf[f]

\* The acceptor hands over a connection and take() finds its slot proxied.
RelayAccept(f) ==
  /\ relay[f] = "none" /\ wire[f] = "proxied" /\ phase[f] \in {"est", "closed"}
  /\ word[rport(f)].st = "proxied"
  /\ relay' = [relay EXCEPT ![f] = "serving"]
  /\ flow_ts' = [flow_ts EXCEPT ![f] = connect_ts[rport(f)]]
  /\ UNCHANGED <<kernelVars, trackerVars, parkerVars, socketVars>>

\* take() finds no proxied slot: the connection is dropped, nothing is cleared.
RelayRefuse(f) ==
  /\ relay[f] = "none" /\ wire[f] = "proxied" /\ phase[f] \in {"est", "closed"}
  /\ word[rport(f)].st # "proxied"
  /\ relay' = [relay EXCEPT ![f] = "gone"]
  /\ UNCHANGED <<kernelVars, trackerVars, parkerVars, socketVars, flow_ts>>

\* Unknown group, SOCKS5 failure or end of stream: release_slot().
RelayEnd(f) ==
  /\ relay[f] = "serving"
  /\ relay' = [relay EXCEPT ![f] = "gone"]
  /\ posted' = posted \cup {[flow |-> f, ts |-> flow_ts[f]]}
  /\ UNCHANGED <<kernelVars, trackerVars, parkerVars, spc, sev, sword, flow_ts>>

RelayNext == \E f \in Flows : RelayAccept(f) \/ RelayRefuse(f) \/ RelayEnd(f)
=============================================================================
