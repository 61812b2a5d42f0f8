------------------------------ MODULE WinKernel ------------------------------
(***************************************************************************)
(* The environment of the TCP interception path: the Windows TCP stack as  *)
(* the two WinDivert layers see it.  An application opens a flow (one TCP  *)
(* connection from a local port), the kernel reports CONNECT on the SOCKET *)
(* layer and then diverts the SYN on the NETWORK layer; the two queues are *)
(* drained by independent threads.  Nothing here is under src/: it is      *)
(* modelled from how core/windivert_socket.hpp, core/windivert_network.hpp *)
(* and core/port_tracker.hpp use it.                                       *)
(*                                                                         *)
(* Every event carries a kernel timestamp (QPC ticks, one clock for both   *)
(* layers).  Events come in bursts: the clock moves when time passes       *)
(* (Pause) and when a socket is opened or closed, and inside a burst a     *)
(* fixed offset orders the events of a port, the only ones whose           *)
(* timestamps are ever compared.                                           *)
(***************************************************************************)
EXTENDS Integers, Sequences, FiniteSets

CONSTANTS
  Flows,        \* TCP connections the applications may open
  Ports,        \* local TCP ports
  PortOf,       \* local port of each flow
  RemoteOf,     \* remote endpoint of each flow
  EchoPaths,    \* re-injected SYNs ("direct", "proxied") that re-traverse ALE
  Lossy,        \* flows whose CONNECT event WinDivert may drop
  ReuseGap,     \* shortest time between the SYNs of two flows of one port
  PauseLen,     \* length of a quiet period the clock jumps over
  MaxPauses,    \* bound on the number of those jumps
  Rto,          \* shortest retransmission timeout, in ticks
  MaxRetransmits  \* bound on the SYN retransmissions of all flows together

ASSUME FlowAssumption ==
  /\ PortOf \in [Flows -> Ports]
  /\ EchoPaths \subseteq {"direct", "proxied"}
  /\ Lossy \subseteq Flows
  /\ ReuseGap \in Nat /\ PauseLen \in Nat /\ Rto \in Nat
  /\ MaxPauses \in Nat /\ MaxRetransmits \in Nat

VARIABLES
  now,          \* the QPC clock
  pauses,       \* clock jumps taken
  retransmits,  \* SYN retransmissions taken
  phase,        \* phase[f]: "idle", "syn" (SYN unanswered), "est", "closed",
                \* or "aborted" (closed before it was established)
  wire,         \* wire[f]: where the last SYN of f went: "none", "direct", "proxied"
  syn_sent,     \* syn_sent[f]: time the stack last emitted the SYN of f
  sockq,        \* SOCKET-layer events, oldest first
  netq          \* diverted outbound SYNs no worker has received yet

kernelVars == <<now, pauses, retransmits, phase, wire, syn_sent, sockq, netq>>

\* A SOCKET-layer event; "echo" is the CONNECT (PID 4) of a SYN clew re-injected.
SockEvent == [kind : {"connect", "close", "echo"}, flow : Flows, ts : Nat]

\* A diverted SYN.  The ISN is random per connection: it is the flow itself.
SynPacket == [flow : Flows, ts : Nat]

KernelTypeOK ==
  /\ now \in Nat /\ pauses \in Nat /\ retransmits \in Nat
  /\ phase \in [Flows -> {"idle", "syn", "est", "closed", "aborted"}]
  /\ wire \in [Flows -> {"none", "direct", "proxied"}]
  /\ syn_sent \in [Flows -> Nat]
  /\ sockq \in Seq(SockEvent)
  /\ netq \subseteq SynPacket

KernelInit ==
  /\ now = 0 /\ pauses = 0 /\ retransmits = 0
  /\ phase = [f \in Flows |-> "idle"]
  /\ wire = [f \in Flows |-> "none"]
  /\ syn_sent = [f \in Flows |-> 0]
  /\ sockq = <<>> /\ netq = {}

Over(f) == phase[f] \in {"closed", "aborted"}

\* The stack may give the port of a closed flow to the next one.
PortFree(p) ==
  \A g \in Flows : PortOf[g] = p =>
    \/ phase[g] = "idle"
    \/ Over(g) /\ now - syn_sent[g] >= ReuseGap

\* Offsets inside a burst: CONNECT is stamped before its SYN, the CONNECT a
\* re-injected SYN raises comes after both, and CLOSE is the last of a flow.
\* connect() opens a burst of its own, later than all an earlier flow reported.
CONNECT_TS == now + 3
SYN_TS == now + 1
ECHO_TS == now + 2
CLOSE_TS == now + 3

\* connect()
AppConnect(f) ==
  /\ phase[f] = "idle" /\ PortFree(PortOf[f])
  /\ phase' = [phase EXCEPT ![f] = "syn"]
  /\ now' = CONNECT_TS
  /\ syn_sent' = [syn_sent EXCEPT ![f] = now' + 1]
  /\ netq' = netq \cup {[flow |-> f, ts |-> now' + 1]}
  /\ \/ sockq' = Append(sockq, [kind |-> "connect", flow |-> f, ts |-> CONNECT_TS])
     \/ f \in Lossy /\ sockq' = sockq
  /\ UNCHANGED <<pauses, retransmits, wire>>

\* The stack repeats an unanswered SYN, same ISN, once the RTO has passed.
SynRetransmit(f) ==
  /\ phase[f] = "syn" /\ now - syn_sent[f] >= Rto /\ retransmits < MaxRetransmits
  /\ retransmits' = retransmits + 1
  /\ syn_sent' = [syn_sent EXCEPT ![f] = SYN_TS]
  /\ netq' = netq \cup {[flow |-> f, ts |-> SYN_TS]}
  /\ UNCHANGED <<now, pauses, phase, wire, sockq>>

\* The SYN that left was answered: from here on the peer of f is fixed.  A SYN
\* that is lost on the wire, or that WinDivertSend fails to send, never is.
Establish(f) ==
  /\ phase[f] = "syn" /\ wire[f] # "none"
  /\ phase' = [phase EXCEPT ![f] = "est"]
  /\ UNCHANGED <<now, pauses, retransmits, wire, syn_sent, sockq, netq>>

\* closesocket(): CLOSE is reported at once, whatever is still on the wire.
AppClose(f) ==
  /\ phase[f] \in {"syn", "est"}
  /\ phase' = [phase EXCEPT ![f] = IF @ = "est" THEN "closed" ELSE "aborted"]
  /\ sockq' = Append(sockq, [kind |-> "close", flow |-> f, ts |-> CLOSE_TS])
  /\ now' = CLOSE_TS + 1
  /\ UNCHANGED <<pauses, retransmits, wire, syn_sent, netq>>

\* Time passes; "due" allows a pause past the bound because somebody waits for it.
Pause(due) ==
  /\ pauses < MaxPauses \/ due
  /\ now' = now + PauseLen
  /\ pauses' = IF pauses < MaxPauses THEN pauses + 1 ELSE pauses
  /\ UNCHANGED <<retransmits, phase, wire, syn_sent, sockq, netq>>

\* WinDivertSend of the SYN of f: verbatim ("direct") or reflected to the
\* acceptor ("proxied"); the re-injected packet may raise an echo CONNECT.
SendSyn(f, path) ==
  /\ wire' = IF phase[f] = "syn" THEN [wire EXCEPT ![f] = path] ELSE wire
  /\ sockq' = IF path \in EchoPaths
              THEN Append(sockq, [kind |-> "echo", flow |-> f, ts |-> ECHO_TS])
              ELSE sockq
  /\ UNCHANGED <<now, pauses, retransmits, phase, syn_sent, netq>>
=============================================================================
