------------------------------ MODULE UdpStack ------------------------------
(***************************************************************************)
(* The environment of the UDP interception: applications that bind UDP     *)
(* sockets, connect them, send datagrams and close them, the WinDivert     *)
(* queues of the two UDP handles, and the peers behind the SOCKS5 proxy.   *)
(* Nothing here is under src/: it is modelled from how                     *)
(* udp/windivert_socket_udp.hpp, udp/windivert_network_udp.hpp and         *)
(* udp/udp_relay.hpp use it.                                               *)
(*                                                                         *)
(* SOCKET events arrive in order; datagrams are diverted on a queue of     *)
(* their own that several workers read.                                    *)
(***************************************************************************)
EXTENDS Integers, Sequences, FiniteSets

CONSTANTS
  Sockets,      \* UDP sockets the applications open
  UPorts,       \* local ports
  PortOf,       \* PortOf[u]: the local port of socket u
  Dsts,         \* remote endpoints
  None,         \* no endpoint, no entry
  Roaming,      \* sockets that send to more than one endpoint
  MaxDatagrams  \* bound on the datagrams sent

ASSUME StackAssumption ==
  /\ PortOf \in [Sockets -> UPorts]
  /\ None \notin Dsts
  /\ Roaming \subseteq Sockets
  /\ MaxDatagrams \in Nat

Datagram == 1 .. MaxDatagrams

VARIABLES
  ustate,       \* ustate[u]: "idle", "bound", "connected" or "closed"
  peer,         \* peer[u]: the endpoint u sent to last
  usockq,       \* undelivered SOCKET events, oldest first
  dgrams,       \* datagrams sent so far: socket and destination
  fate          \* fate[d]: where datagram d is

stackVars == <<ustate, peer, usockq, dgrams, fate>>

SocketEvent ==
  [ev : {"BIND", "CONNECT", "CLOSE"}, sock : Sockets, dst : Dsts \cup {None}]

StackTypeOK ==
  /\ ustate \in [Sockets -> {"idle", "bound", "connected", "closed"}]
  /\ peer \in [Sockets -> Dsts \cup {None}]
  /\ usockq \in Seq(SocketEvent)
  /\ dgrams \in Seq([sock : Sockets, dst : Dsts])
  /\ fate \in [Datagram -> {"unsent", "net", "worker", "direct", "relay", "proxied", "done", "lost"}]

StackInit ==
  /\ ustate = [u \in Sockets |-> "idle"]
  /\ peer = [u \in Sockets |-> None]
  /\ usockq = <<>> /\ dgrams = <<>>
  /\ fate = [d \in Datagram |-> "unsent"]

dport(d) == PortOf[dgrams[d].sock]
InState(f) == {d \in Datagram : fate[d] = f}

Event(ev, u, dst) == usockq' = Append(usockq, [ev |-> ev, sock |-> u, dst |-> dst])

\* bind(), explicit or by the first send or connect.
AppBind(u) ==
  /\ ustate[u] = "idle"
  /\ \A v \in Sockets : PortOf[v] = PortOf[u] => ustate[v] \notin {"bound", "connected"}
  /\ ustate' = [ustate EXCEPT ![u] = "bound"]
  /\ Event("BIND", u, None)
  /\ UNCHANGED <<peer, dgrams, fate>>

AppUdpConnect(u, dst) ==
  /\ ustate[u] = "bound" /\ peer[u] \in {None, dst}
  /\ ustate' = [ustate EXCEPT ![u] = "connected"]
  /\ peer' = [peer EXCEPT ![u] = dst]
  /\ Event("CONNECT", u, dst)
  /\ UNCHANGED <<dgrams, fate>>

AppSend(u, dst) ==
  /\ Len(dgrams) < MaxDatagrams
  /\ \/ ustate[u] = "bound" /\ (peer[u] \in {None, dst} \/ u \in Roaming)
     \/ ustate[u] = "connected" /\ peer[u] = dst
  /\ peer' = [peer EXCEPT ![u] = dst]
  /\ dgrams' = Append(dgrams, [sock |-> u, dst |-> dst])
  /\ fate' = [fate EXCEPT ![Len(dgrams) + 1] = "net"]
  /\ UNCHANGED <<ustate, usockq>>

AppUdpClose(u) ==
  /\ ustate[u] \in {"bound", "connected"}
  /\ ustate' = [ustate EXCEPT ![u] = "closed"]
  /\ Event("CLOSE", u, None)
  /\ UNCHANGED <<peer, dgrams, fate>>
=============================================================================
