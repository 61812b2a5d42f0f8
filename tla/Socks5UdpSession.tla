-------------------------- MODULE Socks5UdpSession --------------------------
(***************************************************************************)
(* udp/socks5_udp_session.hpp: a SOCKS5 UDP ASSOCIATE session owns a TCP   *)
(* control connection and a UDP data socket.  The session is as alive as   *)
(* its control connection; its data socket stays open until the object is  *)
(* closed or destroyed.                                                    *)
(***************************************************************************)
EXTENDS Integers, FiniteSets

CONSTANTS
  MaxSessions,   \* bound on the sessions made
  Relay,         \* the relay the proxy named in its reply
  Stranger       \* a sender other than the relay

ASSUME SessionAssumption == MaxSessions \in Nat \ {0} /\ Relay # Stranger

Session == 1 .. MaxSessions

VARIABLE sess    \* sess[s]: the session, as far as it came, and what waits at its
                 \* data socket
sessionVars == <<sess>>

\* state: "none" not made, "made" constructed, "alive" and "lost" as alive_ says
\* after establish(), "closed" closed or destroyed.
FreshSession == [state |-> "none", inbox |-> {}]

is_alive(s) == sess[s].state = "alive"

\* establish() connects, authenticates and asks for the association; it blocks, each
\* step may fail, and then the session never becomes alive.
establish(s) == sess' = [sess EXCEPT ![s].state = "alive"]

\* The control connection breaks: the watchdog lowers alive_, no more.
ControlLost(s) ==
  /\ is_alive(s)
  /\ sess' = [sess EXCEPT ![s].state = "lost"]

\* Datagrams arrive at the data socket.
Arrive(s, ds) == sess' = [sess EXCEPT ![s].inbox = @ \cup ds]

\* async_recv_udp() hands up the relay's datagrams only.
accepted(d) == d.from = Relay
Taken(s, d) == sess' = [sess EXCEPT ![s].inbox = @ \ {d}]

\* close(), also by the destructor: what waits at the data socket is gone.
Closed(f, s) == [f EXCEPT ![s] = [FreshSession EXCEPT !.state = "closed"]]
=============================================================================
