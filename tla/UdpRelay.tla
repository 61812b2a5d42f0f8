------------------------------ MODULE UdpRelay ------------------------------
(***************************************************************************)
(* udp/udp_relay.hpp with udp/socks5_udp_manager.hpp and                   *)
(* udp/socks5_udp_session.hpp: one coroutine sends what the workers        *)
(* reflected through the SOCKS5 session of its local port, and every       *)
(* session has a coroutine of its own that injects what comes back.        *)
(***************************************************************************)
EXTENDS WindivertNetworkUdp

CONSTANT MaxSessions   \* bound on the SOCKS5 sessions established

ASSUME RelayAssumption == MaxSessions \in Nat

VARIABLES
  socks,        \* SOCKS5 sessions so far: port, group, alive_, and whether its
                \* downstream coroutine still runs
  current,      \* current[p]: sessions_ of the manager, or 0
  via,          \* via[d]: the session that sent datagram d
  sent_to,      \* sent_to[d]: the destination in its SOCKS5 frame
  replies,      \* undelivered replies: session and answering endpoint
  answers       \* injected replies: answering endpoint and source address

relayVars == <<socks, current, via, sent_to, replies, answers>>

RelayTypeOK ==
  /\ socks \in Seq([port : UPorts, group : UGroups, alive : BOOLEAN, reader : BOOLEAN])
  /\ current \in [UPorts -> 0 .. MaxSessions]
  /\ via \in [Datagram -> 0 .. MaxSessions]
  /\ sent_to \in [Datagram -> Dsts \cup {None}]
  /\ replies \subseteq (1 .. MaxSessions) \X Dsts
  /\ answers \subseteq Dsts \X Dsts

RelayInit ==
  /\ socks = <<>> /\ current = [p \in UPorts |-> 0]
  /\ via = [d \in Datagram |-> 0] /\ sent_to = [d \in Datagram |-> None]
  /\ replies = {} /\ answers = {}

live(p) == current[p] # 0 /\ socks[current[p]].alive

TakeReflected(f) ==
  /\ relayq # <<>> /\ relayq' = Tail(relayq)
  /\ fate' = [fate EXCEPT ![Head(relayq)] = f]
  /\ UNCHANGED <<ustate, peer, usockq, dgrams, wpc, wd, wte, wgen, sessions, replies, answers>>

\* Mutant: the header of the frame is built once per SOCKS5 session.
Mut_Encode(i) ==
  LET d == Head(relayq) before == {e \in DOMAIN dgrams : via[e] = i}
  IN /\ via' = [via EXCEPT ![d] = i]
     /\ sent_to' = [sent_to EXCEPT ![d] =
          IF before = {} THEN sessions[dport(d)].dst
          ELSE sent_to[CHOOSE e \in before : TRUE]]
\* The frame carries the destination the session table has now.
Encode(i) ==
  LET d == Head(relayq)
  IN /\ via' = [via EXCEPT ![d] = i]
     /\ sent_to' = [sent_to EXCEPT ![d] = sessions[dport(d)].dst]

\* get_or_create() finds a live session ...
UpstreamReuse ==
  /\ TakeReflected("proxied")
  /\ LET p == dport(Head(relayq))
     IN sessions[p] # None /\ live(p) /\ Encode(current[p])
  /\ UNCHANGED <<socks, current>>

\* Mutant: the callback runs only for the first session of a port.
Mut_reader(p) == current[p] = 0
\* on_session_created_ spawns the downstream coroutine of every session.
reader(p) == TRUE

\* ... or establishes one for the group in the session table.
UpstreamCreate ==
  /\ TakeReflected("proxied")
  /\ LET p == dport(Head(relayq))
     IN /\ sessions[p] # None /\ ~live(p) /\ Len(socks) < MaxSessions
        /\ socks' = Append(socks, [port |-> p, group |-> sessions[p].group,
                                   alive |-> TRUE, reader |-> reader(p)])
        /\ current' = [current EXCEPT ![p] = Len(socks')]
        /\ Encode(Len(socks'))

\* No entry in the table, no proxy that answers, or a session lost before the send.
UpstreamDrop ==
  /\ TakeReflected("lost")
  /\ UNCHANGED <<socks, current, via, sent_to>>

\* The idle sweep of the session table.
SweepIdle(p) ==
  /\ sessions[p] # None /\ sessions' = [sessions EXCEPT ![p] = None]
  /\ UNCHANGED <<stackVars, wpc, wd, wte, wgen, relayq, relayVars>>

\* The proxy closes the control connection: alive_ goes down, the data socket and
\* the downstream coroutine that waits on it stay.
ControlLost(i) ==
  /\ i \in DOMAIN socks /\ socks[i].alive
  /\ socks' = [socks EXCEPT ![i].alive = FALSE]
  /\ UNCHANGED <<stackVars, workerVars, current, via, sent_to, replies, answers>>

\* An endpoint answers a datagram it got through the proxy, or does not.
PeerDone(d) ==
  /\ fate[d] = "proxied" /\ fate' = [fate EXCEPT ![d] = "done"]
  /\ replies' \in {replies, replies \cup {<<via[d], sent_to[d]>>}}
  /\ UNCHANGED <<ustate, peer, usockq, dgrams, workerVars, socks, current, via, sent_to, answers>>

\* downstream_for_session(): the reply is injected as coming from the endpoint the
\* session table has for the port; a dead session's coroutine then ends.
Downstream(i, from) ==
  /\ <<i, from>> \in replies /\ socks[i].reader
  /\ replies' = replies \ {<<i, from>>}
  /\ LET s == sessions[socks[i].port]
     IN answers' = IF s = None THEN answers ELSE answers \cup {<<from, s.dst>>}
  /\ socks' = [socks EXCEPT ![i].reader = socks[i].alive]
  /\ UNCHANGED <<stackVars, workerVars, current, via, sent_to>>

RelayNext ==
  \/ UpstreamReuse \/ UpstreamCreate \/ UpstreamDrop
  \/ \E p \in UPorts : SweepIdle(p)
  \/ \E i \in DOMAIN socks : ControlLost(i)
  \/ \E d \in Datagram : PeerDone(d)
  \/ \E r \in replies : Downstream(r[1], r[2])
=============================================================================
