-------------------------- MODULE UdpInterception --------------------------
(***************************************************************************)
(* The UDP interception path: SOCKET handler on the strand, NETWORK        *)
(* workers and the relay's coroutines over one tracker, one policy table   *)
(* and one session table.                                                  *)
(***************************************************************************)
EXTENDS UdpRelay

CONSTANT Lagging   \* a port may be bound anew while clew, or a reply, is still
                   \* busy with the last socket on it

ASSUME InterceptionAssumption == Lagging \in BOOLEAN

vars == <<stackVars, policyVars, trackerVars, workerVars, relayVars>>

TypeOK ==
  /\ StackTypeOK /\ PolicyTypeOK /\ TrackerTypeOK /\ NetworkTypeOK /\ RelayTypeOK

Init ==
  /\ StackInit /\ PolicyInit /\ TrackerInit /\ NetworkInit /\ RelayInit

\* Nothing is left of the earlier sockets on port p.
Quiet(p) ==
  /\ \A k \in DOMAIN usockq : PortOf[usockq[k].sock] # p
  /\ writing # None => writing.port # p
  /\ \A f \in {"net", "worker", "relay", "proxied"} : \A d \in InState(f) : dport(d) # p
  /\ \A r \in replies : socks[r[1]].port # p

AppStep ==
  /\ \/ \E u \in Sockets : AppBind(u) /\ (Lagging \/ Quiet(PortOf[u]))
     \/ \E u \in Sockets, dst \in Dsts : AppUdpConnect(u, dst) \/ AppSend(u, dst)
     \/ \E u \in Sockets : AppUdpClose(u)
  /\ UNCHANGED <<policyVars, trackerVars, workerVars, relayVars>>

StrandStep == StrandNext /\ UNCHANGED <<workerVars, relayVars>>

WorkerStep(w) ==
  /\ WorkerNext(w)
  /\ UNCHANGED <<excludes, policy_ids, tables, generation, trackerVars, relayVars>>

RelayStep == RelayNext /\ UNCHANGED <<policyVars, trackerVars>>

Next ==
  \/ AppStep
  \/ StrandStep
  \/ \E w \in UWorkers : WorkerStep(w)
  \/ RelayStep

Spec == Init /\ [][Next]_vars

\* Properties --------------------------------------------------------------

\* "A reader can never record a generation that does not match the table it kept"
\* (policy_table.hpp), and a datagram is judged by a table no older than the one in
\* force when the worker received it.
PolicyFresh ==
  \A w \in UWorkers :
    /\ wtable[w] = tables[wseen[w] + 1]
    /\ wpc[w] \in {"evaluate", "upsert", "reflect"} => wseen[w] >= wgen[w]

\* The policy id in a slot means the rule that matched its socket, for as long as
\* the slot lives and whatever rules go and come back: the row under it has that
\* rule's excludes, or the global ones alone once the rule is gone ("never reused",
\* rule_engine_v3.hpp).
RowKeepsItsRule ==
  \A p \in UPorts : active[p] /\ StrandFree =>
    LET u == entry[p].sock
    IN \A dst \in Dsts :
         evaluate(tables[Len(tables)], entry[p].policy, dst)
           <=> dst \in excludes.global \cup rule_excludes(u, excludes)

\* A datagram of a process that no configured rule has matched so far leaves
\* directly, whoever had the port before.
DirectUntouched ==
  \A d \in DOMAIN dgrams :
    LET r == RuleOf[dgrams[d].sock]
    IN (r = DIRECT \/ (r \in ExcludeRules /\ policy_ids[r] = 0)) =>
         fate[d] \in {"net", "direct"}

\* The relay restores the destination a datagram was sent to
\* (windivert_network_udp.hpp: "Session info saved to UdpSessionTable for relay to
\* restore original dst").
DestinationKept ==
  \A d \in DOMAIN dgrams : sent_to[d] \in {None, dgrams[d].dst}

\* A reply reaches the application from the endpoint that sent it.
ReplyFromPeer == \A a \in answers : a[1] = a[2]

\* Every live session is the one its port uses and has a coroutine that delivers
\* what comes back, however many sessions of the port died before it.
AnswersHeard ==
  \A i \in DOMAIN socks : socks[i].alive => current[socks[i].port] = i /\ socks[i].reader
=============================================================================
