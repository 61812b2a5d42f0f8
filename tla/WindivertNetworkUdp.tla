------------------------ MODULE WindivertNetworkUdp ------------------------
(***************************************************************************)
(* udp/windivert_network_udp.hpp with udp/udp_session_table.hpp: a worker  *)
(* sees the flag of the sender's slot, copies the entry, judges the        *)
(* destination, leaves it in the session table under the local port and    *)
(* reflects the datagram to the relay.  Every operation of the table takes *)
(* its mutex.                                                              *)
(***************************************************************************)
EXTENDS WindivertSocketUdp

VARIABLES
  wpc,          \* where each worker is in worker_loop()
  wd,           \* the datagram it handles
  wte,          \* its copy of the tracker entry
  wgen,         \* ghost: the generation when it received the datagram
  sessions,     \* sessions_ of the table
  relayq        \* datagrams reflected to the relay's socket

workerVars == <<wpc, wd, wte, wgen, sessions, relayq>>

UdpSession == [dst : Dsts, group : UGroups, sock : Sockets \cup {None}]

NetworkTypeOK ==
  /\ wpc \in [UWorkers -> {"recv", "copy", "evaluate", "refresh", "upsert", "reflect"}]
  /\ wd \in [UWorkers -> 0 .. MaxDatagrams]
  /\ wte \in [UWorkers -> UdpTrackerEntry]
  /\ wgen \in [UWorkers -> 0 .. MaxReloads]
  /\ \A p \in UPorts : sessions[p] = None \/ sessions[p] \in UdpSession
  /\ relayq \in Seq(Datagram)

NetworkInit ==
  /\ wpc = [w \in UWorkers |-> "recv"] /\ wd = [w \in UWorkers |-> 0]
  /\ wte = [w \in UWorkers |-> EmptyEntry] /\ wgen = [w \in UWorkers |-> 0]
  /\ sessions = [p \in UPorts |-> None] /\ relayq = <<>>

sent_from(w) == dport(wd[w])
GoTo(w, pc) == wpc' = [wpc EXCEPT ![w] = pc]

\* The worker is done with its datagram, which leaves by itself or reflected.
PassOrReflect(w, f) ==
  /\ fate' = [fate EXCEPT ![wd[w]] = f]
  /\ GoTo(w, "recv")
  /\ wd' = [wd EXCEPT ![w] = 0]
  /\ wte' = [wte EXCEPT ![w] = EmptyEntry] /\ wgen' = [wgen EXCEPT ![w] = 0]
  /\ UNCHANGED <<ustate, peer, usockq, dgrams, sessions>>

\* WinDivertRecv, and the load of the flag.
Receive(w, d) ==
  /\ wpc[w] = "recv" /\ fate[d] = "net"
  /\ IF active[dport(d)]
     THEN /\ GoTo(w, "copy") /\ fate' = [fate EXCEPT ![d] = "worker"]
          /\ wd' = [wd EXCEPT ![w] = d] /\ wgen' = [wgen EXCEPT ![w] = generation]
     ELSE fate' = [fate EXCEPT ![d] = "direct"] /\ UNCHANGED <<wpc, wd, wgen>>
  /\ UNCHANGED <<ustate, peer, usockq, dgrams, wte, sessions, relayq, readerVars>>

CopyEntry(w) ==
  /\ wpc[w] = "copy" /\ GoTo(w, IF Current(w) THEN "evaluate" ELSE "refresh")
  /\ \E e \in copies(sent_from(w)) : wte' = [wte EXCEPT ![w] = e]
  /\ UNCHANGED <<stackVars, wd, wgen, sessions, relayq, readerVars>>

Refresh(w) ==
  /\ wpc[w] = "refresh" /\ GoTo(w, "evaluate")
  /\ snapshot(w)
  /\ UNCHANGED <<stackVars, wd, wte, wgen, sessions, relayq>>

Evaluate(w) ==
  /\ wpc[w] = "evaluate"
  /\ IF evaluate(wtable[w], wte[w].policy, dgrams[wd[w]].dst)
     THEN PassOrReflect(w, "direct")
     ELSE GoTo(w, "upsert") /\ UNCHANGED <<stackVars, wd, wte, wgen, sessions>>
  /\ UNCHANGED <<relayq, readerVars>>

\* Mutant: only the first datagram of a port is remembered.
Mut_upsert(p, s) == sessions' = [sessions EXCEPT ![p] = IF @ = None THEN s ELSE @]
\* UdpSessionTable::upsert()
upsert(p, s) == sessions' = [sessions EXCEPT ![p] = s]

SaveSession(w) ==
  /\ wpc[w] = "upsert" /\ GoTo(w, "reflect")
  /\ upsert(sent_from(w),
            [dst |-> dgrams[wd[w]].dst, group |-> wte[w].group, sock |-> wte[w].sock])
  /\ UNCHANGED <<stackVars, wd, wte, wgen, relayq, readerVars>>

Reflect(w) ==
  /\ wpc[w] = "reflect"
  /\ relayq' = Append(relayq, wd[w])
  /\ PassOrReflect(w, "relay")
  /\ UNCHANGED readerVars

WorkerNext(w) ==
  \/ \E d \in InState("net") : Receive(w, d)
  \/ CopyEntry(w) \/ Refresh(w) \/ Evaluate(w) \/ SaveSession(w) \/ Reflect(w)
=============================================================================
