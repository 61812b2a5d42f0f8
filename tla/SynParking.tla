----------------------------- MODULE SynParking -----------------------------
(***************************************************************************)
(* The TCP interception path as app.cpp wires it: the SOCKET handler on    *)
(* the strand, the NETWORK workers, the injector and the relays, over one  *)
(* PortTracker and one pool, with the shutdown sequence of app::shutdown.  *)
(***************************************************************************)
EXTENDS WindivertNetwork, TcpRelay

CONSTANTS
  MayStop,      \* the application may be shut down
  Lagging       \* the parts of clew, "core" (strand, workers, pool, acceptor)
                \* and "relays" (their teardown), that may be slower than the
                \* stack: still busy with the last flow of a port when the port
                \* is reused, or ("core") with a SYN when it is retransmitted

ASSUME ParkingAssumption == MayStop \in BOOLEAN /\ Lagging \subseteq {"core", "relays"}

vars == <<kernelVars, trackerVars, parkerVars, socketVars, workerVars, relayVars>>

TypeOK ==
  /\ KernelTypeOK /\ TrackerTypeOK /\ ParkerTypeOK
  /\ SocketTypeOK /\ NetworkTypeOK /\ RelayTypeOK

Init ==
  /\ KernelInit /\ TrackerInit /\ ParkerInit
  /\ SocketInit /\ NetworkInit /\ RelayInit

\* A connection the acceptor reflected and that is over: its relay may not be.
Reflected(f) == phase[f] = "closed" /\ wire[f] = "proxied"

\* Strand, workers, queues and pool hold nothing of an earlier flow of port p,
\* and the acceptor has handed its connections over.
CoreQuiet(p) ==
  /\ \A k \in DOMAIN sockq : PortOf[sockq[k].flow] # p
  /\ spc # "idle" => sport # p
  /\ \A k \in DOMAIN queue_ : queue_[k].port # p
  /\ \A w \in Workers : wpc[w] # "recv" => wport(w) # p
  /\ \A pkt \in netq : PortOf[pkt.flow] # p
  /\ word[p].st # "pending"
  /\ \A f \in Flows : PortOf[f] = p /\ Reflected(f) => relay[f] # "none"

\* The relays of the earlier flows of port p are gone and their clears ran.
RelaysQuiet(p) ==
  /\ \A r \in posted : PortOf[r.flow] # p
  /\ \A f \in Flows : PortOf[f] = p /\ Reflected(f) => relay[f] = "gone"

PortQuiet(p) ==
  /\ "core" \in Lagging \/ CoreQuiet(p)
  /\ "relays" \in Lagging \/ RelaysQuiet(p)

\* No worker still has a SYN of flow f to handle.
SynHandled(f) ==
  /\ \A pkt \in netq : pkt.flow # f
  /\ \A w \in Workers : wpc[w] # "recv" => wflow(w) # f

\* A parked SYN waits for the watchdog.
WatchdogWaits == InjectorAlive /\ \E i \in PoolIdx : in_use[i] /\ ~Due(i)

KernelStep ==
  /\ \/ \E f \in Flows : AppConnect(f) /\ PortQuiet(PortOf[f])
     \/ \E f \in Flows : SynRetransmit(f) /\ ("core" \in Lagging \/ SynHandled(f))
     \/ \E f \in Flows : Establish(f) \/ AppClose(f)
     \/ Pause(WatchdogWaits)
  /\ UNCHANGED <<trackerVars, parkerVars, socketVars, workerVars, relayVars>>

StrandStep == StrandNext /\ UNCHANGED <<workerVars, relayVars>>
WorkerThread(w) == WorkerNext(w) /\ UNCHANGED <<socketVars, relayVars>>
InjectorStep == InjectorNext /\ UNCHANGED <<socketVars, workerVars, relayVars>>
RelayStep == RelayNext /\ UNCHANGED workerVars

SetLife(from, to) ==
  /\ life = from /\ life' = to
  /\ UNCHANGED <<kernelVars, trackerVars, poolVars, queue_, gen_mismatch, injectorVars,
                 socketVars, workerVars, relayVars>>

\* app::shutdown(): wd_socket_->close(), parker_->stop() (the injector drains,
\* sweeps and is joined), wd_network_->close() (the workers are joined).
CloseSocketLayer == MayStop /\ SetLife("up", "socket_closed")
StopParker == SetLife("socket_closed", "draining")
CloseNetworkLayer ==
  SetLife("stopped", "closed") /\ \A w \in Workers : wpc[w] = "recv"

\* Every flow is over and no thread has anything left to do.
Quiescent ==
  /\ \A f \in Flows : (phase[f] = "idle" \/ Over(f)) /\ relay[f] # "serving"
  /\ ipc = "idle" /\ spc = "idle"
  /\ \A w \in Workers : wpc[w] = "recv"
  /\ life = "closed" \/ (queue_ = <<>> /\ \A i \in PoolIdx : ~in_use[i])
  /\ UNCHANGED vars

Next ==
  \/ KernelStep
  \/ StrandStep
  \/ \E w \in Workers : WorkerThread(w)
  \/ InjectorStep
  \/ RelayStep
  \/ CloseSocketLayer \/ StopParker \/ CloseNetworkLayer
  \/ Quiescent

Spec == Init /\ [][Next]_vars

\* The strand, every worker and the injector are threads that keep running and
\* the clock moves on; nothing is assumed of the applications or the relays.
Fairness ==
  /\ WF_vars(StrandStep) /\ WF_vars(InjectorStep)
  /\ \A w \in Workers : WF_vars(WorkerThread(w))
  /\ WF_vars(KernelStep /\ Pause(WatchdogWaits))

FairSpec == Spec /\ Fairness

\* Properties --------------------------------------------------------------

\* Who may hold a pool entry: a pending slot, a release request, or a worker
\* that allocated it and has not parked it yet.
Holds(w) == wpc[w] \in {"fill", "cas"}
Pending(p) == word[p].st = "pending"

\* What a reference to a pool entry promises: the entry is allocated, it holds
\* the SYN of that port and its generation is the one in the reference.
RefValid(i, g, p) ==
  /\ in_use[i] /\ HasPort(i) /\ eport(i) = p
  /\ g = gen[i] % WordGenMod

ReferencesValid ==
  /\ \A p \in Ports : Pending(p) => RefValid(word[p].idx, word[p].gen, p)
  /\ \A k \in DOMAIN queue_ : RefValid(queue_[k].idx, queue_[k].gen, queue_[k].port)
  /\ \A w \in Workers : Holds(w) => in_use[widx[w]]

OneHolder ==
  /\ \A p, q \in Ports : Pending(p) /\ Pending(q) /\ word[p].idx = word[q].idx => p = q
  /\ \A k, l \in DOMAIN queue_ : queue_[k].idx = queue_[l].idx => k = l
  /\ \A w, x \in Workers : Holds(w) /\ Holds(x) /\ widx[w] = widx[x] => w = x
  /\ \A p \in Ports, k \in DOMAIN queue_ : Pending(p) => word[p].idx # queue_[k].idx
  /\ \A p \in Ports, w \in Workers : Pending(p) /\ Holds(w) => word[p].idx # widx[w]
  /\ \A k \in DOMAIN queue_, w \in Workers : Holds(w) => queue_[k].idx # widx[w]

\* The CAS winner owns the pool index (port_tracker.hpp header): a pending slot
\* and a queued release refer to a live entry that holds the SYN of their port,
\* and no entry has two holders, so no SYN is sent twice or under the decision
\* of another port.
PoolOwnership == ReferencesValid /\ OneHolder

\* "pool_in_use must return to 0": an allocated entry always has a holder that
\* will free it.
NoLeak ==
  \A i \in PoolIdx : in_use[i] =>
    \/ \E p \in Ports : Pending(p) /\ word[p].idx = i
    \/ \E k \in DOMAIN queue_ : queue_[k].idx = i
    \/ \E w \in Workers : Holds(w) /\ widx[w] = i

\* A decision never lands on a flow that is already established the direct way
\* (syn_parker.hpp: "cannot hijack a flow that is already established").
NoHijack ==
  \A f \in Flows : phase[f] = "est" /\ wire[f] = "direct" => word[PortOf[f]].st # "proxied"

\* A flow established through the acceptor stays reflected, to its own remote
\* endpoint, until its relay is gone.
StaysReflected ==
  \A f \in Flows : phase[f] = "est" /\ wire[f] = "proxied" /\ relay[f] # "gone" =>
    word[PortOf[f]].st = "proxied" /\ entry[PortOf[f]] = RemoteOf[f]

\* A generation mismatch at release (which "must never happen") is never the
\* result of a race: it takes a generation the 24 bits of the word cannot hold.
MismatchOnlyByTruncation ==
  [][gen_mismatch' => gen_mismatch \/ \E i \in PoolIdx : gen[i] >= WordGenMod]_vars

\* A relay that ends late clears the decision its own flow was served under,
\* never the one published since for the next flow of the port
\* (port_tracker.hpp: "clear only if the slot still belongs to the flow the
\* relay served").
ClearsOwnDecision ==
  spc = "clear_cas" /\ CasWins(sport, sword) /\ sword.st \in {"proxied", "direct"}
    => entry[sport] = RemoteOf[sev.flow]

\* While clew runs every SYN an application emits is let out, unless the
\* application closes the socket first.
SynGetsOut ==
  \A f \in Flows : phase[f] = "syn" ~> wire[f] # "none" \/ phase[f] = "aborted" \/ life # "up"
=============================================================================
