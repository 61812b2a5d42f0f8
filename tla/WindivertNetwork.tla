-------------------------- MODULE WindivertNetwork --------------------------
(***************************************************************************)
(* core/windivert_network.hpp: handle_syn on the NETWORK worker threads,   *)
(* with SYN parking on.  The word, the auxiliary fields and the CAS are    *)
(* touched in separate steps.  Workers race each other for packets, so a   *)
(* worker may take any diverted SYN.                                       *)
(***************************************************************************)
EXTENDS SynParker

CONSTANTS
  Workers,      \* the worker threads
  Oversize      \* flows whose SYN may exceed syn_parker::MAX_PACKET

ASSUME OversizeAssumption == Oversize \subseteq Flows

VARIABLES
  wpc,          \* worker: "recv", "ttl", "park", "fill", "cas", "lost", "pin", "pincas"
  wpkt,         \* SYN being handled
  wword,        \* slot word loaded for it
  widx          \* pool entry allocated for it

workerVars == <<wpc, wpkt, wword, widx>>

NoPacket == [flow |-> None, ts |-> 0]

NetworkTypeOK ==
  /\ wpc \in [Workers -> {"recv", "ttl", "park", "fill", "cas", "lost", "pin", "pincas"}]
  /\ wpkt \in [Workers -> SynPacket \cup {NoPacket}]
  /\ \A w \in Workers : wpc[w] # "recv" => wpkt[w] # NoPacket
  /\ wword \in [Workers -> Word]
  /\ widx \in [Workers -> PoolIdx]

NetworkInit ==
  /\ wpc = [w \in Workers |-> "recv"]
  /\ wpkt = [w \in Workers |-> NoPacket]
  /\ wword = [w \in Workers |-> EMPTY_WORD]
  /\ widx = [w \in Workers |-> 0]

wflow(w) == wpkt[w].flow
wport(w) == PortOf[wflow(w)]
Goto(w, pc) == wpc' = [wpc EXCEPT ![w] = pc]

\* The SYN is dealt with: back to WinDivertRecv.
Done(w) ==
  /\ Goto(w, "recv")
  /\ wpkt' = [wpkt EXCEPT ![w] = NoPacket]
  /\ wword' = [wword EXCEPT ![w] = EMPTY_WORD]
  /\ widx' = [widx EXCEPT ![w] = 0]

\* act(): reflect for proxied, everything else passes through.
act(w, st) == SendSyn(wflow(w), wire_path(st))

\* worker_loop() receives a SYN, handle_syn() loads the slot.  A SYN whose
\* port is pending is a duplicate: the parked one covers the flow.
Receive(w, pkt) ==
  LET loaded == word[PortOf[pkt.flow]]
  IN /\ wpc[w] = "recv" /\ life # "closed" /\ pkt \in netq
     /\ netq' = netq \ {pkt}
     /\ \/ loaded.st = "pending" /\ Done(w)
        \/ /\ loaded.st # "pending"
           /\ Goto(w, IF loaded.st = "empty" THEN "park" ELSE "ttl")
           /\ wpkt' = [wpkt EXCEPT ![w] = pkt]
           /\ wword' = [wword EXCEPT ![w] = loaded]
           /\ UNCHANGED widx
     /\ UNCHANGED <<now, pauses, retransmits, phase, wire, syn_sent, sockq,
                    trackerVars, parkerVars>>

\* The decision is ours only if it is younger than the TTL ...
ActOnFresh(w) ==
  /\ wpc[w] = "ttl" /\ fresh(wport(w), wword[w].st, wpkt[w].ts)
  /\ note_syn(wport(w), wflow(w))
  /\ act(w, wword[w].st)
  /\ Done(w)
  /\ UNCHANGED <<word, connect_ts, pinned_ts, entry, parkerVars>>

\* ... or if this is a retransmission of the SYN it was used for ...
ActOnRetransmit(w) ==
  /\ wpc[w] = "ttl" /\ ~fresh(wport(w), wword[w].st, wpkt[w].ts)
  /\ is_retransmit(wport(w), wflow(w))
  /\ act(w, wword[w].st)
  /\ Done(w)
  /\ UNCHANGED <<trackerVars, parkerVars>>

\* ... else it is a leftover of another flow and the slot counts as empty.
TtlStale(w) ==
  /\ wpc[w] = "ttl" /\ ~fresh(wport(w), wword[w].st, wpkt[w].ts)
  /\ ~is_retransmit(wport(w), wflow(w))
  /\ Goto(w, "park")
  /\ UNCHANGED <<kernelVars, trackerVars, parkerVars, wpkt, wword, widx>>

\* A SYN too large for a pool entry passes through and leaves the slot alone.
PassOversize(w) ==
  /\ wpc[w] = "park" /\ wflow(w) \in Oversize
  /\ note_syn(wport(w), wflow(w))
  /\ SendSyn(wflow(w), "direct")
  /\ Done(w)
  /\ UNCHANGED <<word, connect_ts, pinned_ts, entry, parkerVars>>

\* park(): allocate; the entry still holds what its last owner left in it.
ParkAlloc(w, i) ==
  /\ wpc[w] = "park"
  /\ note_syn(wport(w), wflow(w))
  /\ alloc(i)
  /\ widx' = [widx EXCEPT ![w] = i]
  /\ Goto(w, "fill")
  /\ UNCHANGED <<kernelVars, word, connect_ts, pinned_ts, entry, gen, park_qpc,
                 syn_kernel_ts, eflow, queue_, gen_mismatch, life, injectorVars, wpkt, wword>>

ParkFull(w) ==
  /\ wpc[w] = "park" /\ Exhausted
  /\ note_syn(wport(w), wflow(w))
  /\ Goto(w, "pin")
  /\ UNCHANGED <<kernelVars, word, connect_ts, pinned_ts, entry, parkerVars,
                 wpkt, wword, widx>>

ParkFill(w) ==
  /\ wpc[w] = "fill"
  /\ eflow' = [eflow EXCEPT ![widx[w]] = wflow(w)]
  /\ syn_kernel_ts' = [syn_kernel_ts EXCEPT ![widx[w]] = wpkt[w].ts]
  /\ park_qpc' = [park_qpc EXCEPT ![widx[w]] = now]
  /\ Goto(w, "cas")
  /\ UNCHANGED <<kernelVars, trackerVars, in_use, gen, queue_, gen_mismatch, life,
                 injectorVars, wpkt, wword, widx>>

\* try_park()
TryPark(w) ==
  /\ wpc[w] = "cas" /\ CasWins(wport(w), wword[w])
  /\ SetWord(wport(w), pack_word("pending", gen[widx[w]], widx[w]))
  /\ Done(w)
  /\ UNCHANGED <<kernelVars, connect_ts, pinned_ts, entry, syn_seq, parkerVars>>

\* Mutant: the entry is not given back.
Mut_ParkCasLost(w) ==
  /\ wpc[w] = "cas" /\ ~CasWins(wport(w), wword[w])
  /\ Goto(w, "lost")
  /\ UNCHANGED <<kernelVars, trackerVars, parkerVars, wpkt, wword, widx>>

\* The slot changed since the load: give the entry back ...
ParkCasLost(w) ==
  /\ wpc[w] = "cas" /\ ~CasWins(wport(w), wword[w])
  /\ free(widx[w])
  /\ Goto(w, "lost")
  /\ UNCHANGED <<kernelVars, trackerVars, park_qpc, syn_kernel_ts, eflow, queue_,
                 gen_mismatch, life, injectorVars, wpkt, wword, widx>>

\* ... and act on whatever the slot says now.
ActOnReload(w) ==
  /\ wpc[w] = "lost"
  /\ act(w, word[wport(w)].st)
  /\ Done(w)
  /\ UNCHANGED <<trackerVars, parkerVars>>

\* Pool exhausted: pin_abandoned() writes pinned_ts, CASes, and the SYN passes
\* through whether or not the CAS won.
PinFull(w) ==
  /\ wpc[w] = "pin"
  /\ pinned_ts' = [pinned_ts EXCEPT ![wport(w)] = wpkt[w].ts]
  /\ Goto(w, "pincas")
  /\ UNCHANGED <<kernelVars, word, connect_ts, entry, syn_seq, parkerVars,
                 wpkt, wword, widx>>

PassFull(w) ==
  /\ wpc[w] = "pincas"
  /\ IF CasWins(wport(w), wword[w]) THEN SetWord(wport(w), decided_word("abandoned"))
                                    ELSE UNCHANGED word
  /\ SendSyn(wflow(w), "direct")
  /\ Done(w)
  /\ UNCHANGED <<connect_ts, pinned_ts, entry, syn_seq, parkerVars>>

WorkerStep(w) ==
  \/ ActOnFresh(w) \/ ActOnRetransmit(w) \/ TtlStale(w)
  \/ PassOversize(w)
  \/ \E i \in PoolIdx : ParkAlloc(w, i)
  \/ ParkFill(w) \/ TryPark(w)
  \/ ParkCasLost(w) \/ ActOnReload(w)
  \/ ParkFull(w) \/ PinFull(w) \/ PassFull(w)

WorkerNext(w) == (\E pkt \in netq : Receive(w, pkt)) \/ WorkerStep(w)
=============================================================================
