-------------------------- MODULE SynParkingProofs --------------------------
(***************************************************************************)
(* SynParking, for every value of the constants.  First TypeOK and         *)
(* PoolOwnership, proved together (IInv): an entry is typed well enough to *)
(* be sent only because whoever sends it owns it.  Then, over one flow per *)
(* port, NoHijack (DecisionInv: what is still to come cannot make a        *)
(* direct flow proxied), StaysReflected (ReflectionInv: what is still to   *)
(* come cannot take a reflected flow's slot away) and NoLeak.  Last, over  *)
(* flows that share ports, ClearsOwnDecision (TurnInv: a port has one user *)
(* at a time, and the time of a decision tells whose it is).               *)
(***************************************************************************)
EXTENDS SynParking, SequenceTheorems, TLAPS

\* A worker gets past Receive only with a slot that is not pending, and by the
\* time it CASes, its own packet is in its own entry.
WorkerInv ==
  \A w \in Workers :
    /\ wword[w].st # "pending"
    /\ wpc[w] = "cas" => eflow[widx[w]] = wflow(w)

\* Between its load and its CAS the sweep knows a pending word of its entry.
InjectorInv ==
  /\ ipc = "pin" => HasPort(iidx)
  /\ ipc \in {"pin", "cas"} => iword.st = "pending" /\ iword.idx = iidx
  /\ ipc = "cas" => iport \in Ports

IInv == TypeOK /\ PoolOwnership /\ WorkerInv /\ InjectorInv

-----------------------------------------------------------------------------
\* Words and generations.

\* A reduced generation fits the word, and the entry, it is stored in.
LEMMA GenMod ==
  ASSUME NEW n \in Nat PROVE /\ n % WordGenMod \in 0 .. (WordGenMod - 1)
                             /\ n % PoolGenMod \in 0 .. (PoolGenMod - 1)
BY TrackerAssumption, ParkerAssumption

\* A decided word is typed and names no pool entry.
LEMMA DecidedWordType ==
  ASSUME NEW st \in SlotState \ {"pending"}
  PROVE  decided_word(st) \in Word /\ decided_word(st).st # "pending"
BY DEF decided_word, Word

\* The empty word is a decided word as far as references go.
LEMMA EmptyWordType == EMPTY_WORD \in Word /\ EMPTY_WORD.st # "pending"
BY DecidedWordType DEF EMPTY_WORD, SlotState

\* What try_park() packs, field by field.
LEMMA PendingWordType ==
  ASSUME NEW g \in Nat, NEW i \in PoolIdx
  PROVE  /\ pack_word("pending", g, i) \in Word
         /\ pack_word("pending", g, i) = [st |-> "pending", gen |-> g % WordGenMod, idx |-> i]
BY GenMod DEF pack_word, Word, PendingWord

\* A pending word names an entry of the pool.
LEMMA PendingFields ==
  ASSUME NEW w \in Word, w.st = "pending"
  PROVE  w.idx \in PoolIdx /\ w.gen \in 0 .. (WordGenMod - 1)
BY DEF Word, PendingWord, decided_word

-----------------------------------------------------------------------------
\* The initial states.

\* The initial state is typed.
LEMMA InitType == Init => TypeOK
<1> SUFFICES ASSUME Init PROVE TypeOK OBVIOUS
<1> USE DEF Init
<1>1. KernelTypeOK BY DEF KernelInit, KernelTypeOK
<1>2. TrackerTypeOK BY EmptyWordType DEF TrackerInit, TrackerTypeOK
<1>3. ParkerTypeOK
  <2>1. /\ 1 % PoolGenMod \in 0 .. (PoolGenMod - 1)
        /\ 0 \in PoolIdx
    BY GenMod, TrackerAssumption DEF PoolIdx
  <2> QED BY <2>1, EmptyWordType DEF ParkerInit, ParkerTypeOK
<1>4. SocketTypeOK BY EmptyWordType DEF SocketInit, SocketTypeOK
<1>5. NetworkTypeOK
  BY EmptyWordType, TrackerAssumption DEF NetworkInit, NetworkTypeOK, NoPacket, PoolIdx
<1>6. RelayTypeOK BY DEF RelayInit, RelayTypeOK
<1> QED BY <1>1, <1>2, <1>3, <1>4, <1>5, <1>6 DEF TypeOK

\* Nothing refers to an entry of the empty pool.
LEMMA InitIInv == Init => IInv
<1> SUFFICES ASSUME Init PROVE IInv OBVIOUS
<1> USE DEF Init
<1>1. PoolOwnership
  BY EmptyWordType DEF TrackerInit, ParkerInit, NetworkInit, PoolOwnership, ReferencesValid,
                       OneHolder, Pending, Holds
<1>2. WorkerInv BY EmptyWordType DEF NetworkInit, WorkerInv
<1>3. InjectorInv BY DEF ParkerInit, InjectorInv
<1> QED BY <1>1, <1>2, <1>3, InitType DEF IInv

-----------------------------------------------------------------------------
\* Steps that leave the pool and its references alone.

\* What a step leaves alone keeps its type.
LEMMA FrameTypes ==
  ASSUME TypeOK
  PROVE  /\ UNCHANGED kernelVars => KernelTypeOK'
         /\ UNCHANGED trackerVars => TrackerTypeOK'
         /\ UNCHANGED parkerVars => ParkerTypeOK'
         /\ UNCHANGED socketVars => SocketTypeOK'
         /\ UNCHANGED workerVars => NetworkTypeOK'
         /\ UNCHANGED relayVars => RelayTypeOK'
<1> USE DEF TypeOK
<1>1. UNCHANGED kernelVars => KernelTypeOK' BY DEF kernelVars, KernelTypeOK
<1>2. UNCHANGED trackerVars => TrackerTypeOK' BY DEF trackerVars, TrackerTypeOK
<1>3. UNCHANGED parkerVars => ParkerTypeOK'
  BY DEF parkerVars, poolVars, injectorVars, ParkerTypeOK
<1>4. UNCHANGED socketVars => SocketTypeOK' BY DEF socketVars, SocketTypeOK
<1>5. UNCHANGED workerVars => NetworkTypeOK' BY DEF workerVars, NetworkTypeOK
<1>6. UNCHANGED relayVars => RelayTypeOK' BY DEF relayVars, RelayTypeOK
<1> QED BY <1>1, <1>2, <1>3, <1>4, <1>5, <1>6

\* An event of a typed queue is typed, and so is the queue with one appended.
LEMMA EventQueue ==
  ASSUME KernelTypeOK,
         NEW k \in {"connect", "close", "echo"}, NEW f \in Flows, NEW t \in Nat
  PROVE  Append(sockq, [kind |-> k, flow |-> f, ts |-> t]) \in Seq(SockEvent)
<1>1. [kind |-> k, flow |-> f, ts |-> t] \in SockEvent BY DEF SockEvent
<1> QED BY <1>1, AppendProperties DEF KernelTypeOK

\* WinDivertSend of a flow's SYN, with or without an echo.
LEMMA SendSynType ==
  ASSUME KernelTypeOK, NEW f \in Flows, NEW path \in {"direct", "proxied"}, SendSyn(f, path)
  PROVE  KernelTypeOK'
<1>1. wire' \in [Flows -> {"none", "direct", "proxied"}] BY DEF SendSyn, KernelTypeOK
<1>2. sockq' \in Seq(SockEvent)
  <2>1. CASE path \in EchoPaths
    <3>1. ECHO_TS \in Nat BY DEF ECHO_TS, KernelTypeOK
    <3> QED BY <2>1, <3>1, EventQueue DEF SendSyn
  <2>2. CASE path \notin EchoPaths BY <2>2 DEF SendSyn, KernelTypeOK
  <2> QED BY <2>1, <2>2
<1> QED BY <1>1, <1>2 DEF SendSyn, KernelTypeOK

\* A decision sends a SYN one of two ways.
LEMMA WirePath ==
  ASSUME NEW st PROVE wire_path(st) \in {"direct", "proxied"}
BY DEF wire_path

\* The stack and the applications keep the types.
LEMMA KernelStepType ==
  ASSUME TypeOK, KernelStep PROVE TypeOK'
<1> USE DEF TypeOK
<1>0. /\ CONNECT_TS \in Nat /\ SYN_TS \in Nat /\ CLOSE_TS \in Nat /\ CLOSE_TS + 1 \in Nat
      /\ now + PauseLen \in Nat
  BY FlowAssumption DEF KernelTypeOK, CONNECT_TS, SYN_TS, CLOSE_TS
<1>1. KernelTypeOK'
  <2>1. ASSUME NEW f \in Flows, AppConnect(f) PROVE KernelTypeOK'
    <3>1. sockq' \in Seq(SockEvent)
      BY <2>1, <1>0, EventQueue DEF AppConnect, KernelTypeOK
    <3>2. netq' \subseteq SynPacket BY <2>1, <1>0 DEF AppConnect, KernelTypeOK, SynPacket
    <3> QED BY <2>1, <3>1, <3>2, <1>0 DEF AppConnect, KernelTypeOK
  <2>2. ASSUME NEW f \in Flows, SynRetransmit(f) PROVE KernelTypeOK'
    <3>1. netq' \subseteq SynPacket BY <2>2, <1>0 DEF SynRetransmit, KernelTypeOK, SynPacket
    <3> QED BY <2>2, <3>1, <1>0 DEF SynRetransmit, KernelTypeOK
  <2>3. ASSUME NEW f \in Flows, Establish(f) PROVE KernelTypeOK'
    BY <2>3 DEF Establish, KernelTypeOK
  <2>4. ASSUME NEW f \in Flows, AppClose(f) PROVE KernelTypeOK'
    <3>1. sockq' \in Seq(SockEvent) BY <2>4, <1>0, EventQueue DEF AppClose
    <3> QED BY <2>4, <3>1, <1>0 DEF AppClose, KernelTypeOK
  <2>5. ASSUME NEW due, Pause(due) PROVE KernelTypeOK'
    BY <2>5, <1>0 DEF Pause, KernelTypeOK
  <2> QED BY <2>1, <2>2, <2>3, <2>4, <2>5 DEF KernelStep
<1> QED BY <1>1, FrameTypes DEF KernelStep

\* Shutdown steps and quiescence.
LEMMA SetLifeType ==
  ASSUME TypeOK, NEW from,
         NEW to \in {"up", "socket_closed", "draining", "sweeping", "stopped", "closed"},
         SetLife(from, to)
  PROVE  TypeOK'
<1>1. ParkerTypeOK' BY DEF TypeOK, SetLife, poolVars, injectorVars, ParkerTypeOK
<1> QED BY <1>1, FrameTypes DEF TypeOK, SetLife

\* The relays keep the types.
LEMMA RelayStepType ==
  ASSUME TypeOK, RelayStep PROVE TypeOK'
<1> USE DEF TypeOK
<1>0. PICK f \in Flows : RelayAccept(f) \/ RelayRefuse(f) \/ RelayEnd(f)
  BY DEF RelayStep, RelayNext
<1>1. CASE RelayAccept(f)
  <2>1. rport(f) \in Ports BY FlowAssumption DEF rport
  <2>2. RelayTypeOK' BY <1>1, <2>1 DEF RelayAccept, RelayTypeOK, TrackerTypeOK
  <2> QED BY <1>1, <2>2, FrameTypes DEF RelayAccept, RelayStep
<1>2. CASE RelayRefuse(f)
  <2>1. RelayTypeOK' BY <1>2 DEF RelayRefuse, RelayTypeOK
  <2> QED BY <1>2, <2>1, FrameTypes DEF RelayRefuse, RelayStep
<1>3. CASE RelayEnd(f)
  <2>1. RelayTypeOK' BY <1>3 DEF RelayEnd, RelayTypeOK
  <2>2. [flow |-> f, ts |-> flow_ts[f]] \in ClearReq BY DEF RelayTypeOK, ClearReq
  <2>3. SocketTypeOK' BY <1>3, <2>2 DEF RelayEnd, SocketTypeOK
  <2> QED BY <1>3, <2>1, <2>3, FrameTypes DEF RelayEnd, RelayStep
<1> QED BY <1>0, <1>1, <1>2, <1>3

\* A queued release request is a release request.
LEMMA QueueElement ==
  ASSUME ParkerTypeOK, NEW k \in DOMAIN queue_ PROVE queue_[k] \in ReleaseReq
<1>1. queue_ \in Seq(ReleaseReq) BY DEF ParkerTypeOK
<1> QED BY <1>1, ElementOfSeq, LenProperties

-----------------------------------------------------------------------------
\* Ownership is about these variables only, and losing a holder cannot break it.

\* Nothing moves and no worker becomes a holder.
LEMMA OwnershipFrame ==
  ASSUME PoolOwnership, UNCHANGED <<word, in_use, gen, eflow, queue_>>,
         \A w \in Workers : Holds(w)' => Holds(w) /\ widx'[w] = widx[w]
  PROVE  PoolOwnership'
<1>1. ReferencesValid'
  BY DEF PoolOwnership, ReferencesValid, Pending, RefValid, HasPort, eport
<1>2. OneHolder'
  BY DEF PoolOwnership, OneHolder, Pending
<1> QED BY <1>1, <1>2 DEF PoolOwnership

\* WorkerInv is about the workers and what the entries hold.
LEMMA WorkerFrame ==
  ASSUME WorkerInv, UNCHANGED <<workerVars, eflow>> PROVE WorkerInv'
BY DEF WorkerInv, workerVars, wflow

\* InjectorInv is about the sweep and what the entries hold.
LEMMA InjectorFrame ==
  ASSUME InjectorInv, UNCHANGED <<injectorVars, eflow>> PROVE InjectorInv'
BY DEF InjectorInv, injectorVars, HasPort

\* A step that moves none of the variables ownership is about.
LEMMA QuietStep ==
  ASSUME IInv, TypeOK',
         UNCHANGED <<word, in_use, gen, eflow, queue_, injectorVars, workerVars>>
  PROVE  IInv'
<1>1. PoolOwnership' BY OwnershipFrame DEF IInv, workerVars, Holds
<1>2. WorkerInv' /\ InjectorInv' BY WorkerFrame, InjectorFrame DEF IInv
<1> QED BY <1>1, <1>2 DEF IInv

\* The stack and the applications never touch the pool.
LEMMA KernelStepIInv == ASSUME IInv, KernelStep PROVE IInv'
<1>1. TypeOK' BY KernelStepType DEF IInv
<1> QED BY <1>1, QuietStep DEF KernelStep, trackerVars, parkerVars, poolVars

\* The relays never touch the pool: they only ask for a clear.
LEMMA RelayStepIInv == ASSUME IInv, RelayStep PROVE IInv'
<1>1. TypeOK' BY RelayStepType DEF IInv
<1>2. UNCHANGED <<trackerVars, parkerVars, workerVars>>
  BY DEF RelayStep, RelayNext, RelayAccept, RelayRefuse, RelayEnd
<1> QED BY <1>1, <1>2, QuietStep DEF trackerVars, parkerVars, poolVars

\* The shutdown steps only move life.
LEMMA LifeStepIInv ==
  ASSUME IInv, CloseSocketLayer \/ StopParker \/ CloseNetworkLayer PROVE IInv'
<1>0. PICK from, to \in {"up", "socket_closed", "draining", "sweeping", "stopped", "closed"} :
        SetLife(from, to)
  BY DEF CloseSocketLayer, StopParker, CloseNetworkLayer
<1>1. TypeOK' BY <1>0, SetLifeType DEF IInv
<1> QED BY <1>0, <1>1, QuietStep DEF SetLife, trackerVars, poolVars

\* The entry of a word or a request that holds a reference to it is given up:
\* whoever held entry i was the only one, and nobody holds it now.
LEMMA FreeEntry ==
  ASSUME IInv, NEW i \in PoolIdx, free(i), eflow' = eflow,
         \A p \in Ports : Pending(p)' => Pending(p) /\ word'[p] = word[p] /\ word[p].idx # i,
         \A k \in DOMAIN queue_' : \E l \in DOMAIN queue_ :
            queue_'[k] = queue_[l] /\ queue_[l].idx # i,
         \A k, l \in DOMAIN queue_' : queue_'[k].idx = queue_'[l].idx => k = l,
         \A w \in Workers : Holds(w)' => Holds(w) /\ widx'[w] = widx[w] /\ widx[w] # i
  PROVE  PoolOwnership'
<1> USE DEF IInv, PoolOwnership
<1>1. \A j \in PoolIdx : j # i => in_use'[j] = in_use[j] /\ gen'[j] = gen[j]
  BY DEF free, TypeOK, ParkerTypeOK
<1>2. ReferencesValid'
  <2>1. \A p \in Ports : Pending(p)' => RefValid(word[p].idx, word[p].gen, p)'
    <3> SUFFICES ASSUME NEW p \in Ports, Pending(p)' PROVE RefValid(word[p].idx, word[p].gen, p)'
      OBVIOUS
    <3>1. word[p].idx \in PoolIdx /\ RefValid(word[p].idx, word[p].gen, p) /\ word[p].idx # i
      BY PendingFields DEF ReferencesValid, Pending, TypeOK, TrackerTypeOK
    <3> QED BY <3>1, <1>1 DEF RefValid, HasPort, eport
  <2>2. \A k \in DOMAIN queue_' : RefValid(queue_[k].idx, queue_[k].gen, queue_[k].port)'
    <3> SUFFICES ASSUME NEW k \in DOMAIN queue_'
                 PROVE  RefValid(queue_[k].idx, queue_[k].gen, queue_[k].port)'
      OBVIOUS
    <3>1. PICK l \in DOMAIN queue_ : queue_'[k] = queue_[l] /\ queue_[l].idx # i OBVIOUS
    <3>2. queue_[l].idx \in PoolIdx BY <3>1, QueueElement DEF TypeOK, ReleaseReq
    <3> QED BY <3>1, <3>2, <1>1 DEF ReferencesValid, RefValid, HasPort, eport
  <2>3. \A w \in Workers : Holds(w)' => in_use'[widx'[w]]
    BY <1>1 DEF ReferencesValid, TypeOK, NetworkTypeOK
  <2> QED BY <2>1, <2>2, <2>3 DEF ReferencesValid
<1>3. OneHolder'
  BY DEF OneHolder
<1> QED BY <1>2, <1>3

-----------------------------------------------------------------------------
\* The worker threads.

\* A worker past Receive has a packet of a flow on a port.
LEMMA WorkerPacket ==
  ASSUME TypeOK, NEW w \in Workers, wpc[w] # "recv"
  PROVE  wflow(w) \in Flows /\ wport(w) \in Ports /\ wpkt[w].ts \in Nat
BY FlowAssumption DEF TypeOK, NetworkTypeOK, SynPacket, wflow, wport

\* A worker that is done is back in its initial state.
LEMMA DoneType ==
  ASSUME NetworkTypeOK, NEW w \in Workers, Done(w) PROVE NetworkTypeOK'
BY EmptyWordType, TrackerAssumption DEF NetworkTypeOK, Done, Goto, PoolIdx

\* A worker that goes on keeps its packet and its word.
LEMMA GotoType ==
  ASSUME NetworkTypeOK, NEW w \in Workers, wpc[w] # "recv", UNCHANGED <<wpkt, wword>>,
         NEW pc \in {"park", "fill", "cas", "lost", "pin", "pincas"}, Goto(w, pc),
         widx' \in [Workers -> PoolIdx]
  PROVE  NetworkTypeOK'
BY DEF NetworkTypeOK, Goto

\* note_syn() writes a flow.
LEMMA NoteSynType ==
  ASSUME TrackerTypeOK, NEW p \in Ports, NEW f \in Flows, note_syn(p, f)
  PROVE  syn_seq' \in [Ports -> Flows \cup {None}]
BY DEF TrackerTypeOK, note_syn

\* A won CAS writes a word.
LEMMA SetWordType ==
  ASSUME TrackerTypeOK, NEW p \in Ports, NEW v \in Word, SetWord(p, v)
  PROVE  word' \in [Ports -> Word]
BY DEF TrackerTypeOK, SetWord

\* free() keeps the pool typed.
LEMMA FreeType ==
  ASSUME ParkerTypeOK, NEW i \in PoolIdx, free(i)
  PROVE  /\ in_use' \in [PoolIdx -> BOOLEAN]
         /\ gen' \in [PoolIdx -> 0 .. (PoolGenMod - 1)]
<1>1. gen[i] + 1 \in Nat BY ParkerAssumption DEF ParkerTypeOK
<1>2. (gen[i] + 1) % PoolGenMod \in 0 .. (PoolGenMod - 1) BY <1>1, GenMod
<1> QED BY <1>2 DEF ParkerTypeOK, free

\* Receive keeps the types.
LEMMA ReceiveType ==
  ASSUME TypeOK, NEW w \in Workers, NEW pkt \in netq, Receive(w, pkt),
         UNCHANGED <<socketVars, relayVars>>
  PROVE  TypeOK'
<1> USE DEF TypeOK
<1>0. pkt \in SynPacket /\ PortOf[pkt.flow] \in Ports
  BY FlowAssumption DEF KernelTypeOK, SynPacket
<1>1. KernelTypeOK' BY DEF Receive, KernelTypeOK
<1>2. NetworkTypeOK'
  <2>1. CASE Done(w) BY <2>1, DoneType
  <2>2. CASE ~Done(w)
    BY <2>2, <1>0, TrackerAssumption DEF Receive, NetworkTypeOK, TrackerTypeOK, Goto, SynPacket, NoPacket
  <2> QED BY <2>1, <2>2
<1> QED BY <1>1, <1>2, FrameTypes DEF Receive

\* Every later step of handle_syn() keeps the types.
LEMMA WorkerStepType ==
  ASSUME TypeOK, NEW w \in Workers, WorkerStep(w), UNCHANGED <<socketVars, relayVars>>
  PROVE  TypeOK'
<1> USE DEF TypeOK
<1>0. wpc[w] # "recv"
  BY DEF WorkerStep, ActOnFresh, ActOnRetransmit, TtlStale, PassOversize, ParkAlloc, ParkFill,
         TryPark, ParkCasLost, ActOnReload, ParkFull, PinFull, PassFull
<1> DEFINE f == wflow(w)
           p == wport(w)
<1>p. f \in Flows /\ p \in Ports /\ wpkt[w].ts \in Nat BY <1>0, WorkerPacket
<1> HIDE DEF f, p
<1>1. CASE ActOnFresh(w)
  <2>1. KernelTypeOK' BY <1>1, <1>p, SendSynType, WirePath DEF ActOnFresh, act, f
  <2>2. TrackerTypeOK' BY <1>1, <1>p, NoteSynType DEF ActOnFresh, TrackerTypeOK, f, p
  <2> QED BY <1>1, <2>1, <2>2, DoneType, FrameTypes DEF ActOnFresh
<1>2. CASE ActOnRetransmit(w)
  <2>1. KernelTypeOK' BY <1>2, <1>p, SendSynType, WirePath DEF ActOnRetransmit, act, f
  <2> QED BY <1>2, <2>1, DoneType, FrameTypes DEF ActOnRetransmit
<1>3. CASE TtlStale(w)
  BY <1>3, <1>0, GotoType, FrameTypes DEF TtlStale, NetworkTypeOK
<1>4. CASE PassOversize(w)
  <2>1. KernelTypeOK' BY <1>4, <1>p, SendSynType DEF PassOversize, f
  <2>2. TrackerTypeOK' BY <1>4, <1>p, NoteSynType DEF PassOversize, TrackerTypeOK, f, p
  <2> QED BY <1>4, <2>1, <2>2, DoneType, FrameTypes DEF PassOversize
<1>5. ASSUME NEW i \in PoolIdx, ParkAlloc(w, i) PROVE TypeOK'
  <2>1. TrackerTypeOK' BY <1>5, <1>p, NoteSynType DEF ParkAlloc, TrackerTypeOK, f, p
  <2>2. ParkerTypeOK' BY <1>5 DEF ParkAlloc, alloc, ParkerTypeOK, injectorVars
  <2>3. widx' \in [Workers -> PoolIdx] BY <1>5 DEF ParkAlloc, NetworkTypeOK
  <2>4. NetworkTypeOK' BY <1>5, <1>0, <2>3, GotoType DEF ParkAlloc
  <2> QED BY <1>5, <2>1, <2>2, <2>4, FrameTypes DEF ParkAlloc
<1>6. CASE ParkFill(w)
  <2>1. ParkerTypeOK'
    BY <1>6, <1>p DEF ParkFill, ParkerTypeOK, KernelTypeOK, injectorVars, f
  <2>2. NetworkTypeOK' BY <1>6, <1>0, GotoType DEF ParkFill, NetworkTypeOK
  <2> QED BY <1>6, <2>1, <2>2, FrameTypes DEF ParkFill
<1>7. CASE TryPark(w)
  <2>1. pack_word("pending", gen[widx[w]], widx[w]) \in Word
    BY PendingWordType, ParkerAssumption DEF NetworkTypeOK, ParkerTypeOK
  <2>2. TrackerTypeOK' BY <1>7, <1>p, <2>1, SetWordType DEF TryPark, TrackerTypeOK, p
  <2> QED BY <1>7, <2>2, DoneType, FrameTypes DEF TryPark
<1>8. CASE ParkCasLost(w)
  <2>1. widx[w] \in PoolIdx BY DEF NetworkTypeOK
  <2>2. ParkerTypeOK' BY <1>8, <2>1, FreeType DEF ParkCasLost, ParkerTypeOK, injectorVars
  <2>3. NetworkTypeOK' BY <1>8, <1>0, GotoType DEF ParkCasLost, NetworkTypeOK
  <2> QED BY <1>8, <2>2, <2>3, FrameTypes DEF ParkCasLost
<1>9. CASE ActOnReload(w)
  <2>1. KernelTypeOK' BY <1>9, <1>p, SendSynType, WirePath DEF ActOnReload, act, f
  <2> QED BY <1>9, <2>1, DoneType, FrameTypes DEF ActOnReload
<1>10. CASE ParkFull(w)
  <2>1. TrackerTypeOK' BY <1>10, <1>p, NoteSynType DEF ParkFull, TrackerTypeOK, f, p
  <2>2. NetworkTypeOK' BY <1>10, <1>0, GotoType DEF ParkFull, NetworkTypeOK
  <2> QED BY <1>10, <2>1, <2>2, FrameTypes DEF ParkFull
<1>11. CASE PinFull(w)
  <2>1. TrackerTypeOK' BY <1>11, <1>p DEF PinFull, TrackerTypeOK, p
  <2>2. NetworkTypeOK' BY <1>11, <1>0, GotoType DEF PinFull, NetworkTypeOK
  <2> QED BY <1>11, <2>1, <2>2, FrameTypes DEF PinFull
<1>12. CASE PassFull(w)
  <2>1. KernelTypeOK' BY <1>12, <1>p, SendSynType DEF PassFull, f
  <2>2. word' \in [Ports -> Word]
    BY <1>12, <1>p, DecidedWordType, SetWordType DEF PassFull, SlotState, TrackerTypeOK, p
  <2>3. TrackerTypeOK' BY <1>12, <2>2 DEF PassFull, TrackerTypeOK
  <2> QED BY <1>12, <2>1, <2>3, DoneType, FrameTypes DEF PassFull
<1> QED BY <1>1, <1>2, <1>3, <1>4, <1>5, <1>6, <1>7, <1>8, <1>9, <1>10, <1>11, <1>12 DEF WorkerStep

-----------------------------------------------------------------------------
\* A worker's step keeps the pool owned.

\* Only worker w's locals may move.
OthersKeep(w) ==
  \A x \in Workers \ {w} :
    wpc'[x] = wpc[x] /\ wpkt'[x] = wpkt[x] /\ wword'[x] = wword[x] /\ widx'[x] = widx[x]

\* A worker that is done holds nothing, and no other worker moved.
LEMMA DoneEffect ==
  ASSUME NetworkTypeOK, NEW w \in Workers, Done(w)
  PROVE  OthersKeep(w) /\ wpc'[w] = "recv" /\ wword'[w].st # "pending"
BY EmptyWordType DEF NetworkTypeOK, Done, Goto, OthersKeep

\* The worker goes on without touching the pool or the word.
LEMMA QuietWorker ==
  ASSUME IInv, TypeOK', NEW w \in Workers, OthersKeep(w),
         wpc'[w] \notin {"fill", "cas"}, wword'[w].st # "pending",
         UNCHANGED <<word, in_use, gen, eflow, queue_, injectorVars>>
  PROVE  IInv'
<1>1. PoolOwnership' BY OwnershipFrame DEF IInv, OthersKeep, Holds
<1>2. WorkerInv' BY DEF IInv, WorkerInv, OthersKeep, wflow
<1> QED BY <1>1, <1>2, InjectorFrame DEF IInv

\* Receive takes no entry, and keeps no pending word.
LEMMA ReceiveIInv ==
  ASSUME IInv, NEW w \in Workers, NEW pkt \in netq, Receive(w, pkt),
         UNCHANGED <<socketVars, relayVars>>
  PROVE  IInv'
<1>0. TypeOK' BY ReceiveType DEF IInv
<1>1. OthersKeep(w) /\ wpc'[w] \notin {"fill", "cas"} /\ wword'[w].st # "pending"
  <2>1. CASE Done(w) BY <2>1, DoneEffect DEF IInv, TypeOK
  <2>2. CASE ~Done(w) BY <2>2 DEF Receive, Goto, OthersKeep, IInv, TypeOK, NetworkTypeOK
  <2> QED BY <2>1, <2>2
<1> QED BY <1>0, <1>1, QuietWorker DEF Receive, trackerVars, parkerVars, poolVars

\* Steps of a worker that owns no entry and takes none.
LEMMA QuietWorkerStep ==
  ASSUME IInv, TypeOK', NEW w \in Workers,
         \/ ActOnFresh(w) \/ ActOnRetransmit(w) \/ TtlStale(w) \/ PassOversize(w)
         \/ ActOnReload(w) \/ ParkFull(w) \/ PinFull(w)
  PROVE  IInv'
<1> USE DEF IInv, TypeOK
<1>1. CASE ActOnFresh(w) \/ ActOnRetransmit(w) \/ PassOversize(w) \/ ActOnReload(w)
  <2>1. Done(w) /\ UNCHANGED <<word, parkerVars>>
    BY <1>1 DEF ActOnFresh, ActOnRetransmit, PassOversize, ActOnReload, trackerVars
  <2>2. OthersKeep(w) /\ wpc'[w] = "recv" /\ wword'[w].st # "pending" BY <2>1, DoneEffect
  <2> QED BY <2>1, <2>2, QuietWorker DEF parkerVars, poolVars
<1>2. CASE TtlStale(w) \/ ParkFull(w) \/ PinFull(w)
  <2>1. /\ Goto(w, "park") \/ Goto(w, "pin") \/ Goto(w, "pincas")
        /\ UNCHANGED <<word, parkerVars, wpkt, wword, widx>>
    BY <1>2 DEF TtlStale, ParkFull, PinFull, trackerVars
  <2>2. OthersKeep(w) /\ wpc'[w] \notin {"fill", "cas"} /\ wword'[w].st # "pending"
    BY <2>1 DEF Goto, OthersKeep, WorkerInv, NetworkTypeOK
  <2> QED BY <2>1, <2>2, QuietWorker DEF parkerVars, poolVars
<1> QED BY <1>1, <1>2

\* A fresh entry had no holder, so its new one is its only one.
LEMMA ParkAllocIInv ==
  ASSUME IInv, TypeOK', NEW w \in Workers, NEW i \in PoolIdx, ParkAlloc(w, i) PROVE IInv'
<1> USE DEF IInv
<1>1. /\ ~in_use[i] /\ in_use' = [in_use EXCEPT ![i] = TRUE]
      /\ widx' = [widx EXCEPT ![w] = i] /\ wpc' = [wpc EXCEPT ![w] = "fill"]
      /\ UNCHANGED <<word, gen, eflow, queue_, injectorVars, wpkt, wword>>
  BY DEF ParkAlloc, alloc, Goto
<1>2. /\ widx'[w] = i /\ in_use'[i]
      /\ \A j \in PoolIdx : j # i => in_use'[j] = in_use[j]
      /\ \A x \in Workers \ {w} : widx'[x] = widx[x] /\ wpc'[x] = wpc[x]
  BY <1>1 DEF TypeOK, NetworkTypeOK, ParkerTypeOK
<1>3. /\ \A p \in Ports : Pending(p) => word[p].idx \in PoolIdx /\ word[p].idx # i
      /\ \A k \in DOMAIN queue_ : queue_[k].idx \in PoolIdx /\ queue_[k].idx # i
      /\ \A x \in Workers : Holds(x) => widx[x] \in PoolIdx /\ widx[x] # i
  <2>1. \A p \in Ports : Pending(p) => word[p].idx \in PoolIdx
    BY PendingFields DEF Pending, TypeOK, TrackerTypeOK
  <2>2. \A k \in DOMAIN queue_ : queue_[k].idx \in PoolIdx BY QueueElement DEF TypeOK, ReleaseReq
  <2> QED BY <1>1, <2>1, <2>2 DEF PoolOwnership, ReferencesValid, RefValid, TypeOK, NetworkTypeOK
<1>4. ReferencesValid'
  BY <1>1, <1>2, <1>3 DEF PoolOwnership, ReferencesValid, RefValid, Pending, Holds, HasPort, eport
<1>5. OneHolder'
  BY <1>1, <1>2, <1>3 DEF PoolOwnership, OneHolder, Pending, Holds
<1>6. WorkerInv'
  BY <1>1, <1>2 DEF WorkerInv, wflow, TypeOK, NetworkTypeOK
<1> QED BY <1>1, <1>4, <1>5, <1>6, InjectorFrame DEF PoolOwnership

\* What a worker writes into its entry nobody else refers to.
LEMMA ParkFillIInv ==
  ASSUME IInv, TypeOK', NEW w \in Workers, ParkFill(w) PROVE IInv'
<1> USE DEF IInv
<1> DEFINE i == widx[w]
<1>0. i \in PoolIdx /\ wpc[w] = "fill" /\ wflow(w) \in Flows
  BY WorkerPacket DEF ParkFill, TypeOK, NetworkTypeOK
<1>1. /\ eflow' = [eflow EXCEPT ![i] = wflow(w)] /\ wpc' = [wpc EXCEPT ![w] = "cas"]
      /\ UNCHANGED <<word, in_use, gen, queue_, injectorVars, wpkt, wword, widx>>
  BY DEF ParkFill, Goto, trackerVars
<1> HIDE DEF i
<1>2. /\ eflow'[i] = wflow(w) /\ \A j \in PoolIdx : j # i => eflow'[j] = eflow[j]
      /\ \A x \in Workers : Holds(x)' <=> Holds(x)
      /\ \A x \in Workers : wpc'[x] = "cas" => x = w \/ wpc[x] = "cas"
  BY <1>0, <1>1 DEF TypeOK, ParkerTypeOK, NetworkTypeOK, Holds
<1>3. /\ \A p \in Ports : Pending(p) => word[p].idx \in PoolIdx /\ word[p].idx # i
      /\ \A k \in DOMAIN queue_ : queue_[k].idx \in PoolIdx /\ queue_[k].idx # i
      /\ \A x \in Workers : Holds(x) /\ x # w => widx[x] \in PoolIdx /\ widx[x] # i
  <2>1. \A p \in Ports : Pending(p) => word[p].idx \in PoolIdx
    BY PendingFields DEF Pending, TypeOK, TrackerTypeOK
  <2>2. \A k \in DOMAIN queue_ : queue_[k].idx \in PoolIdx BY QueueElement DEF TypeOK, ReleaseReq
  <2> QED BY <1>0, <2>1, <2>2 DEF PoolOwnership, OneHolder, Holds, TypeOK, NetworkTypeOK, i
<1>4. ReferencesValid'
  BY <1>1, <1>2, <1>3 DEF PoolOwnership, ReferencesValid, RefValid, Pending, HasPort, eport
<1>5. OneHolder' BY <1>1, <1>2 DEF PoolOwnership, OneHolder, Pending
<1>6. WorkerInv'
  BY <1>1, <1>2, <1>3 DEF WorkerInv, wflow, Holds, i
<1>7. InjectorInv'
  BY <1>0, <1>1, <1>2, TrackerAssumption DEF InjectorInv, HasPort, TypeOK, ParkerTypeOK, injectorVars
<1> QED BY <1>4, <1>5, <1>6, <1>7 DEF PoolOwnership

\* A slot that leaves the pending state gives up its reference; a slot that
\* never had one gives up nothing.
LEMMA SlotDecided ==
  ASSUME IInv, NEW p \in Ports, NEW v \in Word, v.st # "pending", SetWord(p, v),
         UNCHANGED <<in_use, gen, eflow, queue_>>,
         \A w \in Workers : Holds(w)' => Holds(w) /\ widx'[w] = widx[w]
  PROVE  PoolOwnership'
<1>1. word'[p] = v /\ \A q \in Ports : q # p => word'[q] = word[q]
  BY DEF IInv, TypeOK, TrackerTypeOK, SetWord
<1>2. ReferencesValid'
  BY <1>1 DEF IInv, PoolOwnership, ReferencesValid, Pending, RefValid, HasPort, eport
<1>3. OneHolder'
  BY <1>1 DEF IInv, PoolOwnership, OneHolder, Pending
<1> QED BY <1>2, <1>3 DEF PoolOwnership

\* try_park(): the reference moves from the worker to the slot.
LEMMA TryParkIInv ==
  ASSUME IInv, TypeOK', NEW w \in Workers, TryPark(w) PROVE IInv'
<1> USE DEF IInv
<1> DEFINE i == widx[w]
           p == wport(w)
<1>0. /\ i \in PoolIdx /\ wpc[w] = "cas" /\ p \in Ports /\ gen[i] \in Nat
      /\ word[p] = wword[w] /\ wword[w].st # "pending"
      /\ eflow[i] = wflow(w) /\ wflow(w) \in Flows
  <2>1. wpc[w] = "cas" /\ word[p] = wword[w] BY DEF TryPark, CasWins
  <2>2. wflow(w) \in Flows /\ p \in Ports BY <2>1, WorkerPacket
  <2>3. i \in PoolIdx BY DEF TypeOK, NetworkTypeOK
  <2>4. gen[i] \in Nat BY <2>3, ParkerAssumption DEF TypeOK, ParkerTypeOK
  <2>5. wword[w].st # "pending" BY DEF WorkerInv
  <2>6. eflow[i] = wflow(w) BY <2>1 DEF WorkerInv
  <2> QED BY <2>1, <2>2, <2>3, <2>4, <2>5, <2>6
<1>1. /\ SetWord(p, pack_word("pending", gen[i], i)) /\ Done(w)
      /\ UNCHANGED <<in_use, gen, eflow, queue_, injectorVars>>
  BY DEF TryPark, parkerVars, poolVars
<1>2. /\ word'[p] = [st |-> "pending", gen |-> gen[i] % WordGenMod, idx |-> i]
      /\ \A q \in Ports : q # p => word'[q] = word[q]
  BY <1>0, <1>1, PendingWordType DEF SetWord, TypeOK, TrackerTypeOK
<1>3. OthersKeep(w) /\ wpc'[w] = "recv" /\ wword'[w].st # "pending"
  BY <1>1, DoneEffect DEF TypeOK
<1>4. RefValid(i, gen[i] % WordGenMod, p)
  BY <1>0, TrackerAssumption
     DEF RefValid, HasPort, eport, PoolOwnership, ReferencesValid, Holds, wport
<1>5. \A x \in Workers : Holds(x)' => Holds(x) /\ x # w /\ widx'[x] = widx[x]
  BY <1>3 DEF Holds, OthersKeep
<1> HIDE DEF i, p
<1>6. /\ \A q \in Ports : Pending(q) => q # p /\ word[q].idx # i
      /\ \A k \in DOMAIN queue_ : queue_[k].idx # i
      /\ \A x \in Workers : Holds(x) /\ x # w => widx[x] # i
  BY <1>0 DEF PoolOwnership, OneHolder, Holds, Pending, i
<1>7. ReferencesValid'
  BY <1>1, <1>2, <1>4, <1>5
     DEF PoolOwnership, ReferencesValid, Pending, RefValid, HasPort, eport
<1>8. OneHolder'
  BY <1>1, <1>2, <1>5, <1>6 DEF PoolOwnership, OneHolder, Pending
<1>9. WorkerInv' BY <1>1, <1>3 DEF WorkerInv, OthersKeep, wflow
<1> QED BY <1>1, <1>7, <1>8, <1>9, InjectorFrame DEF PoolOwnership

\* A worker that lost the CAS frees its own entry.
LEMMA ParkCasLostIInv ==
  ASSUME IInv, TypeOK', NEW w \in Workers, ParkCasLost(w) PROVE IInv'
<1> USE DEF IInv
<1>0. widx[w] \in PoolIdx /\ wpc[w] = "cas" BY DEF ParkCasLost, TypeOK, NetworkTypeOK
<1>1. /\ free(widx[w]) /\ wpc' = [wpc EXCEPT ![w] = "lost"]
      /\ UNCHANGED <<word, eflow, queue_, injectorVars, wpkt, wword, widx>>
  BY DEF ParkCasLost, Goto, trackerVars
<1>2. wpc'[w] = "lost" /\ \A x \in Workers \ {w} : wpc'[x] = wpc[x]
  BY <1>1 DEF TypeOK, NetworkTypeOK
<1>3. \A x \in Workers : Holds(x)' => Holds(x) /\ widx'[x] = widx[x] /\ widx[x] # widx[w]
  BY <1>0, <1>1, <1>2 DEF Holds, PoolOwnership, OneHolder
<1>4. \A p \in Ports : Pending(p)' => Pending(p) /\ word'[p] = word[p] /\ word[p].idx # widx[w]
  BY <1>0, <1>1 DEF Pending, Holds, PoolOwnership, OneHolder
<1>5. \A k \in DOMAIN queue_ : queue_[k].idx # widx[w]
  BY <1>0 DEF Holds, PoolOwnership, OneHolder
<1>6. \A k, l \in DOMAIN queue_ : queue_[k].idx = queue_[l].idx => k = l
  BY DEF PoolOwnership, OneHolder
<1>7. PoolOwnership' BY <1>0, <1>1, <1>3, <1>4, <1>5, <1>6, FreeEntry
<1>8. WorkerInv' BY <1>1, <1>2 DEF WorkerInv, wflow
<1> QED BY <1>1, <1>7, <1>8, InjectorFrame

\* Pool exhausted: the slot was not pending and is not now.
LEMMA PassFullIInv ==
  ASSUME IInv, TypeOK', NEW w \in Workers, PassFull(w) PROVE IInv'
<1> USE DEF IInv, TypeOK
<1>0. wport(w) \in Ports BY WorkerPacket DEF PassFull
<1>1. /\ Done(w) /\ UNCHANGED <<in_use, gen, eflow, queue_, injectorVars>>
      /\ SetWord(wport(w), decided_word("abandoned")) \/ UNCHANGED word
  BY DEF PassFull, parkerVars, poolVars
<1>2. OthersKeep(w) /\ wpc'[w] = "recv" /\ wword'[w].st # "pending" BY <1>1, DoneEffect
<1>3. \A x \in Workers : Holds(x)' => Holds(x) /\ widx'[x] = widx[x]
  BY <1>2 DEF Holds, OthersKeep
<1>4. PoolOwnership'
  <2>1. CASE UNCHANGED word BY <2>1, <1>1, <1>3, OwnershipFrame
  <2>2. CASE SetWord(wport(w), decided_word("abandoned"))
    <3>1. "abandoned" \in SlotState \ {"pending"} BY DEF SlotState
    <3> QED BY <2>2, <3>1, <1>0, <1>1, <1>3, SlotDecided, DecidedWordType
  <2> QED BY <1>1, <2>1, <2>2
<1>5. WorkerInv' BY <1>1, <1>2 DEF WorkerInv, OthersKeep, wflow
<1> QED BY <1>1, <1>4, <1>5, InjectorFrame

\* Every step of a worker keeps the inductive invariant.
LEMMA WorkerThreadIInv ==
  ASSUME IInv, NEW w \in Workers, WorkerThread(w) PROVE IInv'
<1>1. CASE \E pkt \in netq : Receive(w, pkt) BY <1>1, ReceiveIInv DEF WorkerThread
<1>2. CASE WorkerStep(w)
  <2>1. TypeOK' BY <1>2, WorkerStepType DEF IInv, WorkerThread
  <2> QED BY <1>2, <2>1, QuietWorkerStep, ParkAllocIInv, ParkFillIInv, TryParkIInv,
             ParkCasLostIInv, PassFullIInv DEF WorkerStep
<1> QED BY <1>1, <1>2 DEF WorkerThread, WorkerNext

-----------------------------------------------------------------------------
\* The strand.

\* The strand past TakeEvent has an event of a flow on a port.
LEMMA StrandEventType ==
  ASSUME TypeOK, spc # "idle"
  PROVE  /\ sev \in StrandEvent /\ sev.flow \in Flows /\ sev.ts \in Nat /\ sport \in Ports
         /\ decide(sev) \in {"proxied", "direct"}
<1>1. sev \in StrandEvent BY DEF TypeOK, SocketTypeOK
<1> QED BY <1>1, FlowAssumption, VerdictAssumption DEF StrandEvent, sport, decide

\* A handler returns or goes on with an event and a word.
LEMMA HandlerType ==
  ASSUME SocketTypeOK, posted' \subseteq ClearReq,
         \/ Return
         \/ /\ spc' \in {"pub_load", "pub_cas", "close_load", "close_cas", "clear_load", "clear_cas"}
            /\ sev' \in StrandEvent /\ sword' \in Word
  PROVE  SocketTypeOK'
<1>1. CASE Return BY <1>1, EmptyWordType DEF SocketTypeOK, Return, NoEvent
<1>2. CASE ~Return BY <1>2 DEF SocketTypeOK
<1> QED BY <1>1, <1>2

\* The oldest SOCKET event is an event the strand can handle.
LEMMA TakeEventType ==
  ASSUME TypeOK, TakeEvent
  PROVE  KernelTypeOK' /\ Head(sockq) \in StrandEvent
<1>0. sockq \in Seq(SockEvent) /\ sockq # <<>> BY DEF TypeOK, KernelTypeOK, TakeEvent
<1>1. Head(sockq) \in SockEvent /\ Tail(sockq) \in Seq(SockEvent) BY <1>0, HeadTailProperties
<1>2. Head(sockq) \in StrandEvent BY <1>1 DEF SockEvent, StrandEvent
<1> QED BY <1>1, <1>2 DEF TypeOK, KernelTypeOK, TakeEvent

\* Taking an event or a clear touches neither slots nor pool.
LEMMA TakeStepIInv ==
  ASSUME IInv, StrandStep, OnConnect \/ OnClose \/ \E r \in posted : TakeClear(r) PROVE IInv'
<1> USE DEF IInv
<1>1. CASE OnConnect
  <2>1. KernelTypeOK' /\ Head(sockq) \in StrandEvent BY <1>1, TakeEventType DEF OnConnect
  <2>2. SocketTypeOK'
    <3>1. CASE UNCHANGED <<spc, sev>>
      BY <3>1, <1>1 DEF OnConnect, TakeEvent, TypeOK, SocketTypeOK
    <3>2. CASE ~UNCHANGED <<spc, sev>>
      BY <3>2, <1>1, <2>1, HandlerType DEF OnConnect, TakeEvent, TypeOK, SocketTypeOK
    <3> QED BY <3>1, <3>2
  <2>3. TypeOK' BY <1>1, <2>1, <2>2, FrameTypes DEF OnConnect, TakeEvent, StrandStep, TypeOK
  <2> QED BY <1>1, <2>3, QuietStep DEF OnConnect, TakeEvent, StrandStep, trackerVars, parkerVars, poolVars
<1>2. CASE OnClose
  <2>1. KernelTypeOK' /\ Head(sockq) \in StrandEvent BY <1>2, TakeEventType DEF OnClose
  <2>2. SocketTypeOK' BY <1>2, <2>1, HandlerType DEF OnClose, TakeEvent, TypeOK, SocketTypeOK
  <2>3. TypeOK' BY <1>2, <2>1, <2>2, FrameTypes DEF OnClose, TakeEvent, StrandStep, TypeOK
  <2> QED BY <1>2, <2>3, QuietStep DEF OnClose, TakeEvent, StrandStep, trackerVars, parkerVars, poolVars
<1>3. ASSUME NEW r \in posted, TakeClear(r) PROVE IInv'
  <2>1. [kind |-> "clear", flow |-> r.flow, ts |-> r.ts] \in StrandEvent
    BY DEF TypeOK, SocketTypeOK, ClearReq, StrandEvent
  <2>2. SocketTypeOK' BY <1>3, <2>1, HandlerType DEF TakeClear, TypeOK, SocketTypeOK
  <2>3. TypeOK' BY <1>3, <2>2, FrameTypes DEF TakeClear, StrandStep, TypeOK
  <2> QED BY <1>3, <2>3, QuietStep DEF TakeClear, StrandStep, trackerVars, parkerVars, poolVars
<1> QED BY <1>1, <1>2, <1>3

\* The steps that load the word change nothing else but publish()'s aux fields.
LEMMA LoadStepIInv ==
  ASSUME IInv, StrandStep, PublishLoad \/ CloseLoad \/ ClearLoad PROVE IInv'
<1> USE DEF IInv
<1>0. /\ spc # "idle"
      /\ sev \in StrandEvent /\ sev.ts \in Nat /\ sport \in Ports
      /\ word[sport] \in Word
  <2>1. spc # "idle" BY DEF PublishLoad, CloseLoad, ClearLoad
  <2> QED BY <2>1, StrandEventType DEF TypeOK, TrackerTypeOK
<1>1. SocketTypeOK'
  BY <1>0, HandlerType DEF PublishLoad, CloseLoad, ClearLoad, TypeOK, SocketTypeOK
<1>2. TrackerTypeOK'
  BY <1>0 DEF PublishLoad, CloseLoad, ClearLoad, TypeOK, TrackerTypeOK, trackerVars
<1>3. UNCHANGED <<kernelVars, parkerVars, word>>
  BY DEF PublishLoad, CloseLoad, ClearLoad, trackerVars
<1>4. TypeOK' BY <1>1, <1>2, <1>3, FrameTypes DEF StrandStep, TypeOK
<1> QED BY <1>3, <1>4, QuietStep DEF StrandStep, parkerVars, poolVars

\* publish(): the reference, if there is one, moves from the slot to the queue.
LEMMA PublishCasIInv ==
  ASSUME IInv, StrandStep, PublishCas PROVE IInv'
<1> USE DEF IInv
<1>0. /\ spc # "idle" /\ sev \in StrandEvent /\ sport \in Ports
      /\ decide(sev) \in {"proxied", "direct"} /\ sword \in Word
  BY StrandEventType DEF PublishCas, TypeOK, SocketTypeOK
<1>p. PICK p \in Ports : p = sport BY <1>0
<1>d. PICK d \in {"proxied", "direct"} : d = decide(sev) BY <1>0
<1>1. decided_word(d) \in Word /\ decided_word(d).st # "pending"
  BY <1>d, DecidedWordType DEF SlotState
<1>2. /\ UNCHANGED <<kernelVars, connect_ts, pinned_ts, entry, syn_seq, poolVars,
                     gen_mismatch, life, injectorVars, posted, workerVars, relayVars>>
  BY DEF PublishCas, StrandStep
<1>3. SocketTypeOK'
  BY <1>0, <1>2, HandlerType DEF PublishCas, TypeOK, SocketTypeOK
<1>4. WorkerInv' /\ InjectorInv'
  BY <1>2, WorkerFrame, InjectorFrame DEF poolVars
<1>5. \A w \in Workers : Holds(w)' => Holds(w) /\ widx'[w] = widx[w]
  BY <1>2 DEF workerVars, Holds
<1>6. CASE ~CasWins(sport, sword)
  <2>1. UNCHANGED <<word, queue_>> BY <1>6 DEF PublishCas
  <2>2. TypeOK' BY <1>2, <1>3, <2>1, FrameTypes DEF trackerVars, parkerVars, TypeOK
  <2> QED BY <1>2, <1>4, <1>5, <2>1, <2>2, OwnershipFrame DEF poolVars
<1>7. CASE CasWins(sport, sword) /\ sword.st # "pending"
  <2>1. SetWord(p, decided_word(d)) /\ UNCHANGED queue_
    BY <1>7, <1>p, <1>d DEF PublishCas, handover
  <2>2. TrackerTypeOK'
    BY <1>0, <1>1, <1>2, <2>1, SetWordType DEF TypeOK, TrackerTypeOK
  <2>3. TypeOK' BY <1>2, <1>3, <2>1, <2>2, FrameTypes DEF parkerVars, TypeOK
  <2>4. PoolOwnership'
    BY <1>0, <1>1, <1>2, <1>5, <2>1, SlotDecided DEF poolVars
  <2> QED BY <1>4, <2>3, <2>4
<1>8. CASE CasWins(sport, sword) /\ sword.st = "pending"
  <2> DEFINE r == [idx |-> sword.idx, gen |-> sword.gen, port |-> p, decision |-> d]
  <2>1. /\ SetWord(p, decided_word(d)) /\ queue_' = Append(queue_, r) /\ word[p] = sword
    BY <1>8, <1>p, <1>d DEF PublishCas, handover, release, CasWins
  <2>2. sword.idx \in PoolIdx /\ sword.gen \in 0 .. (WordGenMod - 1)
    BY <1>0, <1>8, PendingFields
  <2>3. r \in ReleaseReq BY <1>0, <2>2 DEF ReleaseReq
  <2>q. /\ queue_ \in Seq(ReleaseReq) /\ queue_' \in Seq(ReleaseReq)
        /\ DOMAIN queue_ = 1 .. Len(queue_) /\ DOMAIN queue_' = 1 .. (Len(queue_) + 1)
        /\ Len(queue_) \in Nat
        /\ queue_'[Len(queue_) + 1] = r
        /\ \A k \in 1 .. Len(queue_) : queue_'[k] = queue_[k]
    BY <2>1, <2>3, AppendProperties, LenProperties DEF TypeOK, ParkerTypeOK
  <2>4. TrackerTypeOK'
    BY <1>0, <1>1, <1>2, <2>1, SetWordType DEF TypeOK, TrackerTypeOK
  <2>5. ParkerTypeOK' BY <1>2, <2>q DEF TypeOK, ParkerTypeOK, poolVars, injectorVars
  <2>6. TypeOK' BY <1>2, <1>3, <2>4, <2>5, FrameTypes DEF TypeOK
  <2>w. /\ ~Pending(p)' /\ Pending(p)
        /\ \A q \in Ports : q # p => word'[q] = word[q]
    BY <1>0, <1>1, <1>8, <2>1 DEF Pending, SetWord, TypeOK, TrackerTypeOK
  <2>7. RefValid(r.idx, r.gen, r.port)
    BY <1>0, <2>1, <2>w DEF PoolOwnership, ReferencesValid
  <2>8. /\ \A q \in Ports : Pending(q) /\ q # p => word[q].idx # r.idx
        /\ \A k \in DOMAIN queue_ : queue_[k].idx # r.idx
        /\ \A w \in Workers : Holds(w) => widx[w] # r.idx
    BY <1>0, <2>1, <2>w DEF PoolOwnership, OneHolder
  <2> HIDE DEF r
  <2>9. ReferencesValid'
    <3>1. \A q \in Ports : Pending(q)' => RefValid(word[q].idx, word[q].gen, q)'
      BY <1>2, <2>w DEF poolVars, PoolOwnership, ReferencesValid, Pending, RefValid, HasPort, eport
    <3>2. \A k \in DOMAIN queue_' : RefValid(queue_[k].idx, queue_[k].gen, queue_[k].port)'
      BY <1>2, <2>q, <2>7
         DEF poolVars, PoolOwnership, ReferencesValid, RefValid, HasPort, eport
    <3>3. \A w \in Workers : Holds(w)' => in_use'[widx'[w]]
      BY <1>2, <1>5 DEF poolVars, PoolOwnership, ReferencesValid
    <3> QED BY <3>1, <3>2, <3>3 DEF ReferencesValid
  <2>10. OneHolder'
    BY <1>5, <2>w, <2>q, <2>8 DEF PoolOwnership, OneHolder, Pending
  <2> QED BY <1>4, <2>6, <2>9, <2>10 DEF PoolOwnership
<1> QED BY <1>6, <1>7, <1>8

\* on_close(): the entry of the slot that held the only reference is freed.
LEMMA CloseCasIInv ==
  ASSUME IInv, StrandStep, CloseCas PROVE IInv'
<1> USE DEF IInv
<1>0. spc # "idle" /\ sev \in StrandEvent /\ sport \in Ports /\ sword \in Word
  BY StrandEventType DEF CloseCas, TypeOK, SocketTypeOK
<1>p. PICK p \in Ports : p = sport BY <1>0
<1>1. UNCHANGED <<kernelVars, connect_ts, pinned_ts, entry, syn_seq, park_qpc, syn_kernel_ts,
                  eflow, queue_, gen_mismatch, life, injectorVars, posted, workerVars, relayVars>>
  BY DEF CloseCas, StrandStep
<1>2. SocketTypeOK' BY <1>0, <1>1, HandlerType DEF CloseCas, TypeOK, SocketTypeOK
<1>3. WorkerInv' /\ InjectorInv' BY <1>1, WorkerFrame, InjectorFrame
<1>4. \A w \in Workers : Holds(w)' => Holds(w) /\ widx'[w] = widx[w]
  BY <1>1 DEF workerVars, Holds
<1>5. CASE ~CasWins(sport, sword)
  <2>1. UNCHANGED <<word, in_use, gen>> BY <1>5 DEF CloseCas
  <2>2. TypeOK' BY <1>1, <1>2, <2>1, FrameTypes DEF trackerVars, parkerVars, poolVars, TypeOK
  <2> QED BY <1>1, <1>3, <1>4, <2>1, <2>2, OwnershipFrame
<1>6. CASE CasWins(sport, sword)
  <2>1. SetWord(p, EMPTY_WORD) /\ word[p] = sword BY <1>6, <1>p DEF CloseCas, CasWins
  <2>2. TrackerTypeOK' BY <1>1, <2>1, EmptyWordType, SetWordType DEF TypeOK, TrackerTypeOK
  <2>3. CASE sword.st # "pending"
    <3>1. UNCHANGED <<in_use, gen>> BY <1>6, <2>3 DEF CloseCas
    <3>2. TypeOK' BY <1>1, <1>2, <2>2, <3>1, FrameTypes DEF parkerVars, poolVars, TypeOK
    <3>3. PoolOwnership' BY <1>1, <1>4, <2>1, <3>1, EmptyWordType, SlotDecided
    <3> QED BY <1>3, <3>2, <3>3
  <2>4. CASE sword.st = "pending"
    <3>1. PICK i \in PoolIdx : i = sword.idx BY <1>0, <2>4, PendingFields
    <3>2. free(i) BY <1>6, <2>4, <3>1 DEF CloseCas
    <3>3. ParkerTypeOK' BY <1>1, <3>2, FreeType DEF TypeOK, ParkerTypeOK, injectorVars
    <3>4. TypeOK' BY <1>1, <1>2, <2>2, <3>3, FrameTypes DEF TypeOK
    <3>5. /\ Pending(p) /\ word[p].idx = i /\ ~Pending(p)'
          /\ \A q \in Ports : q # p => word'[q] = word[q]
      BY <2>1, <2>4, <3>1, EmptyWordType DEF Pending, SetWord, TypeOK, TrackerTypeOK
    <3>6. /\ \A q \in Ports : Pending(q)' => Pending(q) /\ word'[q] = word[q] /\ word[q].idx # i
          /\ \A k \in DOMAIN queue_ : queue_[k].idx # i
          /\ \A w \in Workers : Holds(w)' => Holds(w) /\ widx'[w] = widx[w] /\ widx[w] # i
          /\ \A k, l \in DOMAIN queue_ : queue_[k].idx = queue_[l].idx => k = l
      BY <1>4, <3>5 DEF PoolOwnership, OneHolder, Pending
    <3>7. PoolOwnership' BY <1>1, <3>2, <3>6, FreeEntry
    <3> QED BY <1>3, <3>4, <3>7
  <2> QED BY <2>3, <2>4
<1> QED BY <1>5, <1>6

\* clear_if(): a slot becomes empty, whatever reference it had is given up.
LEMMA ClearCasIInv ==
  ASSUME IInv, StrandStep, ClearCas PROVE IInv'
<1> USE DEF IInv
<1>0. spc # "idle" /\ sev \in StrandEvent /\ sport \in Ports /\ sword \in Word
  BY StrandEventType DEF ClearCas, TypeOK, SocketTypeOK
<1>1. UNCHANGED <<kernelVars, connect_ts, pinned_ts, entry, syn_seq, parkerVars, posted,
                  workerVars, relayVars>>
  BY DEF ClearCas, StrandStep
<1>2. SocketTypeOK' BY <1>0, <1>1, HandlerType DEF ClearCas, TypeOK, SocketTypeOK
<1>3. WorkerInv' /\ InjectorInv'
  BY <1>1, WorkerFrame, InjectorFrame DEF parkerVars, poolVars
<1>4. \A w \in Workers : Holds(w)' => Holds(w) /\ widx'[w] = widx[w]
  BY <1>1 DEF workerVars, Holds
<1>5. SetWord(sport, EMPTY_WORD) \/ UNCHANGED word BY DEF ClearCas
<1>6. TrackerTypeOK'
  BY <1>0, <1>1, <1>5, EmptyWordType, SetWordType DEF TypeOK, TrackerTypeOK
<1>7. TypeOK' BY <1>1, <1>2, <1>6, FrameTypes DEF TypeOK
<1>8. PoolOwnership'
  BY <1>0, <1>1, <1>4, <1>5, EmptyWordType, SlotDecided, OwnershipFrame DEF parkerVars, poolVars
<1> QED BY <1>3, <1>7, <1>8

\* Every step of the strand keeps the inductive invariant.
LEMMA StrandStepIInv == ASSUME IInv, StrandStep PROVE IInv'
BY TakeStepIInv, LoadStepIInv, PublishCasIInv, CloseCasIInv, ClearCasIInv DEF StrandStep, StrandNext

-----------------------------------------------------------------------------
\* The injector.

\* Steps that move the sweep's own variables, the slots' pinned_ts or life.
LEMMA QuietInjector ==
  ASSUME IInv, InjectorStep, TrackerTypeOK', ParkerTypeOK', InjectorInv',
         UNCHANGED <<kernelVars, word, in_use, gen, eflow, queue_>>
  PROVE  IInv'
<1> USE DEF IInv
<1>1. UNCHANGED <<socketVars, workerVars, relayVars>> BY DEF InjectorStep
<1>2. TypeOK' BY <1>1, FrameTypes DEF TypeOK
<1>3. PoolOwnership' BY <1>1, OwnershipFrame DEF workerVars, Holds
<1> QED BY <1>1, <1>2, <1>3, WorkerFrame

\* Every step of the injector before it takes an entry.
LEMMA SweepStepIInv ==
  ASSUME IInv, InjectorStep,
         \/ StartSweep \/ (\E i \in PoolIdx : SweepAge(i)) \/ SweepLoad \/ SweepPin
         \/ SweepCasLost \/ FinalSweep \/ InjectorExit
  PROVE  IInv'
<1> USE DEF IInv
<1>i. 0 \in PoolIdx /\ EMPTY_WORD \in Word BY TrackerAssumption, EmptyWordType DEF PoolIdx
<1>1. CASE StartSweep
  <2>1. ParkerTypeOK' BY <1>1 DEF StartSweep, TypeOK, ParkerTypeOK, poolVars
  <2>2. InjectorInv' BY <1>1 DEF StartSweep, InjectorInv
  <2> QED BY <1>1, <2>1, <2>2, FrameTypes, QuietInjector DEF StartSweep, trackerVars, poolVars
<1>2. ASSUME NEW i \in PoolIdx, SweepAge(i) PROVE IInv'
  <2>1. ParkerTypeOK' BY <1>2 DEF SweepAge, TypeOK, ParkerTypeOK, poolVars
  <2>2. InjectorInv' BY <1>2 DEF SweepAge, Reaches, InjectorInv
  <2> QED BY <1>2, <2>1, <2>2, FrameTypes, QuietInjector DEF SweepAge, trackerVars, poolVars
<1>3. CASE SweepLoad
  <2>1. HasPort(iidx) => eport(iidx) \in Ports
    BY FlowAssumption DEF HasPort, eport, TypeOK, ParkerTypeOK
  <2>2. ParkerTypeOK'
    BY <1>3, <1>i, <2>1 DEF SweepLoad, SweepContinue, TypeOK, ParkerTypeOK, TrackerTypeOK, poolVars
  <2>3. InjectorInv' BY <1>3 DEF SweepLoad, SweepContinue, InjectorInv, HasPort, poolVars
  <2> QED BY <1>3, <2>2, <2>3, FrameTypes, QuietInjector DEF SweepLoad, trackerVars, poolVars
<1>4. CASE SweepPin
  <2>1. eport(iidx) \in Ports /\ syn_kernel_ts[iidx] \in Nat
    BY <1>4, FlowAssumption DEF SweepPin, InjectorInv, HasPort, eport, TypeOK, ParkerTypeOK
  <2>2. TrackerTypeOK' BY <1>4, <2>1 DEF SweepPin, TypeOK, TrackerTypeOK
  <2>3. ParkerTypeOK' BY <1>4, <2>1 DEF SweepPin, TypeOK, ParkerTypeOK, poolVars
  <2>4. InjectorInv' BY <1>4, <2>1 DEF SweepPin, InjectorInv
  <2> QED BY <1>4, <2>2, <2>3, <2>4, QuietInjector DEF SweepPin, poolVars
<1>5. CASE SweepCasLost
  <2>1. ParkerTypeOK'
    BY <1>5, <1>i DEF SweepCasLost, SweepContinue, TypeOK, ParkerTypeOK, poolVars
  <2>2. InjectorInv' BY <1>5 DEF SweepCasLost, SweepContinue, InjectorInv
  <2> QED BY <1>5, <2>1, <2>2, FrameTypes, QuietInjector DEF SweepCasLost, trackerVars, poolVars
<1>6. CASE FinalSweep
  <2>1. ParkerTypeOK' BY <1>6 DEF FinalSweep, TypeOK, ParkerTypeOK, poolVars
  <2>2. InjectorInv' BY <1>6 DEF FinalSweep, InjectorInv
  <2> QED BY <1>6, <2>1, <2>2, FrameTypes, QuietInjector DEF FinalSweep, trackerVars, poolVars
<1>7. CASE InjectorExit
  <2>1. ParkerTypeOK' BY <1>7 DEF InjectorExit, TypeOK, ParkerTypeOK, poolVars, injectorVars
  <2>2. InjectorInv' BY <1>7 DEF InjectorExit, InjectorInv, injectorVars
  <2> QED BY <1>7, <2>1, <2>2, FrameTypes, QuietInjector DEF InjectorExit, trackerVars, poolVars
<1> QED BY <1>1, <1>2, <1>3, <1>4, <1>5, <1>6, <1>7

\* release_parked() either frees the entry and sends, or moves nothing.
LEMMA ReleaseParked ==
  ASSUME TypeOK, NEW i \in PoolIdx, NEW g, NEW decision, HasPort(i), release_parked(i, g, decision)
  PROVE  /\ KernelTypeOK'
         /\ in_use' \in [PoolIdx -> BOOLEAN] /\ gen' \in [PoolIdx -> 0 .. (PoolGenMod - 1)]
         /\ gen_mismatch' \in BOOLEAN
         /\ UNCHANGED <<park_qpc, syn_kernel_ts, eflow>>
         /\ free(i) \/ UNCHANGED <<in_use, gen>>
<1> USE DEF TypeOK
<1>1. eflow[i] \in Flows BY DEF ParkerTypeOK, HasPort
<1>2. CASE release_mismatch(i, g)
  BY <1>2, FrameTypes DEF release_mismatch, poolVars, ParkerTypeOK
<1>3. CASE release_send(i, g, decision)
  <2>1. KernelTypeOK' BY <1>1, <1>3, WirePath, SendSynType DEF release_send
  <2>2. in_use' \in [PoolIdx -> BOOLEAN] /\ gen' \in [PoolIdx -> 0 .. (PoolGenMod - 1)]
    BY <1>3, FreeType DEF release_send
  <2> QED BY <1>3, <2>1, <2>2 DEF release_send, ParkerTypeOK
<1> QED BY <1>2, <1>3 DEF release_parked

\* drain_queue(): the request at the head was the only reference to its entry.
LEMMA DrainQueueIInv ==
  ASSUME IInv, InjectorStep, DrainQueue PROVE IInv'
<1> USE DEF IInv
<1>0. /\ queue_ \in Seq(ReleaseReq) /\ queue_ # <<>> /\ queue_' = Tail(queue_)
      /\ UNCHANGED <<trackerVars, life, injectorVars, socketVars, workerVars, relayVars>>
  BY DEF DrainQueue, InjectorStep, TypeOK, ParkerTypeOK
<1>r. PICK r : r = queue_[1] OBVIOUS
<1>q. /\ r = Head(queue_) /\ r \in ReleaseReq /\ queue_' \in Seq(ReleaseReq)
      /\ DOMAIN queue_ = 1 .. Len(queue_) /\ DOMAIN queue_' = 1 .. (Len(queue_) - 1)
      /\ Len(queue_) \in Nat /\ 1 \in DOMAIN queue_
      /\ \A k \in 1 .. (Len(queue_) - 1) : queue_'[k] = queue_[k + 1]
  BY <1>0, <1>r, HeadTailProperties, LenProperties, EmptySeq
<1>i. PICK i \in PoolIdx : i = r.idx BY <1>q DEF ReleaseReq
<1>1. HasPort(i)
  BY <1>q, <1>r, <1>i DEF PoolOwnership, ReferencesValid, RefValid
<1>2. release_parked(i, r.gen, r.decision) BY <1>q, <1>i DEF DrainQueue
<1>3. TypeOK'
  <2>1. ParkerTypeOK'
    BY <1>0, <1>q, <1>1, <1>2, ReleaseParked DEF TypeOK, ParkerTypeOK, injectorVars
  <2>2. KernelTypeOK' BY <1>1, <1>2, ReleaseParked
  <2> QED BY <1>0, <2>1, <2>2, FrameTypes DEF TypeOK
<1>4. WorkerInv' /\ InjectorInv'
  BY <1>0, <1>1, <1>2, ReleaseParked, WorkerFrame, InjectorFrame
<1>5. /\ \A k \in DOMAIN queue_' : k + 1 \in DOMAIN queue_ /\ queue_'[k] = queue_[k + 1]
      /\ \A k \in DOMAIN queue_ : k # 1 => queue_[k].idx # i
      /\ \A p \in Ports : Pending(p)' => Pending(p) /\ word'[p] = word[p] /\ word[p].idx # i
      /\ \A w \in Workers : Holds(w)' => Holds(w) /\ widx'[w] = widx[w] /\ widx[w] # i
  BY <1>0, <1>q, <1>r, <1>i
     DEF PoolOwnership, OneHolder, Pending, Holds, trackerVars, workerVars
<1>6. \A k, l \in DOMAIN queue_' : queue_'[k].idx = queue_'[l].idx => k = l
  BY <1>q, <1>5 DEF PoolOwnership, OneHolder
<1>7. PoolOwnership'
  <2>1. CASE free(i)
    <3>1. \A k \in DOMAIN queue_' : \E l \in DOMAIN queue_ :
             queue_'[k] = queue_[l] /\ queue_[l].idx # i
      <4> SUFFICES ASSUME NEW k \in DOMAIN queue_'
                   PROVE  k + 1 \in DOMAIN queue_ /\ queue_'[k] = queue_[k + 1]
                          /\ queue_[k + 1].idx # i
        OBVIOUS
      <4>1. k \in Nat /\ k # 0 BY <1>q
      <4> QED BY <1>5, <4>1
    <3> QED BY <1>1, <1>2, <1>5, <1>6, <2>1, <3>1, ReleaseParked, FreeEntry
  <2>2. CASE UNCHANGED <<in_use, gen>>
    <3>0. eflow' = eflow /\ word' = word BY <1>0, <1>1, <1>2, ReleaseParked DEF trackerVars
    <3>1. ReferencesValid'
      BY <2>2, <3>0, <1>5
         DEF PoolOwnership, ReferencesValid, Pending, RefValid, HasPort, eport
    <3>2. OneHolder'
      BY <3>0, <1>5, <1>6 DEF PoolOwnership, OneHolder, Pending
    <3> QED BY <3>1, <3>2 DEF PoolOwnership
  <2> QED BY <1>1, <1>2, <2>1, <2>2, ReleaseParked
<1> QED BY <1>3, <1>4, <1>7

\* sweep(): the slot that held the only reference to the entry is decided.
LEMMA SweepCasWonIInv ==
  ASSUME IInv, InjectorStep, SweepCasWon PROVE IInv'
<1> USE DEF IInv
<1>0. /\ ipc = "cas" /\ word[iport] = iword /\ iport \in Ports
      /\ iword.st = "pending" /\ iword.idx = iidx /\ iidx \in PoolIdx
      /\ UNCHANGED <<connect_ts, pinned_ts, entry, syn_seq, queue_, life, itodo,
                     socketVars, workerVars, relayVars>>
  BY DEF SweepCasWon, InjectorStep, CasWins, InjectorInv, TypeOK, ParkerTypeOK
<1>p. PICK p \in Ports : p = iport BY <1>0
<1>i. PICK i \in PoolIdx : i = iidx BY <1>0
<1>1. Pending(p) /\ word[p].idx = i BY <1>0, <1>p, <1>i DEF Pending
<1>2. HasPort(i) BY <1>1 DEF PoolOwnership, ReferencesValid, RefValid
<1>3. /\ SetWord(p, decided_word("abandoned"))
      /\ release_parked(i, iword.gen, "abandoned") /\ SweepContinue
  BY <1>p, <1>i DEF SweepCasWon
<1>4. decided_word("abandoned") \in Word /\ decided_word("abandoned").st # "pending"
  BY DecidedWordType DEF SlotState
<1>5. TypeOK'
  <2>1. ParkerTypeOK'
    <3>1. 0 \in PoolIdx /\ EMPTY_WORD \in Word
      BY EmptyWordType, TrackerAssumption DEF PoolIdx
    <3>2. /\ in_use' \in [PoolIdx -> BOOLEAN] /\ gen' \in [PoolIdx -> 0 .. (PoolGenMod - 1)]
          /\ gen_mismatch' \in BOOLEAN
          /\ UNCHANGED <<park_qpc, syn_kernel_ts, eflow>>
      BY <1>2, <1>3, ReleaseParked
    <3> QED BY <1>0, <1>3, <3>1, <3>2 DEF SweepContinue, TypeOK, ParkerTypeOK
  <2>2. TrackerTypeOK' BY <1>0, <1>3, <1>4, SetWordType DEF TypeOK, TrackerTypeOK
  <2>3. KernelTypeOK' BY <1>2, <1>3, ReleaseParked
  <2> QED BY <1>0, <2>1, <2>2, <2>3, FrameTypes DEF TypeOK
<1>6. WorkerInv'
  BY <1>0, <1>2, <1>3, ReleaseParked, WorkerFrame
<1>7. InjectorInv' BY <1>3 DEF SweepContinue, InjectorInv
<1>8. ~Pending(p)' /\ \A q \in Ports : q # p => word'[q] = word[q]
  BY <1>3, <1>4 DEF Pending, SetWord, TypeOK, TrackerTypeOK
<1>9. \A w \in Workers : Holds(w)' => Holds(w) /\ widx'[w] = widx[w]
  BY <1>0 DEF workerVars, Holds
<1>10. PoolOwnership'
  <2>1. CASE free(i)
    <3>1. /\ \A q \in Ports : Pending(q)' => Pending(q) /\ word'[q] = word[q] /\ word[q].idx # i
          /\ \A k \in DOMAIN queue_ : queue_[k].idx # i
          /\ \A w \in Workers : Holds(w)' => Holds(w) /\ widx'[w] = widx[w] /\ widx[w] # i
          /\ \A k, l \in DOMAIN queue_ : queue_[k].idx = queue_[l].idx => k = l
      BY <1>1, <1>8, <1>9 DEF PoolOwnership, OneHolder, Pending
    <3> QED BY <1>0, <1>2, <1>3, <2>1, <3>1, ReleaseParked, FreeEntry
  <2>2. CASE UNCHANGED <<in_use, gen>>
    BY <1>0, <1>2, <1>3, <1>4, <1>9, <2>2, ReleaseParked, SlotDecided
  <2> QED BY <1>2, <1>3, <2>1, <2>2, ReleaseParked
<1> QED BY <1>5, <1>6, <1>7, <1>10

\* Every step of the injector keeps the inductive invariant.
LEMMA InjectorStepIInv == ASSUME IInv, InjectorStep PROVE IInv'
BY DrainQueueIInv, SweepCasWonIInv, SweepStepIInv DEF InjectorStep, InjectorNext, SweepStep

-----------------------------------------------------------------------------
\* The theorems.

\* Every step of the system keeps the inductive invariant.
LEMMA NextIInv == IInv /\ [Next]_vars => IInv'
<1> SUFFICES ASSUME IInv, [Next]_vars PROVE IInv' OBVIOUS
<1>1. CASE UNCHANGED vars
  <2>1. TypeOK' BY <1>1, FrameTypes DEF IInv, vars, TypeOK
  <2> QED BY <1>1, <2>1, QuietStep DEF vars, trackerVars, parkerVars, poolVars
<1>2. CASE Next
  BY <1>1, <1>2, KernelStepIInv, StrandStepIInv, WorkerThreadIInv, InjectorStepIInv,
     RelayStepIInv, LifeStepIInv DEF Next, Quiescent
<1> QED BY <1>1, <1>2

\* IInv is an inductive invariant of the system.
THEOREM IInvCorrect == Spec => []IInv
BY InitIInv, NextIInv, PTL DEF Spec

\* Every variable keeps its type (a slot names a pool entry exactly while it is
\* pending), for any number of ports, flows, workers and pool entries.
THEOREM TypeCorrect == Spec => []TypeOK
<1>1. IInv => TypeOK BY DEF IInv
<1> QED BY <1>1, IInvCorrect, PTL

\* Whoever wins the CAS on a slot is the only holder of the pool entry it names,
\* whatever the interleaving of strand, workers and injector, the reuse of
\* ports, the loss of events and the moment of the shutdown.
THEOREM OwnershipCorrect == Spec => []PoolOwnership
<1>1. IInv => PoolOwnership BY DEF IInv
<1> QED BY <1>1, IInvCorrect, PTL

\* A generation that fits the word is not truncated.
LEMMA ModOfSmall ==
  ASSUME NEW n \in Nat, n < WordGenMod PROVE n % WordGenMod = n
BY TrackerAssumption

\* release_parked() never finds a foreign generation unless the entry's own no
\* longer fits the 24 bits the word has for it.
THEOREM MismatchCorrect == Spec => MismatchOnlyByTruncation
<1> DEFINE Step == gen_mismatch' => gen_mismatch \/ \E i \in PoolIdx : gen[i] >= WordGenMod
<1>1. ASSUME IInv, Next, gen_mismatch', ~gen_mismatch
      PROVE  \E i \in PoolIdx : gen[i] >= WordGenMod
  <2>0. TypeOK /\ PoolOwnership /\ InjectorInv BY <1>1 DEF IInv
  <2> USE <2>0
  <2>1. ASSUME NEW i \in PoolIdx, NEW g, NEW p, NEW d, RefValid(i, g, p), release_parked(i, g, d)
        PROVE  gen[i] >= WordGenMod
    <3>1. gen[i] # g BY <1>1, <2>1 DEF release_parked, release_mismatch, release_send
    <3>2. gen[i] \in Nat BY ParkerAssumption DEF TypeOK, ParkerTypeOK
    <3>3. gen[i] # gen[i] % WordGenMod BY <2>1, <3>1 DEF RefValid
    <3> QED BY <3>2, <3>3, ModOfSmall, TrackerAssumption
  <2>2. CASE DrainQueue
    <3>1. queue_ \in Seq(ReleaseReq) /\ queue_ # <<>>
      BY <2>2 DEF DrainQueue, TypeOK, ParkerTypeOK
    <3>2. 1 \in DOMAIN queue_ /\ Head(queue_) = queue_[1] /\ queue_[1] \in ReleaseReq
      BY <3>1, HeadTailProperties, LenProperties, EmptySeq
    <3>3. RefValid(queue_[1].idx, queue_[1].gen, queue_[1].port)
      BY <3>2 DEF PoolOwnership, ReferencesValid
    <3>4. queue_[1].idx \in PoolIdx BY <3>2 DEF ReleaseReq
    <3> QED BY <2>1, <2>2, <3>2, <3>3, <3>4 DEF DrainQueue
  <2>3. CASE SweepCasWon
    <3>1. iport \in Ports /\ word[iport] = iword /\ iword.st = "pending"
          /\ iword.idx = iidx /\ iidx \in PoolIdx
      BY <2>3 DEF SweepCasWon, CasWins, InjectorInv, TypeOK, ParkerTypeOK
    <3>2. RefValid(iidx, iword.gen, iport)
      BY <3>1 DEF PoolOwnership, ReferencesValid, Pending
    <3> QED BY <2>1, <2>3, <3>1, <3>2 DEF SweepCasWon
  <2>4. CASE ~DrainQueue /\ ~SweepCasWon
    <3>1. UNCHANGED gen_mismatch
      <4>1. CASE KernelStep \/ RelayStep \/ Quiescent
        BY <4>1 DEF KernelStep, RelayStep, RelayNext, RelayAccept, RelayRefuse, RelayEnd,
                    Quiescent, vars, parkerVars
      <4>2. CASE StrandStep
        BY <4>2 DEF StrandStep, StrandNext, OnConnect, OnClose, TakeEvent, TakeClear, PublishLoad,
                    PublishCas, CloseLoad, CloseCas, ClearLoad, ClearCas, parkerVars
      <4>3. ASSUME NEW w \in Workers, WorkerThread(w) PROVE UNCHANGED gen_mismatch
        BY <4>3 DEF WorkerThread, WorkerNext, Receive, WorkerStep, ActOnFresh, ActOnRetransmit,
                    TtlStale, PassOversize, ParkAlloc, ParkFill, TryPark, ParkCasLost,
                    ActOnReload, ParkFull, PinFull, PassFull, parkerVars
      <4>4. CASE InjectorStep
        BY <2>4, <4>4 DEF InjectorStep, InjectorNext, StartSweep, SweepAge, SweepStep, SweepLoad,
                          SweepPin, SweepCasLost, FinalSweep, InjectorExit
      <4>5. CASE CloseSocketLayer \/ StopParker \/ CloseNetworkLayer
        BY <4>5 DEF CloseSocketLayer, StopParker, CloseNetworkLayer, SetLife
      <4> QED BY <1>1, <4>1, <4>2, <4>3, <4>4, <4>5 DEF Next
    <3> QED BY <1>1, <3>1
  <2> QED BY <2>2, <2>3, <2>4
<1>2. IInv /\ [Next]_vars => [Step]_vars
  BY <1>1
<1> QED BY <1>2, IInvCorrect, PTL DEF Spec, MismatchOnlyByTruncation
-----------------------------------------------------------------------------
\* What decides a flow, over one flow per port.  NoHijack, StaysReflected and
\* NoLeak do not hold of every run: a port handed on while clew lags, and a pin
\* that loses against the CONNECT when the pool is full, break them.  They are
\* proved of the runs without these.

\* No two flows share a local port.
OnePerPort == \A f, g \in Flows : PortOf[f] = PortOf[g] => f = g

\* A worker that found the pool full never pins behind a published decision.
PinsWin == \A w \in Workers : wpc[w] = "pincas" => word[wport(w)].st # "proxied"

\* Where an event of a kind about flow f is: queued, or in the strand's hands.
Queued(kind, f) == \E k \in DOMAIN sockq : sockq[k].kind = kind /\ sockq[k].flow = f
Handling(kind, f) == spc # "idle" /\ sev.kind = kind /\ sev.flow = f
Out(kind, f) == Queued(kind, f) \/ Handling(kind, f)

\* Worker w is busy with a SYN of f; the state of the slot of f.
On(w, f) == wpc[w] # "recv" /\ wflow(w) = f
slot(f) == word[PortOf[f]].st

\* Every CONNECT of f still to be handled is older than t.
After(f, t) ==
  /\ \A k \in DOMAIN sockq : sockq[k].kind = "connect" /\ sockq[k].flow = f => sockq[k].ts < t
  /\ Handling("connect", f) => sev.ts < t

\* Nothing is known of a flow that was never opened.
Untouched ==
  \A f \in Flows : phase[f] = "idle" =>
    /\ wire[f] = "none" /\ relay[f] = "none" /\ word[PortOf[f]] = EMPTY_WORD
    /\ \A k \in DOMAIN sockq : sockq[k].flow # f
    /\ spc # "idle" => sev.flow # f
    /\ \A pkt \in netq : pkt.flow # f
    /\ \A w \in Workers : ~On(w, f)
    /\ \A i \in PoolIdx : eflow[i] # f
    /\ ipc = "cas" => iport # PortOf[f]

\* The times a SYN of f carries, or pins an abandoned slot of f with: every
\* CONNECT of f is older, so publish() rejects it from an abandoned slot.
Stamp(f, t) ==
  \/ t = now + 1
  \/ \E pkt \in netq : pkt.flow = f /\ pkt.ts = t
  \/ \E w \in Workers : On(w, f) /\ wpkt[w].ts = t
  \/ \E i \in PoolIdx : eflow[i] = f /\ syn_kernel_ts[i] = t
  \/ /\ pinned_ts[PortOf[f]] = t
     /\ \/ slot(f) = "abandoned"
        \/ ipc = "cas" /\ iport = PortOf[f]
        \/ \E w \in Workers : On(w, f) /\ wpc[w] = "pincas"

Stamps == \A f \in Flows, t \in Nat : Stamp(f, t) => After(f, t)

\* A flow has one SYN under way at most, in one worker's hands at most.
OneSyn ==
  /\ \A a, b \in netq : a.flow = b.flow => a = b
  /\ \A a \in netq, w \in Workers : ~On(w, a.flow)
  /\ \A w, x \in Workers, f \in Flows : On(w, f) /\ On(x, f) => w = x

\* Each handler of the strand runs on its own kind of event.
HandlerKind ==
  /\ spc \in {"pub_load", "pub_cas"} => sev.kind \in {"connect", "echo"}
  /\ spc \in {"close_load", "close_cas"} => sev.kind = "close"
  /\ spc \in {"clear_load", "clear_cas"} => sev.kind = "clear"

\* The CONNECT of a flow is its first event.
FirstEvent ==
  /\ \A k, l \in DOMAIN sockq : k < l /\ sockq[k].flow = sockq[l].flow => sockq[l].kind # "connect"
  /\ \A f \in Flows : spc # "idle" /\ sev.flow = f => ~Queued("connect", f)

\* A relay serves a reflected flow, and asks for a clear when it is gone.
Relays ==
  \A f \in Flows :
    /\ relay[f] # "none" => wire[f] = "proxied" /\ phase[f] \in {"est", "closed"}
    /\ (\E r \in posted : r.flow = f) \/ Handling("clear", f) => relay[f] = "gone"

\* Whatever shows a decision about f, or a word that moved under a worker, was
\* left by the CONNECT of f: it is used up.
Consumed ==
  \A f \in Flows :
    \/ slot(f) \in {"proxied", "direct"}
    \/ \E k \in DOMAIN queue_ : queue_[k].port = PortOf[f]
    \/ \E w \in Workers : On(w, f) /\ \/ wword[w].st \in {"proxied", "direct"}
                                      \/ wpc[w] = "lost"
                                      \/ word[PortOf[f]] # wword[w]
    \/ wire[f] = "proxied"
    => ~Out("connect", f)

\* No decision to come can turn f into a proxied flow.
Settled(f) ==
  \/ Verdict[f] = "direct"
  \/ slot(f) # "proxied" /\ (Out("connect", f) => slot(f) = "abandoned")

\* A flow that went out the direct way, or is about to, is settled.
DirectSettled ==
  \A f \in Flows :
    \/ wire[f] = "direct"
    \/ \E w \in Workers : On(w, f) /\ wword[w].st \in {"direct", "abandoned"}
    \/ \E k \in DOMAIN queue_ : queue_[k].port = PortOf[f] /\ queue_[k].decision = "direct"
    => Settled(f)

\* A slot is proxied by a verdict only, and no CONNECT passed publish()'s
\* load of an abandoned slot.
Verdicts ==
  /\ \A f \in Flows : slot(f) = "proxied" => Verdict[f] = "proxied"
  /\ spc = "pub_cas" /\ sev.kind = "connect" => sword.st # "abandoned"

\* Whoever parked, pinned or abandoned a SYN had noted its ISN before.
Noted ==
  \A f \in Flows :
    \/ slot(f) \in {"pending", "abandoned"}
    \/ \E w \in Workers : On(w, f) /\ (wpc[w] \notin {"ttl", "park"} \/ wword[w].st = "abandoned")
    => syn_seq[PortOf[f]] = f

\* A worker busy with a SYN of a port is not racing a parked one.
Holding ==
  \A w \in Workers : wpc[w] # "recv" =>
    /\ word[wport(w)].st # "pending"
    /\ wpc[w] = "ttl" => wword[w].st # "empty"
    /\ wpc[w] # "ttl" => wword[w].st # "abandoned"

DecisionInv ==
  /\ Untouched /\ Stamps /\ OneSyn /\ HandlerKind /\ FirstEvent /\ Relays
  /\ Consumed /\ DirectSettled /\ Verdicts /\ Noted /\ Holding

\* A clear of the slot of f is posted or running, once.
ClearOut(f) == (\E r \in posted : r.flow = f) \/ Handling("clear", f)

OneClear ==
  /\ \A r, s \in posted : r.flow = s.flow => r = s
  /\ \A r \in posted : ~Handling("clear", r.flow)

\* The CONNECT of a re-injected SYN is about a settled flow: it changes nothing.
EchoSettled == \A f \in Flows : Out("echo", f) => Settled(f)

\* f was answered for the acceptor, or is about to be, and its relay has not
\* been cleared away: the slot stays proxied, and no worker does more than
\* send the SYN of f once more.
InUse(f) ==
  /\ \/ wire[f] = "proxied"
     \/ \E k \in DOMAIN queue_ : queue_[k].port = PortOf[f] /\ queue_[k].decision = "proxied"
  /\ relay[f] # "gone" \/ ClearOut(f)

Reflecting ==
  \A f \in Flows : InUse(f) =>
    /\ slot(f) = "proxied" /\ syn_seq[PortOf[f]] = f
    /\ \A w \in Workers : On(w, f) => wpc[w] = "ttl" /\ wword[w].st = "proxied"

\* A proxied word a worker loaded is still there while its SYN is unanswered,
\* and on_close() never clears one.
Loaded ==
  /\ \A f \in Flows, w \in Workers :
       On(w, f) /\ wword[w].st = "proxied" /\ phase[f] = "syn" => slot(f) = "proxied"
  /\ spc = "close_cas" => sword.st # "proxied"

\* The entry of a proxied slot is the remote endpoint of its flow.
Entries ==
  /\ DOMAIN entry = Ports
  /\ \A f \in Flows : slot(f) = "proxied" => entry[PortOf[f]] = RemoteOf[f]
  /\ \A f \in Flows : spc = "pub_cas" /\ sev.flow = f => entry[PortOf[f]] = RemoteOf[f]

ReflectionInv == EchoSettled /\ OneClear /\ Reflecting /\ Loaded /\ Entries

\* The reflected SYN does not traverse ALE again, so it raises no echo.
Reflects == "proxied" \notin EchoPaths /\ ReflectionInv

\* What a step has to keep, and what it may start from.
Kept == DecisionInv' /\ (Reflects => ReflectionInv')
Ready == OnePerPort /\ IInv /\ IInv' /\ DecisionInv

\* No CONNECT of a flow appears, and those that are out grow no younger.
Calm ==
  \A f \in Flows : /\ Out("connect", f)' => Out("connect", f)
                   /\ \A t : After(f, t) => After(f, t)'

-----------------------------------------------------------------------------
\* Frames, and what a step does to the events still out.

\* Each part of DecisionInv is about these variables only.
LEMMA DecisionFrame ==
  ASSUME DecisionInv
  PROVE  /\ UNCHANGED <<phase, wire, relay, word, sockq, spc, sev, netq, wpc, wpkt, eflow, ipc,
                        iport>>
            => Untouched'
         /\ UNCHANGED <<netq, wpc, wpkt>> => OneSyn'
         /\ UNCHANGED <<spc, sev>> => HandlerKind'
         /\ UNCHANGED <<sockq, spc, sev>> => FirstEvent'
         /\ UNCHANGED <<phase, wire, relay, posted, spc, sev>> => Relays'
         /\ UNCHANGED <<word, spc, sev, sword>> => Verdicts'
         /\ UNCHANGED <<word, wpc, wpkt, wword, syn_seq>> => Noted'
         /\ UNCHANGED <<word, wpc, wpkt, wword>> => Holding'
<1> USE DEF DecisionInv
<1>1. UNCHANGED <<phase, wire, relay, word, sockq, spc, sev, netq, wpc, wpkt, eflow, ipc, iport>>
      => Untouched'
  BY DEF Untouched, On, wflow
<1>2. UNCHANGED <<netq, wpc, wpkt>> => OneSyn' BY DEF OneSyn, On, wflow
<1>3. UNCHANGED <<spc, sev>> => HandlerKind' BY DEF HandlerKind
<1>4. UNCHANGED <<sockq, spc, sev>> => FirstEvent' BY DEF FirstEvent, Queued
<1>5. UNCHANGED <<phase, wire, relay, posted, spc, sev>> => Relays' BY DEF Relays, Handling
<1>6. UNCHANGED <<word, spc, sev, sword>> => Verdicts' BY DEF Verdicts, slot
<1>7. UNCHANGED <<word, wpc, wpkt, wword, syn_seq>> => Noted' BY DEF Noted, slot, On, wflow
<1>8. UNCHANGED <<word, wpc, wpkt, wword>> => Holding' BY DEF Holding, wport, wflow
<1> QED BY <1>1, <1>2, <1>3, <1>4, <1>5, <1>6, <1>7, <1>8

\* No event comes or goes.
LEMMA EventsFrame ==
  ASSUME UNCHANGED <<sockq, spc, sev>>
  PROVE  /\ \A k, f : Out(k, f)' <=> Out(k, f)
         /\ \A k, f : Handling(k, f)' <=> Handling(k, f)
         /\ Calm
BY DEF Queued, Handling, After, Out, Calm

\* An event that is no CONNECT is queued behind the others.
LEMMA EventsAppend ==
  ASSUME sockq \in Seq(SockEvent), NEW e \in SockEvent, e.kind # "connect",
         sockq' = Append(sockq, e), UNCHANGED <<spc, sev>>
  PROVE  /\ Calm
         /\ FirstEvent => FirstEvent'
         /\ \A f : (\A k \in DOMAIN sockq : sockq[k].flow # f) /\ e.flow # f
                   => \A k \in DOMAIN sockq' : sockq'[k].flow # f
         /\ \A k, f : Out(k, f)' => Out(k, f) \/ (k = e.kind /\ f = e.flow)
<1>1. /\ DOMAIN sockq = 1 .. Len(sockq) /\ DOMAIN sockq' = 1 .. (Len(sockq) + 1)
      /\ Len(sockq) \in Nat /\ sockq'[Len(sockq) + 1] = e
      /\ \A k \in 1 .. Len(sockq) : sockq'[k] = sockq[k]
  BY AppendProperties, LenProperties
<1>2. \A f : Queued("connect", f)' <=> Queued("connect", f) BY <1>1 DEF Queued
<1>3. \A k, f : Handling(k, f)' <=> Handling(k, f) BY DEF Handling
<1>7. \A k, f : Queued(k, f)' => Queued(k, f) \/ (k = e.kind /\ f = e.flow) BY <1>1 DEF Queued
<1>4. \A f, t : After(f, t) => After(f, t)' BY <1>1, <1>3 DEF After
<1>5. FirstEvent => FirstEvent'
  <2>1. FirstEvent => \A k, l \in DOMAIN sockq' :
          k < l /\ sockq'[k].flow = sockq'[l].flow => sockq'[l].kind # "connect"
    BY <1>1 DEF FirstEvent
  <2> QED BY <1>2, <2>1 DEF FirstEvent
<1>6. \A f : (\A k \in DOMAIN sockq : sockq[k].flow # f) /\ e.flow # f
                   => \A k \in DOMAIN sockq' : sockq'[k].flow # f
  BY <1>1
<1> QED BY <1>2, <1>3, <1>4, <1>5, <1>6, <1>7 DEF Calm, Out

\* The strand takes the oldest event.
LEMMA EventsTail ==
  ASSUME sockq \in Seq(SockEvent), sockq # <<>>, sockq' = Tail(sockq), spc = "idle",
         \/ spc' = "idle"
         \/ spc' # "idle" /\ sev' = Head(sockq)
  PROVE  /\ \A k, f : Out(k, f)' => Out(k, f)
         /\ Calm
         /\ FirstEvent => FirstEvent'
         /\ \A f : (\A k \in DOMAIN sockq : sockq[k].flow # f)
                   => /\ \A k \in DOMAIN sockq' : sockq'[k].flow # f
                      /\ Head(sockq).flow # f
<1>1. /\ Head(sockq) = sockq[1] /\ Len(sockq) \in Nat /\ 1 \in DOMAIN sockq
      /\ DOMAIN sockq = 1 .. Len(sockq) /\ DOMAIN sockq' = 1 .. (Len(sockq) - 1)
      /\ \A k \in 1 .. (Len(sockq) - 1) : sockq'[k] = sockq[k + 1] /\ k + 1 \in DOMAIN sockq
  BY HeadTailProperties, LenProperties, EmptySeq
<1>2. \A k, f : Queued(k, f)' => Queued(k, f) BY <1>1 DEF Queued
<1>3. \A k, f : Handling(k, f)' => Queued(k, f) BY <1>1 DEF Queued, Handling
<1>4. \A f, t : After(f, t) => After(f, t)' BY <1>1 DEF After, Handling
<1>5. FirstEvent => FirstEvent'
  <2> SUFFICES ASSUME FirstEvent PROVE FirstEvent' OBVIOUS
  <2>1. \A k, l \in DOMAIN sockq' :
          k < l /\ sockq'[k].flow = sockq'[l].flow => sockq'[l].kind # "connect"
    BY <1>1 DEF FirstEvent
  <2>2. ASSUME spc' # "idle" PROVE ~Queued("connect", sev.flow)'
    <3>1. \A k \in DOMAIN sockq' : sockq'[k].flow = Head(sockq).flow => sockq'[k].kind # "connect"
      BY <1>1 DEF FirstEvent
    <3> QED BY <2>2, <3>1 DEF Queued
  <2> QED BY <2>1, <2>2 DEF FirstEvent
<1>6. \A f : (\A k \in DOMAIN sockq : sockq[k].flow # f)
                   => /\ \A k \in DOMAIN sockq' : sockq'[k].flow # f
                      /\ Head(sockq).flow # f
  BY <1>1
<1> QED BY <1>2, <1>3, <1>4, <1>5, <1>6 DEF Calm, Out

\* A handler of the strand goes on or returns.
LEMMA EventsHandler ==
  ASSUME sockq' = sockq, spc # "idle", spc' = "idle" \/ sev' = sev
  PROVE  /\ \A k, f : Out(k, f)' => Out(k, f)
         /\ \A k, f : Handling(k, f)' => Handling(k, f)
         /\ Calm
         /\ FirstEvent => FirstEvent'
<1>1. \A k, f : Queued(k, f)' <=> Queued(k, f) BY DEF Queued
<1>2. \A k, f : Handling(k, f)' => Handling(k, f) BY DEF Handling
<1>3. \A f, t : After(f, t) => After(f, t)' BY DEF After, Handling
<1>4. FirstEvent => FirstEvent' BY <1>1 DEF FirstEvent
<1> QED BY <1>1, <1>2, <1>3, <1>4 DEF Calm, Out

\* A worker that is done is on no flow, and the others are where they were.
LEMMA DoneOn ==
  ASSUME NetworkTypeOK, NEW w \in Workers, Done(w)
  PROVE  \A x \in Workers : \A f : On(x, f)' =>
           /\ x # w /\ On(x, f)
           /\ wpc'[x] = wpc[x] /\ wpkt'[x] = wpkt[x] /\ wword'[x] = wword[x]
BY DEF NetworkTypeOK, Done, Goto, On, wflow

\* A worker that goes on stays on its flow.
LEMMA GotoOn ==
  ASSUME NetworkTypeOK, NEW w \in Workers, NEW pc, Goto(w, pc), pc # "recv", wpc[w] # "recv",
         UNCHANGED wpkt
  PROVE  /\ \A x \in Workers : \A f : On(x, f)' <=> On(x, f)
         /\ wpc'[w] = pc /\ \A x \in Workers \ {w} : wpc'[x] = wpc[x]
         /\ \A x \in Workers : wport(x)' = wport(x) /\ wflow(x)' = wflow(x)
BY DEF NetworkTypeOK, Goto, On, wflow, wport

\* Sending a SYN queues an echo at most, and moves only its own flow.
LEMMA SendEvents ==
  ASSUME KernelTypeOK, NEW f \in Flows, NEW path \in {"direct", "proxied"}, SendSyn(f, path),
         UNCHANGED <<spc, sev>>
  PROVE  /\ Calm
         /\ FirstEvent => FirstEvent'
         /\ \A g : (\A k \in DOMAIN sockq : sockq[k].flow # g) /\ f # g
                   => \A k \in DOMAIN sockq' : sockq'[k].flow # g
         /\ \A g : Out("echo", g)' => Out("echo", g) \/ (path \in EchoPaths /\ g = f)
         /\ \A g \in Flows : wire'[g] = IF g = f /\ phase[f] = "syn" THEN path ELSE wire[g]
<1>1. CASE path \in EchoPaths
  <2>1. [kind |-> "echo", flow |-> f, ts |-> ECHO_TS] \in SockEvent
    BY DEF ECHO_TS, KernelTypeOK, SockEvent
  <2>2. sockq' = Append(sockq, [kind |-> "echo", flow |-> f, ts |-> ECHO_TS]) BY <1>1 DEF SendSyn
  <2>3. sockq \in Seq(SockEvent) BY DEF KernelTypeOK
  <2>4. \A g \in Flows : wire'[g] = IF g = f /\ phase[f] = "syn" THEN path ELSE wire[g]
    BY DEF SendSyn, KernelTypeOK
  <2>5. \A g : (\A k \in DOMAIN sockq : sockq[k].flow # g) /\ f # g
                   => \A k \in DOMAIN sockq' : sockq'[k].flow # g
    BY <2>1, <2>2, <2>3, EventsAppend
  <2>6. \A g : Out("echo", g)' => Out("echo", g) \/ g = f BY <2>1, <2>2, <2>3, EventsAppend
  <2> QED BY <1>1, <2>1, <2>2, <2>3, <2>4, <2>5, <2>6, EventsAppend
<1>2. CASE path \notin EchoPaths
  <2>1. sockq' = sockq BY <1>2 DEF SendSyn
  <2>2. \A g \in Flows : wire'[g] = IF g = f /\ phase[f] = "syn" THEN path ELSE wire[g]
    BY DEF SendSyn, KernelTypeOK
  <2> QED BY <2>1, <2>2, EventsFrame DEF FirstEvent, Queued
<1> QED BY <1>1, <1>2

\* Each part of ReflectionInv is about these variables only, and about the
\* CONNECTs and echoes still out.
LEMMA ReflectionFrame ==
  ASSUME ReflectionInv
  PROVE  /\ /\ \A f \in Flows : Out("echo", f)' => Out("echo", f)
            /\ Calm /\ UNCHANGED word
            => EchoSettled'
         /\ UNCHANGED <<posted, spc, sev>> => OneClear'
         /\ UNCHANGED <<wire, queue_, relay, posted, spc, sev, word, syn_seq, wpc, wpkt, wword>>
            => Reflecting'
         /\ UNCHANGED <<wpc, wpkt, wword, phase, word, spc, sword>> => Loaded'
         /\ UNCHANGED <<word, entry, spc, sev>> => Entries'
<1> USE DEF ReflectionInv
<1>1. (\A f \in Flows : Out("echo", f)' => Out("echo", f)) /\ Calm /\ UNCHANGED word => EchoSettled'
  BY DEF EchoSettled, Settled, slot, Calm
<1>2. UNCHANGED <<posted, spc, sev>> => OneClear' BY DEF OneClear, Handling
<1>3. UNCHANGED <<wire, queue_, relay, posted, spc, sev, word, syn_seq, wpc, wpkt, wword>>
      => Reflecting'
  BY DEF Reflecting, InUse, ClearOut, Handling, slot, On, wflow
<1>4. UNCHANGED <<wpc, wpkt, wword, phase, word, spc, sword>> => Loaded'
  BY DEF Loaded, On, wflow, slot
<1>5. UNCHANGED <<word, entry, spc, sev>> => Entries' BY DEF Entries, slot
<1> QED BY <1>1, <1>2, <1>3, <1>4, <1>5

\* The parts of DecisionInv about pending CONNECTs survive a calm step.
LEMMA CalmFrame ==
  ASSUME DecisionInv, Calm
  PROVE  /\ UNCHANGED <<word, queue_, wpc, wpkt, wword, wire>> => Consumed' /\ DirectSettled'
         /\ UNCHANGED <<now, netq, wpc, wpkt, eflow, syn_kernel_ts, word, ipc, iport, pinned_ts>>
            => Stamps'
<1> USE DEF DecisionInv, Calm
<1>1. UNCHANGED <<word, queue_, wpc, wpkt, wword, wire>> => Consumed'
  BY DEF Consumed, slot, On, wflow
<1>2. UNCHANGED <<word, queue_, wpc, wpkt, wword, wire>> => DirectSettled'
  BY DEF DirectSettled, Settled, slot, On, wflow
<1>3. UNCHANGED <<now, netq, wpc, wpkt, eflow, syn_kernel_ts, word, ipc, iport, pinned_ts>>
      => Stamps'
  BY DEF Stamps, Stamp, slot, On, wflow
<1> QED BY <1>1, <1>2, <1>3

\* What is older than t is older than any later time.
LEMMA AfterLater ==
  ASSUME TypeOK, NEW f, NEW t \in Nat, NEW u \in Nat, t <= u, After(f, t)
  PROVE  After(f, u)
<1>1. \A k \in DOMAIN sockq : sockq[k].ts \in Nat
  <2>1. sockq \in Seq(SockEvent) BY DEF TypeOK, KernelTypeOK
  <2>2. \A k \in DOMAIN sockq : sockq[k] \in SockEvent BY <2>1, ElementOfSeq, LenProperties
  <2> QED BY <2>2 DEF SockEvent
<1>2. spc # "idle" => sev.ts \in Nat BY StrandEventType
<1> QED BY <1>1, <1>2 DEF After, Handling

\* A flow's first CONNECT is queued, or lost.
LEMMA EventsConnect ==
  ASSUME KernelTypeOK, NEW f \in Flows, NEW e \in SockEvent, e.flow = f,
         sockq' = Append(sockq, e) \/ sockq' = sockq, UNCHANGED <<spc, sev>>,
         \A k \in DOMAIN sockq : sockq[k].flow # f, spc # "idle" => sev.flow # f
  PROVE  /\ \A g : g # f => /\ Out("connect", g)' <=> Out("connect", g)
                            /\ \A t : After(g, t) => After(g, t)'
         /\ \A t \in Nat : e.ts < t => After(f, t)'
         /\ \A k, g : Out(k, g)' => Out(k, g) \/ (k = e.kind /\ g = f)
         /\ FirstEvent => FirstEvent'
         /\ \A g : (\A k \in DOMAIN sockq : sockq[k].flow # g) /\ g # f
                   => \A k \in DOMAIN sockq' : sockq'[k].flow # g
<1>1. CASE sockq' = sockq
  BY <1>1 DEF Out, Queued, Handling, After, FirstEvent
<1>2. CASE sockq' = Append(sockq, e)
  <2>1. /\ DOMAIN sockq = 1 .. Len(sockq) /\ DOMAIN sockq' = 1 .. (Len(sockq) + 1)
        /\ Len(sockq) \in Nat /\ sockq'[Len(sockq) + 1] = e
        /\ \A k \in 1 .. Len(sockq) : sockq'[k] = sockq[k]
    BY <1>2, AppendProperties, LenProperties DEF KernelTypeOK
  <2>2. \A k, g : g # f => (Queued(k, g)' <=> Queued(k, g)) BY <2>1 DEF Queued
  <2>3. \A k, g : Handling(k, g)' <=> Handling(k, g) BY DEF Handling
  <2>7. \A k, g : Queued(k, g)' => Queued(k, g) \/ (k = e.kind /\ g = f) BY <2>1 DEF Queued
  <2>4. \A g, t : g # f /\ After(g, t) => After(g, t)' BY <2>1, <2>3 DEF After
  <2>5. \A t \in Nat : e.ts < t => After(f, t)' BY <2>1 DEF After, Handling
  <2>6. FirstEvent => FirstEvent'
    <3> SUFFICES ASSUME FirstEvent PROVE FirstEvent' OBVIOUS
    <3>1. \A k, l \in DOMAIN sockq' :
          k < l /\ sockq'[k].flow = sockq'[l].flow => sockq'[l].kind # "connect"
      BY <2>1 DEF FirstEvent
    <3> QED BY <2>2, <3>1 DEF FirstEvent
  <2> QED BY <2>1, <2>2, <2>3, <2>4, <2>5, <2>6, <2>7 DEF Out
<1> QED BY <1>1, <1>2

\* What each thread's steps leave alone.
KernelFrame == UNCHANGED <<trackerVars, parkerVars, socketVars, workerVars, relayVars>>

\* A release request of the port of f is about the SYN of f.
LEMMA QueuePort ==
  ASSUME OnePerPort, IInv, NEW f \in Flows, NEW k \in DOMAIN queue_, queue_[k].port = PortOf[f]
  PROVE  queue_[k].idx \in PoolIdx /\ eflow[queue_[k].idx] = f
<1>1. queue_[k].idx \in PoolIdx BY QueueElement DEF IInv, TypeOK, ReleaseReq
<1>2. HasPort(queue_[k].idx) /\ eport(queue_[k].idx) = PortOf[f]
  BY DEF IInv, PoolOwnership, ReferencesValid, RefValid
<1> QED BY <1>1, <1>2 DEF OnePerPort, HasPort, eport, IInv, TypeOK, ParkerTypeOK

-----------------------------------------------------------------------------
\* The stack, the applications and the relays.

\* connect(): the flow was untouched, so nothing yet speaks of it.
LEMMA AppConnectKept ==
  ASSUME Ready, NEW f \in Flows, AppConnect(f), KernelFrame PROVE Kept
<1> USE DEF Ready
<1>1. /\ UNCHANGED <<wire, relay, word, spc, sev, sword, posted, wpc, wpkt, wword, queue_,
                     eflow, syn_kernel_ts, ipc, iport, pinned_ts, syn_seq, entry>>
      /\ phase[f] = "idle" /\ netq' = netq \cup {[flow |-> f, ts |-> now + 4]}
      /\ phase' = [phase EXCEPT ![f] = "syn"] /\ now \in Nat /\ now' = now + 3
  BY DEF AppConnect, KernelFrame, trackerVars, parkerVars, poolVars, injectorVars, socketVars,
         workerVars, relayVars, CONNECT_TS, IInv, TypeOK, KernelTypeOK
<1>2. phase'[f] = "syn" /\ \A g \in Flows \ {f} : phase'[g] = phase[g]
  BY <1>1 DEF IInv, TypeOK, KernelTypeOK
<1>3. PICK e \in SockEvent : /\ e.kind = "connect" /\ e.flow = f /\ e.ts = now + 3
                             /\ sockq' = Append(sockq, e) \/ sockq' = sockq
  <2>1. [kind |-> "connect", flow |-> f, ts |-> now + 3] \in SockEvent BY <1>1 DEF SockEvent
  <2> QED BY <2>1 DEF AppConnect, CONNECT_TS
<1>u. /\ wire[f] = "none" /\ relay[f] = "none" /\ slot(f) = "empty"
      /\ \A k \in DOMAIN sockq : sockq[k].flow # f
      /\ spc # "idle" => sev.flow # f
      /\ \A pkt \in netq : pkt.flow # f
      /\ \A w \in Workers : ~On(w, f)
      /\ \A i \in PoolIdx : eflow[i] # f
      /\ ipc = "cas" => iport # PortOf[f]
  BY <1>1 DEF DecisionInv, Untouched, slot, EMPTY_WORD, decided_word
<1>e. /\ \A g : g # f => /\ Out("connect", g)' <=> Out("connect", g)
                         /\ \A t : After(g, t) => After(g, t)'
      /\ \A t \in Nat : now + 3 < t => After(f, t)'
      /\ FirstEvent => FirstEvent'
      /\ \A g : (\A k \in DOMAIN sockq : sockq[k].flow # g) /\ g # f
                => \A k \in DOMAIN sockq' : sockq'[k].flow # g
  <2>1. KernelTypeOK BY DEF IInv, TypeOK
  <2>2. UNCHANGED <<spc, sev>> BY <1>1
  <2>3. /\ \A g : g # f => /\ Out("connect", g)' <=> Out("connect", g)
                           /\ \A t : After(g, t) => After(g, t)'
        /\ \A t \in Nat : e.ts < t => After(f, t)'
        /\ FirstEvent => FirstEvent'
        /\ \A g : (\A k \in DOMAIN sockq : sockq[k].flow # g) /\ g # f
                  => \A k \in DOMAIN sockq' : sockq'[k].flow # g
    BY <1>3, <1>u, <2>1, <2>2, EventsConnect
  <2> QED BY <1>3, <2>3
<1>w. /\ \A w, g : On(w, g)' <=> On(w, g)
      /\ \A g : slot(g)' = slot(g)
  BY <1>1 DEF On, wflow, slot
<1>4. Untouched' BY <1>1, <1>2, <1>e, <1>w DEF DecisionInv, Untouched
<1>5. Stamps'
  <2>1. \A g \in Flows, t \in Nat : Stamp(g, t)' => Stamp(g, t) \/ t = now + 4
    BY <1>1, <1>w DEF Stamp
  <2>5. \A g \in Flows : After(g, now + 4)
    <3>1. \A g \in Flows : After(g, now + 1) BY <1>1 DEF DecisionInv, Stamps, Stamp
    <3> QED BY <1>1, <3>1, AfterLater DEF IInv
  <2>6. \A g \in Flows, t \in Nat : t = now + 4 => After(g, t) BY <1>1, <2>5
  <2>2. \A g \in Flows, t \in Nat : Stamp(g, t) \/ t = now + 4 => After(g, t)
    BY <2>6 DEF DecisionInv, Stamps
  <2>3. \A g \in Flows, t \in Nat : g # f /\ Stamp(g, t)' => After(g, t)' BY <1>e, <2>1, <2>2
  <2>4. \A t \in Nat : Stamp(f, t)' => After(f, t)'
    <3>1. \A t \in Nat : Stamp(f, t)' => t = now + 4 BY <1>1, <1>u, <1>w DEF Stamp
    <3> QED BY <1>1, <1>e, <3>1
  <2> QED BY <2>3, <2>4 DEF Stamps
<1>6. OneSyn' BY <1>1, <1>u, <1>w DEF DecisionInv, OneSyn
<1>7. FirstEvent' BY <1>e DEF DecisionInv
<1>8. Relays' BY <1>1, <1>2, <1>u DEF DecisionInv, Relays, Handling
<1>q. \A k \in DOMAIN queue_ : queue_[k].port # PortOf[f] BY <1>u, QueuePort
<1>9. Consumed' BY <1>1, <1>u, <1>e, <1>w, <1>q DEF DecisionInv, Consumed
<1>10. DirectSettled' BY <1>1, <1>u, <1>e, <1>w, <1>q DEF DecisionInv, DirectSettled, Settled
<1>h. DecisionInv'
  BY <1>1, <1>4, <1>5, <1>6, <1>7, <1>8, <1>9, <1>10, DecisionFrame DEF DecisionInv
<1>z. ASSUME Reflects PROVE ReflectionInv'
  <2> USE <1>z DEF Reflects
  <2>1. ~Out("echo", f) BY <1>u DEF Out, Queued, Handling
  <2>4. \A g : Out("echo", g)' => Out("echo", g)
    <3>1. KernelTypeOK BY DEF IInv, TypeOK
    <3>2. UNCHANGED <<spc, sev>> BY <1>1
    <3>3. \A k, g : Out(k, g)' => Out(k, g) \/ (k = e.kind /\ g = f)
      BY <1>3, <1>u, <3>1, <3>2, EventsConnect
    <3> QED BY <1>3, <3>3
  <2>2. EchoSettled' BY <2>1, <2>4, <1>e, <1>w DEF ReflectionInv, EchoSettled, Settled
  <2>3. Loaded' BY <1>1, <1>2, <1>u, <1>w DEF ReflectionInv, Loaded
  <2> QED BY <1>1, <2>2, <2>3, ReflectionFrame DEF ReflectionInv
<1> QED BY <1>h, <1>z DEF Kept

\* A retransmission comes when no worker holds a SYN of the flow.
LEMMA SynRetransmitKept ==
  ASSUME Ready, NEW f \in Flows, SynRetransmit(f), SynHandled(f), KernelFrame PROVE Kept
<1> USE DEF Ready
<1>1. /\ UNCHANGED <<now, phase, wire, relay, word, sockq, spc, sev, sword, posted, wpc, wpkt,
                     wword, queue_, eflow, syn_kernel_ts, ipc, iport, pinned_ts, syn_seq, entry>>
      /\ phase[f] = "syn" /\ netq' = netq \cup {[flow |-> f, ts |-> now + 1]}
      /\ \A pkt \in netq : pkt.flow # f
      /\ \A w \in Workers : ~On(w, f)
  BY DEF SynRetransmit, KernelFrame, SynHandled, trackerVars, parkerVars, poolVars, injectorVars,
         socketVars, workerVars, relayVars, SYN_TS, On, wflow
<1>2. Calm BY <1>1, EventsFrame
<1>w. /\ \A w, g : On(w, g)' <=> On(w, g)
      /\ \A g : slot(g)' = slot(g)
  BY <1>1 DEF On, wflow, slot
<1>3. Untouched' BY <1>1, <1>w DEF DecisionInv, Untouched
<1>4. Stamps' BY <1>1, <1>2, <1>w DEF DecisionInv, Stamps, Stamp, Calm
<1>5. OneSyn' BY <1>1, <1>w DEF DecisionInv, OneSyn
<1>h. DecisionInv'
  BY <1>1, <1>2, <1>3, <1>4, <1>5, DecisionFrame, CalmFrame DEF DecisionInv
<1>z. ASSUME Reflects PROVE ReflectionInv'
  <2> USE <1>z DEF Reflects
  <2>1. \A g : Out("echo", g)' => Out("echo", g) BY <1>1, EventsFrame
  <2> QED BY <1>1, <1>2, <2>1, ReflectionFrame DEF ReflectionInv
<1> QED BY <1>h, <1>z DEF Kept

\* The answer to a SYN changes nothing clew keeps.
LEMMA EstablishKept ==
  ASSUME Ready, NEW f \in Flows, Establish(f), KernelFrame PROVE Kept
<1> USE DEF Ready
<1>1. /\ UNCHANGED <<now, wire, relay, word, sockq, netq, spc, sev, sword, posted, wpc, wpkt,
                     wword, queue_, eflow, syn_kernel_ts, ipc, iport, pinned_ts, syn_seq, entry>>
      /\ phase[f] = "syn" /\ phase' = [phase EXCEPT ![f] = "est"]
      /\ phase'[f] = "est" /\ \A g \in Flows \ {f} : phase'[g] = phase[g]
  BY DEF Establish, KernelFrame, trackerVars, parkerVars, poolVars, injectorVars, socketVars,
         workerVars, relayVars, IInv, TypeOK, KernelTypeOK
<1>2. Calm BY <1>1, EventsFrame
<1>w. \A w, g : On(w, g)' <=> On(w, g) BY <1>1 DEF On, wflow
<1>3. Untouched' BY <1>1, <1>w DEF DecisionInv, Untouched
<1>4. Relays' BY <1>1 DEF DecisionInv, Relays, Handling
<1>h. DecisionInv'
  BY <1>1, <1>2, <1>3, <1>4, DecisionFrame, CalmFrame DEF DecisionInv
<1>z. ASSUME Reflects PROVE ReflectionInv'
  <2> USE <1>z DEF Reflects
  <2>1. \A g : Out("echo", g)' => Out("echo", g) BY <1>1, EventsFrame
  <2>2. Loaded' BY <1>1, <1>w DEF ReflectionInv, Loaded, slot
  <2> QED BY <1>1, <1>2, <2>1, <2>2, ReflectionFrame DEF ReflectionInv
<1> QED BY <1>h, <1>z DEF Kept

\* closesocket(): a CLOSE is queued behind the CONNECT.
LEMMA AppCloseKept ==
  ASSUME Ready, NEW f \in Flows, AppClose(f), KernelFrame PROVE Kept
<1> USE DEF Ready
<1>1. /\ UNCHANGED <<wire, relay, word, netq, spc, sev, sword, posted, wpc, wpkt,
                     wword, queue_, eflow, syn_kernel_ts, ipc, iport, pinned_ts, syn_seq, entry>>
      /\ phase[f] \in {"syn", "est"}
      /\ phase'[f] = IF phase[f] = "est" THEN "closed" ELSE "aborted"
      /\ \A g \in Flows \ {f} : phase'[g] = phase[g]
      /\ now \in Nat /\ now' = now + 4
  BY DEF AppClose, KernelFrame, CLOSE_TS, trackerVars, parkerVars, poolVars, injectorVars,
         socketVars, workerVars, relayVars, IInv, TypeOK, KernelTypeOK
<1>e. PICK e \in SockEvent : e.kind = "close" /\ e.flow = f /\ sockq' = Append(sockq, e)
  <2>1. [kind |-> "close", flow |-> f, ts |-> now + 3] \in SockEvent BY <1>1 DEF SockEvent
  <2> QED BY <2>1 DEF AppClose, CLOSE_TS
<1>2. /\ Calm
      /\ FirstEvent => FirstEvent'
      /\ \A g : (\A k \in DOMAIN sockq : sockq[k].flow # g) /\ e.flow # g
                   => \A k \in DOMAIN sockq' : sockq'[k].flow # g
  <2>1. sockq \in Seq(SockEvent) BY DEF IInv, TypeOK, KernelTypeOK
  <2> QED BY <1>1, <1>e, <2>1, EventsAppend
<1>w. /\ \A w, g : On(w, g)' <=> On(w, g)
      /\ \A g : slot(g)' = slot(g)
  BY <1>1 DEF On, wflow, slot
<1>3. Untouched' BY <1>1, <1>e, <1>2, <1>w DEF DecisionInv, Untouched
<1>4. Stamps'
  <2>1. \A g \in Flows : After(g, now + 4 + 1)
    <3>1. \A g \in Flows : After(g, now + 1) BY <1>1 DEF DecisionInv, Stamps, Stamp
    <3> QED BY <1>1, <3>1, AfterLater DEF IInv
  <2>2. \A g \in Flows, t \in Nat : t = now + 5 => After(g, t) BY <1>1, <2>1
  <2> QED BY <1>1, <1>2, <1>w, <2>2 DEF DecisionInv, Stamps, Stamp, Calm
<1>5. Relays' BY <1>1 DEF DecisionInv, Relays, Handling
<1>h. DecisionInv'
  BY <1>1, <1>2, <1>3, <1>4, <1>5, DecisionFrame, CalmFrame DEF DecisionInv
<1>z. ASSUME Reflects PROVE ReflectionInv'
  <2> USE <1>z DEF Reflects
  <2>1. \A g : Out("echo", g)' => Out("echo", g)
    <3>1. sockq \in Seq(SockEvent) BY DEF IInv, TypeOK, KernelTypeOK
    <3> QED BY <1>1, <1>e, <3>1, EventsAppend
  <2>2. Loaded' BY <1>1, <1>w DEF ReflectionInv, Loaded, slot
  <2> QED BY <1>1, <1>2, <2>1, <2>2, ReflectionFrame DEF ReflectionInv
<1> QED BY <1>h, <1>z DEF Kept

\* Time passes: what is stamped later stays later.
LEMMA PauseKept ==
  ASSUME Ready, NEW due, Pause(due), KernelFrame PROVE Kept
<1> USE DEF Ready
<1>1. /\ UNCHANGED <<phase, wire, relay, word, sockq, netq, spc, sev, sword, posted, wpc, wpkt,
                     wword, queue_, eflow, syn_kernel_ts, ipc, iport, pinned_ts, syn_seq, entry>>
      /\ now \in Nat /\ now' \in Nat /\ now <= now'
  BY FlowAssumption
        DEF Pause, KernelFrame, trackerVars, parkerVars, poolVars, injectorVars, socketVars,
         workerVars, relayVars, IInv, TypeOK, KernelTypeOK
<1>2. Calm BY <1>1, EventsFrame
<1>w. /\ \A w, g : On(w, g)' <=> On(w, g)
      /\ \A g : slot(g)' = slot(g)
  BY <1>1 DEF On, wflow, slot
<1>3. Stamps'
  <2>0. PICK n \in Nat : n = now' /\ now <= n BY <1>1
  <2>1. \A g \in Flows : After(g, n + 1)
    <3>1. \A g \in Flows : After(g, now + 1) BY <1>1 DEF DecisionInv, Stamps, Stamp
    <3>2. now \in Nat /\ now <= n BY <1>1, <2>0
    <3>3. now + 1 \in Nat /\ n + 1 \in Nat /\ now + 1 <= n + 1 BY <3>2
    <3> QED BY <3>1, <3>3, AfterLater DEF IInv
  <2>2. \A g \in Flows, t \in Nat : t = n + 1 => After(g, t) BY <2>1
  <2> QED BY <1>1, <1>2, <1>w, <2>0, <2>2 DEF DecisionInv, Stamps, Stamp, Calm
<1>h. DecisionInv'
  BY <1>1, <1>2, <1>3, DecisionFrame, CalmFrame DEF DecisionInv
<1>z. ASSUME Reflects PROVE ReflectionInv'
  <2> USE <1>z DEF Reflects
  <2>1. \A g : Out("echo", g)' => Out("echo", g) BY <1>1, EventsFrame
  <2> QED BY <1>1, <1>2, <2>1, ReflectionFrame DEF ReflectionInv
<1> QED BY <1>h, <1>z DEF Kept

\* Every step of the stack keeps both invariants.
LEMMA KernelKept ==
  ASSUME Ready, "core" \notin Lagging, KernelStep PROVE Kept
<1>1. KernelFrame BY DEF KernelStep, KernelFrame
<1> QED BY <1>1, AppConnectKept, SynRetransmitKept, EstablishKept, AppCloseKept, PauseKept
        DEF KernelStep

\* A relay asks for one clear, of the flow it served.
LEMMA RelayKept ==
  ASSUME Ready, RelayStep PROVE Kept
<1> USE DEF Ready
<1>0. PICK f \in Flows : RelayAccept(f) \/ RelayRefuse(f) \/ RelayEnd(f)
  BY DEF RelayStep, RelayNext
<1>1. /\ UNCHANGED <<now, phase, wire, word, sockq, netq, spc, sev, sword, wpc, wpkt,
                     wword, queue_, eflow, syn_kernel_ts, ipc, iport, pinned_ts, syn_seq, entry>>
      /\ \/ /\ relay[f] = "none" /\ wire[f] = "proxied" /\ phase[f] \in {"est", "closed"}
            /\ posted' = posted
         \/ /\ relay[f] = "serving" /\ relay'[f] = "gone"
            /\ \E r : r.flow = f /\ posted' = posted \cup {r}
      /\ relay'[f] # "none" /\ \A g \in Flows \ {f} : relay'[g] = relay[g]
      /\ relay'[f] \in {"serving", "gone"}
  BY <1>0 DEF RelayStep, RelayAccept, RelayRefuse, RelayEnd, kernelVars, trackerVars, parkerVars,
              poolVars, injectorVars, socketVars, workerVars, IInv, TypeOK, RelayTypeOK
<1>2. Calm BY <1>1, EventsFrame
<1>w. \A w, g : On(w, g)' <=> On(w, g) BY <1>1 DEF On, wflow
<1>3. Untouched' BY <1>1, <1>w DEF DecisionInv, Untouched
<1>4. Relays' BY <1>1 DEF DecisionInv, Relays, Handling
<1>h. DecisionInv'
  BY <1>1, <1>2, <1>3, <1>4, DecisionFrame, CalmFrame DEF DecisionInv
<1>z. ASSUME Reflects PROVE ReflectionInv'
  <2> USE <1>z DEF Reflects
  <2>1. \A g : Out("echo", g)' => Out("echo", g) BY <1>1, EventsFrame
  <2>2. \A g : Handling("clear", g)' <=> Handling("clear", g) BY <1>1 DEF Handling
  <2>3. OneClear'
    <3>1. CASE posted' = posted BY <3>1, <1>1, ReflectionFrame
    <3>2. CASE posted' # posted
      <4>1. PICK r : r.flow = f /\ posted' = posted \cup {r} BY <1>1, <3>2
      <4>2. (\A s \in posted : s.flow # f) /\ ~Handling("clear", f)
        BY <1>1, <3>2 DEF DecisionInv, Relays
      <4>3. \A s \in posted : ~Handling("clear", s.flow)'
        BY <1>1 DEF ReflectionInv, OneClear, Handling
      <4>4. ~Handling("clear", r.flow)' BY <2>2, <4>1, <4>2 DEF Handling
      <4> QED BY <4>1, <4>2, <4>3, <4>4 DEF ReflectionInv, OneClear
    <3> QED BY <3>1, <3>2
  <2>4. Reflecting'
    <3>1. \A g \in Flows : InUse(g)' => InUse(g)
      <4>1. \A g \in Flows : g # f /\ ClearOut(g)' => ClearOut(g) BY <1>1, <2>2 DEF ClearOut
      <4> QED BY <1>1, <4>1 DEF InUse
    <3> QED BY <1>1, <1>w, <3>1 DEF ReflectionInv, Reflecting, slot
  <2> QED BY <1>1, <1>2, <2>1, <2>3, <2>4, ReflectionFrame DEF ReflectionInv
<1> QED BY <1>h, <1>z DEF Kept

StrandFrame == UNCHANGED <<workerVars, relayVars>>

-----------------------------------------------------------------------------
\* The strand.

\* The strand's flow was opened, and no CONNECT of it is behind.
LEMMA StrandFlow ==
  ASSUME IInv, DecisionInv, spc # "idle"
  PROVE  /\ sev.flow \in Flows /\ sev \in StrandEvent /\ phase[sev.flow] # "idle"
         /\ ~Queued("connect", sev.flow)
<1>1. sev.flow \in Flows /\ sev \in StrandEvent BY StrandEventType DEF IInv
<1>2. phase[sev.flow] # "idle" BY <1>1 DEF DecisionInv, Untouched
<1>3. ~Queued("connect", sev.flow)
  <2>1. PICK f \in Flows : f = sev.flow BY <1>1
  <2>2. ~Queued("connect", f) BY <2>1 DEF DecisionInv, FirstEvent
  <2> QED BY <2>1, <2>2 DEF Queued
<1> QED BY <1>1, <1>2, <1>3

\* The strand takes a CONNECT, an echo or a CLOSE.
LEMMA TakeKept ==
  ASSUME Ready, OnConnect \/ OnClose, StrandFrame PROVE Kept
<1> USE DEF Ready
<1>1. /\ UNCHANGED <<now, phase, wire, relay, word, netq, sword, posted, wpc, wpkt, wword, queue_,
                     eflow, syn_kernel_ts, ipc, iport, pinned_ts, syn_seq, entry>>
      /\ spc = "idle" /\ sockq # <<>> /\ sockq' = Tail(sockq)
      /\ \/ spc' = "idle"
         \/ spc' = "pub_load" /\ sev' = Head(sockq) /\ Head(sockq).kind \in {"connect", "echo"}
         \/ spc' = "close_load" /\ sev' = Head(sockq) /\ Head(sockq).kind = "close"
  BY DEF OnConnect, OnClose, TakeEvent, StrandFrame, trackerVars, parkerVars, poolVars,
         injectorVars, workerVars, relayVars
<1>2. /\ Calm
      /\ FirstEvent => FirstEvent'
      /\ \A f : (\A k \in DOMAIN sockq : sockq[k].flow # f)
                => /\ \A k \in DOMAIN sockq' : sockq'[k].flow # f
                   /\ Head(sockq).flow # f
  <2>1. sockq \in Seq(SockEvent) BY DEF IInv, TypeOK, KernelTypeOK
  <2> QED BY <1>1, <2>1, EventsTail
<1>o. \A k, g : Out(k, g)' => Out(k, g)
  <2>1. sockq \in Seq(SockEvent) BY DEF IInv, TypeOK, KernelTypeOK
  <2> QED BY <1>1, <2>1, EventsTail
<1>w. \A w, g : On(w, g)' <=> On(w, g) BY <1>1 DEF On, wflow
<1>3. Untouched' BY <1>1, <1>2, <1>w DEF DecisionInv, Untouched
<1>4. HandlerKind' BY <1>1 DEF DecisionInv, HandlerKind
<1>5. Relays' BY <1>1 DEF DecisionInv, Relays, Handling
<1>6. Verdicts' BY <1>1 DEF DecisionInv, Verdicts, slot
<1>h. DecisionInv'
  BY <1>1, <1>2, <1>3, <1>4, <1>5, <1>6, DecisionFrame, CalmFrame DEF DecisionInv
<1>z. ASSUME Reflects PROVE ReflectionInv'
  <2> USE <1>z DEF Reflects
  <2>1. \A g : ~Handling("clear", g)' BY <1>1 DEF Handling
  <2>2. OneClear' BY <1>1, <2>1 DEF ReflectionInv, OneClear
  <2>3. \A g \in Flows : InUse(g)' => InUse(g) BY <1>1, <2>1 DEF InUse, ClearOut
  <2>4. Reflecting' BY <1>1, <1>w, <2>3 DEF ReflectionInv, Reflecting, slot
  <2>5. Loaded' BY <1>1, <1>w DEF ReflectionInv, Loaded, slot
  <2>6. Entries' BY <1>1 DEF ReflectionInv, Entries, slot
  <2> QED BY <1>1, <1>2, <1>o, <2>2, <2>4, <2>5, <2>6, ReflectionFrame DEF ReflectionInv
<1> QED BY <1>h, <1>z DEF Kept

\* The strand takes a clear: its flow was reflected, its CONNECT is used up.
LEMMA TakeClearKept ==
  ASSUME Ready, NEW r \in posted, TakeClear(r), StrandFrame PROVE Kept
<1> USE DEF Ready
<1>1. /\ UNCHANGED <<now, phase, wire, relay, word, sockq, netq, sword, wpc, wpkt, wword, queue_,
                     eflow, syn_kernel_ts, ipc, iport, pinned_ts, syn_seq, entry>>
      /\ spc = "idle" /\ posted' = posted \ {r} /\ r.flow \in Flows
      /\ spc' = "clear_load" /\ sev'.kind = "clear" /\ sev'.flow = r.flow
  BY DEF TakeClear, StrandFrame, kernelVars, trackerVars, parkerVars, poolVars, injectorVars,
         workerVars, relayVars, IInv, TypeOK, SocketTypeOK, ClearReq
<1>r. PICK f \in Flows : f = r.flow BY <1>1
<1>2. relay[f] = "gone" /\ wire[f] = "proxied" /\ phase[f] # "idle"
  BY <1>1, <1>r DEF DecisionInv, Relays
<1>3. ~Out("connect", f) BY <1>2 DEF DecisionInv, Consumed
<1>4. Calm BY <1>1 DEF Calm, Out, Queued, Handling, After
<1>w. \A w, g : On(w, g)' <=> On(w, g) BY <1>1 DEF On, wflow
<1>5. Untouched' BY <1>1, <1>r, <1>2, <1>w DEF DecisionInv, Untouched
<1>6. HandlerKind' BY <1>1 DEF DecisionInv, HandlerKind
<1>7. FirstEvent'
  <2>1. \A g : Queued("connect", g)' <=> Queued("connect", g) BY <1>1 DEF Queued
  <2>2. ~Queued("connect", f)' BY <1>3, <2>1 DEF Out
  <2> QED BY <1>1, <1>r, <2>2 DEF DecisionInv, FirstEvent
<1>8. Relays' BY <1>1, <1>r, <1>2 DEF DecisionInv, Relays, Handling
<1>9. Verdicts' BY <1>1 DEF DecisionInv, Verdicts, slot
<1>h. DecisionInv'
  BY <1>1, <1>4, <1>5, <1>6, <1>7, <1>8, <1>9, DecisionFrame, CalmFrame DEF DecisionInv
<1>z. ASSUME Reflects PROVE ReflectionInv'
  <2> USE <1>z DEF Reflects
  <2>1. \A g : Out("echo", g)' => Out("echo", g) BY <1>1 DEF Out, Queued, Handling
  <2>2. \A g : Handling("clear", g)' <=> g = f BY <1>1, <1>r DEF Handling
  <2>3. OneClear' BY <1>1, <1>r, <2>2 DEF ReflectionInv, OneClear
  <2>4. \A g \in Flows : ClearOut(g)' => ClearOut(g) BY <1>1, <1>r, <2>2 DEF ClearOut
  <2>5. \A g \in Flows : InUse(g)' => InUse(g) BY <1>1, <2>4 DEF InUse
  <2>6. Reflecting' BY <1>1, <1>w, <2>5 DEF ReflectionInv, Reflecting, slot
  <2>7. Loaded' BY <1>1, <1>w DEF ReflectionInv, Loaded, slot
  <2>8. Entries' BY <1>1 DEF ReflectionInv, Entries, slot
  <2> QED BY <1>1, <1>4, <2>1, <2>3, <2>6, <2>7, <2>8, ReflectionFrame DEF ReflectionInv
<1> QED BY <1>h, <1>z DEF Kept

\* The loads: publish() gets past an abandoned slot only with a CONNECT that is
\* younger than the pin, and none is.
LEMMA LoadKept ==
  ASSUME Ready, PublishLoad \/ CloseLoad \/ ClearLoad, StrandFrame PROVE Kept
<1> USE DEF Ready
<1>1. /\ UNCHANGED <<now, phase, wire, relay, word, sockq, netq, posted, wpc, wpkt, wword, queue_,
                     eflow, syn_kernel_ts, ipc, iport, pinned_ts, syn_seq>>
      /\ spc # "idle"
      /\ \/ spc' = "idle"
         \/ /\ sev' = sev
            /\ \/ spc = "pub_load" /\ spc' = "pub_cas" /\ sword' = word[sport]
                  /\ ~late_rejected(sport, word[sport], sev.ts)
               \/ spc = "close_load" /\ spc' = "close_cas" /\ sword'.st # "proxied"
               \/ spc = "clear_load" /\ spc' = "clear_cas"
  BY DEF PublishLoad, CloseLoad, ClearLoad, Return, close_ignored, StrandFrame, kernelVars,
         trackerVars, parkerVars, poolVars, injectorVars, workerVars, relayVars
<1>2. /\ \A k, f : Handling(k, f)' => Handling(k, f)
      /\ Calm
      /\ FirstEvent => FirstEvent'
  BY <1>1, EventsHandler
<1>n. \/ entry' = entry /\ spc' # "pub_cas"
      \/ spc' = "pub_cas" /\ sev' = sev /\ entry' = [entry EXCEPT ![sport] = RemoteOf[sev.flow]]
  BY DEF PublishLoad, CloseLoad, ClearLoad, Return, trackerVars
<1>w. \A w, g : On(w, g)' <=> On(w, g) BY <1>1 DEF On, wflow
<1>3. Untouched' BY <1>1, <1>w DEF DecisionInv, Untouched
<1>4. HandlerKind' BY <1>1 DEF DecisionInv, HandlerKind
<1>5. Relays' BY <1>1, <1>2 DEF DecisionInv, Relays
<1>6. Verdicts'
  <2>1. \A f \in Flows : slot(f)' = "proxied" => Verdict[f] = "proxied"
    BY <1>1 DEF DecisionInv, Verdicts, slot
  <2>2. ASSUME spc' = "pub_cas", sev'.kind = "connect", sword'.st = "abandoned" PROVE FALSE
    <3>1. spc = "pub_load" /\ sev' = sev /\ sword' = word[sport] /\ sev.kind = "connect"
      BY <1>1, <2>2
    <3>2. PICK f \in Flows : f = sev.flow BY <1>1, StrandFlow
    <3>3. slot(f) = "abandoned" BY <2>2, <3>1, <3>2 DEF slot, sport
    <3>4. PICK t \in Nat : t = pinned_ts[PortOf[f]]
      BY FlowAssumption DEF IInv, TypeOK, TrackerTypeOK
    <3>5. After(f, t) BY <3>3, <3>4 DEF DecisionInv, Stamps, Stamp
    <3>6. sev.ts < pinned_ts[sport] BY <1>1, <3>1, <3>2, <3>4, <3>5 DEF After, Handling, sport
    <3> QED BY <1>1, <2>2, <3>1, <3>6 DEF late_rejected
  <2> QED BY <2>1, <2>2 DEF Verdicts
<1>h. DecisionInv'
  BY <1>1, <1>2, <1>3, <1>4, <1>5, <1>6, DecisionFrame, CalmFrame DEF DecisionInv
<1>z. ASSUME Reflects PROVE ReflectionInv'
  <2> USE <1>z DEF Reflects
  <2>f. PICK f \in Flows : f = sev.flow BY <1>1, StrandFlow
  <2>1. \A g : Out("echo", g)' => Out("echo", g) BY <1>1, EventsHandler
  <2>3. OneClear' BY <1>1, <1>2 DEF ReflectionInv, OneClear
  <2>5. \A g \in Flows : InUse(g)' => InUse(g) BY <1>1, <1>2 DEF InUse, ClearOut
  <2>6. Reflecting' BY <1>1, <1>w, <2>5 DEF ReflectionInv, Reflecting, slot
  <2>7. Loaded' BY <1>1, <1>w DEF ReflectionInv, Loaded, slot
  <2>8. Entries'
    <3>1. CASE entry' = entry /\ spc' # "pub_cas" BY <3>1, <1>1 DEF ReflectionInv, Entries, slot
    <3>2. CASE spc' = "pub_cas" /\ sev' = sev /\ entry' = [entry EXCEPT ![sport] = RemoteOf[sev.flow]]
      <4>1. entry' = [entry EXCEPT ![PortOf[f]] = RemoteOf[f]] BY <3>2, <2>f DEF sport
      <4>2. /\ DOMAIN entry' = Ports /\ entry'[PortOf[f]] = RemoteOf[f]
            /\ \A g \in Flows : g # f => entry'[PortOf[g]] = entry[PortOf[g]]
        BY <4>1, FlowAssumption DEF ReflectionInv, Entries, OnePerPort
      <4> QED BY <3>2, <4>2, <2>f, <1>1 DEF ReflectionInv, Entries, slot
    <3> QED BY <1>n, <3>1, <3>2
  <2> QED BY <1>1, <1>2, <2>1, <2>3, <2>6, <2>7, <2>8, ReflectionFrame DEF ReflectionInv
<1> QED BY <1>h, <1>z DEF Kept

\* A handler whose CAS lost loads again.
LEMMA CasLostKept ==
  ASSUME Ready, PublishCas \/ CloseCas \/ ClearCas, ~CasWins(sport, sword), StrandFrame PROVE Kept
<1> USE DEF Ready
<1>1. /\ UNCHANGED <<now, phase, wire, relay, word, sockq, netq, posted, sev, sword, wpc, wpkt,
                     wword, queue_, eflow, syn_kernel_ts, ipc, iport, pinned_ts, syn_seq, entry>>
      /\ spc # "idle"
      /\ \/ spc = "pub_cas" /\ spc' = "pub_load"
         \/ spc = "close_cas" /\ spc' = "close_load"
         \/ spc = "clear_cas" /\ spc' = "clear_load"
  BY DEF PublishCas, CloseCas, ClearCas, StrandFrame, kernelVars, trackerVars, parkerVars,
         poolVars, injectorVars, workerVars, relayVars
<1>2. /\ \A k, f : Handling(k, f)' => Handling(k, f)
      /\ Calm
      /\ FirstEvent => FirstEvent'
  BY <1>1, EventsHandler
<1>w. \A w, g : On(w, g)' <=> On(w, g) BY <1>1 DEF On, wflow
<1>3. Untouched' BY <1>1, <1>w DEF DecisionInv, Untouched
<1>4. HandlerKind' BY <1>1 DEF DecisionInv, HandlerKind
<1>5. Relays' BY <1>1, <1>2 DEF DecisionInv, Relays
<1>6. Verdicts' BY <1>1 DEF DecisionInv, Verdicts, slot
<1>h. DecisionInv'
  BY <1>1, <1>2, <1>3, <1>4, <1>5, <1>6, DecisionFrame, CalmFrame DEF DecisionInv
<1>z. ASSUME Reflects PROVE ReflectionInv'
  <2> USE <1>z DEF Reflects
  <2>1. \A g : Out("echo", g)' => Out("echo", g) BY <1>1, EventsHandler
  <2>3. OneClear' BY <1>1, <1>2 DEF ReflectionInv, OneClear
  <2>5. \A g \in Flows : InUse(g)' => InUse(g) BY <1>1, <1>2 DEF InUse, ClearOut
  <2>6. Reflecting' BY <1>1, <1>w, <2>5 DEF ReflectionInv, Reflecting, slot
  <2>7. Loaded' BY <1>1, <1>w DEF ReflectionInv, Loaded, slot
  <2>8. Entries' BY <1>1 DEF ReflectionInv, Entries, slot
  <2> QED BY <1>1, <1>2, <2>1, <2>3, <2>6, <2>7, <2>8, ReflectionFrame DEF ReflectionInv
<1> QED BY <1>h, <1>z DEF Kept

\* The slot of a flow is no other flow's.
LEMMA OwnPort ==
  ASSUME OnePerPort, IInv, NEW f \in Flows, NEW v, SetWord(PortOf[f], v)
  PROVE  word'[PortOf[f]] = v /\ \A g \in Flows : g # f => word'[PortOf[g]] = word[PortOf[g]]
BY FlowAssumption DEF OnePerPort, SetWord, IInv, TypeOK, TrackerTypeOK

\* publish(): the decision of the CONNECT, or a direct one for an echo, which
\* finds no proxied slot.
LEMMA PublishKept ==
  ASSUME Ready, PublishCas, CasWins(sport, sword), StrandFrame PROVE Kept
<1> USE DEF Ready
<1>1. /\ UNCHANGED <<now, phase, wire, relay, sockq, netq, posted, wpc, wpkt, wword,
                     eflow, syn_kernel_ts, ipc, iport, pinned_ts, syn_seq, entry>>
      /\ spc = "pub_cas" /\ spc' = "idle"
  BY DEF PublishCas, Return, StrandFrame, kernelVars, poolVars, injectorVars, workerVars, relayVars
<1>f. PICK f \in Flows : f = sev.flow BY <1>1, StrandFlow
<1>d. PICK d \in {"proxied", "direct"} : d = decide(sev) BY <1>1, StrandEventType DEF IInv
<1>2. /\ phase[f] # "idle" /\ ~Queued("connect", f)
      /\ sev.kind \in {"connect", "echo"}
  <2>1. ~Queued("connect", f) BY <1>1, <1>f, StrandFlow DEF Queued
  <2> QED BY <1>1, <1>f, <2>1, StrandFlow DEF DecisionInv, HandlerKind
<1>3. /\ \A k, g : Handling(k, g)' => Handling(k, g)
      /\ Calm
      /\ FirstEvent => FirstEvent'
  BY <1>1, EventsHandler
<1>4. ~Out("connect", f)' BY <1>1, <1>2 DEF Out, Queued, Handling
<1>5. /\ slot(f)' = d /\ word[PortOf[f]] = sword
      /\ \A g \in Flows : g # f => word'[PortOf[g]] = word[PortOf[g]] /\ slot(g)' = slot(g)
  <2>1. SetWord(PortOf[f], decided_word(d)) BY <1>f, <1>d DEF PublishCas, sport
  <2> QED BY <1>f, <2>1, OwnPort DEF slot, decided_word, CasWins, sport
<1>q. \A k \in DOMAIN queue_' :
        \/ k \in DOMAIN queue_ /\ queue_'[k] = queue_[k]
        \/ queue_'[k].port = PortOf[f] /\ queue_'[k].decision = d /\ sword.st = "pending"
  <2>1. CASE queue_' = queue_ BY <2>1
  <2>2. CASE queue_' # queue_
    <3>1. PICK r \in ReleaseReq : /\ queue_' = Append(queue_, r)
                                  /\ r.port = PortOf[f] /\ r.decision = d
                                  /\ sword.st = "pending"
      <4>1. sword.st = "pending" /\ sword \in Word /\ PortOf[f] \in Ports
        BY <2>2, FlowAssumption DEF PublishCas, handover, IInv, TypeOK, SocketTypeOK
      <4>2. [idx |-> sword.idx, gen |-> sword.gen, port |-> PortOf[f], decision |-> d]
              \in ReleaseReq
        BY <4>1, PendingFields DEF ReleaseReq
      <4> QED BY <2>2, <1>f, <1>d, <4>1, <4>2 DEF PublishCas, handover, release, sport
    <3>2. /\ DOMAIN queue_ = 1 .. Len(queue_) /\ DOMAIN queue_' = 1 .. (Len(queue_) + 1)
          /\ Len(queue_) \in Nat /\ queue_'[Len(queue_) + 1] = r
          /\ \A k \in 1 .. Len(queue_) : queue_'[k] = queue_[k]
      BY <3>1, AppendProperties, LenProperties DEF IInv, TypeOK, ParkerTypeOK
    <3> QED BY <3>1, <3>2
  <2> QED BY <2>1, <2>2
<1>w. \A w, g : On(w, g)' <=> On(w, g) BY <1>1 DEF On, wflow
<1>p. \A g \in Flows : PortOf[g] = PortOf[f] => g = f BY DEF OnePerPort
<1>6. Untouched' BY <1>1, <1>2, <1>5, <1>w DEF DecisionInv, Untouched
<1>7. Stamps' BY <1>1, <1>3, <1>5, <1>w DEF DecisionInv, Stamps, Stamp, Calm
<1>8. HandlerKind' BY <1>1 DEF HandlerKind
<1>9. Relays' BY <1>1, <1>3 DEF DecisionInv, Relays
<1>10. Consumed' BY <1>1, <1>3, <1>4, <1>5, <1>q, <1>w, <1>p DEF DecisionInv, Consumed, Calm
<1>s. /\ d = "direct" => Settled(f)'
      /\ \A g \in Flows : Settled(g) => Settled(g)'
  <2> SUFFICES ASSUME NEW g \in Flows, Settled(g) \/ (g = f /\ d = "direct")
               PROVE  Settled(g)'
    OBVIOUS
  <2>1. CASE g # f BY <2>1, <1>3, <1>5 DEF Settled, Calm
  <2>2. CASE g = f /\ (Verdict[f] = "direct" \/ d = "direct")
    BY <2>2, <1>4, <1>5 DEF Settled
  <2>3. CASE g = f /\ Verdict[f] # "direct" /\ d = "proxied"
    <3>1. sev.kind = "connect" BY <2>3, <1>2, <1>d DEF decide
    <3>2. Out("connect", f) BY <3>1, <1>1, <1>f DEF Out, Handling
    <3>4. sword.st = "abandoned" BY <2>3, <3>2, <1>5 DEF Settled, slot
    <3> QED BY <3>1, <3>4, <1>1 DEF DecisionInv, Verdicts
  <2> QED BY <2>1, <2>2, <2>3
<1>11. DirectSettled'
  <2> SUFFICES ASSUME NEW g \in Flows,
                      \/ wire'[g] = "direct"
                      \/ \E w \in Workers : On(w, g)' /\ wword'[w].st \in {"direct", "abandoned"}
                      \/ \E k \in DOMAIN queue_' :
                           queue_'[k].port = PortOf[g] /\ queue_'[k].decision = "direct"
               PROVE  Settled(g)'
    BY DEF DirectSettled
  <2>1. Settled(g) \/ (g = f /\ d = "direct")
    BY <1>1, <1>q, <1>w, <1>p DEF DecisionInv, DirectSettled
  <2> QED BY <2>1, <1>s
<1>12. Verdicts'
  <2>1. d = "proxied" => Verdict[f] = "proxied" BY <1>d, <1>f DEF decide
  <2> QED BY <2>1, <1>1, <1>5 DEF DecisionInv, Verdicts
<1>13. Noted' BY <1>1, <1>5, <1>w DEF DecisionInv, Noted
<1>14. Holding'
  <2>1. \A w \in Workers : wpc[w] # "recv" => wflow(w) \in Flows BY WorkerPacket DEF IInv
  <2>2. \A g \in Flows : word[PortOf[g]].st # "pending" => word'[PortOf[g]].st # "pending"
    BY <1>5 DEF slot
  <2> QED BY <1>1, <2>1, <2>2 DEF DecisionInv, Holding, wport, wflow
<1>h. DecisionInv'
  BY <1>3, <1>6, <1>7, <1>8, <1>9, <1>10, <1>11, <1>12, <1>13, <1>14, <1>1, DecisionFrame
        DEF DecisionInv
<1>z. ASSUME Reflects PROVE ReflectionInv'
  <2> USE <1>z DEF Reflects
  <2>1. \A g : Out("echo", g)' => Out("echo", g) BY <1>1, EventsHandler
  <2>2. EchoSettled' BY <2>1, <1>s DEF ReflectionInv, EchoSettled
  <2>3. OneClear' BY <1>1, <1>3 DEF ReflectionInv, OneClear
  <2>4. slot(f) # "proxied"
    <3>1. CASE sev.kind = "echo"
      <4>1. Settled(f) BY <3>1, <1>1, <1>f DEF ReflectionInv, EchoSettled, Out, Handling
      <4> QED BY <4>1 DEF DecisionInv, Verdicts, Settled
    <3>2. CASE sev.kind = "connect" BY <3>2, <1>1, <1>f DEF DecisionInv, Consumed, Out, Handling
    <3> QED BY <1>2, <3>1, <3>2
  <2>5. ~InUse(f) BY <2>4 DEF ReflectionInv, Reflecting
  <2>6. Reflecting'
    <3> SUFFICES ASSUME NEW g \in Flows, InUse(g)'
                 PROVE  /\ slot(g)' = "proxied" /\ syn_seq'[PortOf[g]] = g
                        /\ \A w \in Workers : On(w, g)' =>
                             wpc'[w] = "ttl" /\ wword'[w].st = "proxied"
      BY DEF Reflecting
    <3>1. InUse(g) \/ (g = f /\ d = "proxied" /\ sword.st = "pending")
      BY <1>1, <1>3, <1>q, <1>p DEF InUse, ClearOut
    <3>2. CASE InUse(g) BY <3>2, <2>5, <1>1, <1>5, <1>w DEF ReflectionInv, Reflecting
    <3>3. CASE g = f /\ d = "proxied" /\ sword.st = "pending"
      <4>1. slot(f) = "pending" BY <3>3, <1>5 DEF slot
      <4>2. syn_seq[PortOf[f]] = f BY <4>1 DEF DecisionInv, Noted
      <4>3. \A w \in Workers : ~On(w, f) BY <4>1 DEF DecisionInv, Holding, On, wport, slot
      <4> QED BY <3>3, <4>2, <4>3, <1>1, <1>5, <1>w
    <3> QED BY <3>1, <3>2, <3>3
  <2>7. Loaded' BY <2>4, <1>1, <1>5, <1>w DEF ReflectionInv, Loaded
  <2>8. Entries' BY <1>1, <1>5, <1>f DEF ReflectionInv, Entries
  <2> QED BY <2>2, <2>3, <2>6, <2>7, <2>8 DEF ReflectionInv
<1> QED BY <1>h, <1>z DEF Kept

\* on_close() and clear_if(): a slot is emptied whose flow is not reflected any
\* more.
LEMMA EmptiedKept ==
  ASSUME Ready, CloseCas \/ ClearCas, CasWins(sport, sword), StrandFrame PROVE Kept
<1> USE DEF Ready
<1>1. /\ UNCHANGED <<now, phase, wire, relay, sockq, netq, posted, wpc, wpkt, wword, queue_,
                     eflow, syn_kernel_ts, ipc, iport, pinned_ts, syn_seq, entry>>
      /\ spc # "idle" /\ spc' = "idle"
  BY DEF CloseCas, ClearCas, Return, StrandFrame, kernelVars, parkerVars, poolVars, injectorVars,
         workerVars, relayVars
<1>f. PICK f \in Flows : f = sev.flow BY <1>1, StrandFlow
<1>2. /\ phase[f] # "idle" /\ ~Queued("connect", f)
  <2>1. ~Queued("connect", f) BY <1>1, <1>f, StrandFlow DEF Queued
  <2> QED BY <1>1, <1>f, <2>1, StrandFlow
<1>3. /\ \A k, g : Handling(k, g)' => Handling(k, g)
      /\ Calm
      /\ FirstEvent => FirstEvent'
  BY <1>1, EventsHandler
<1>4. ~Out("connect", f)' BY <1>1, <1>2 DEF Out, Queued, Handling
<1>5. /\ slot(f)' = "empty"
      /\ \A g \in Flows : g # f => word'[PortOf[g]] = word[PortOf[g]] /\ slot(g)' = slot(g)
  <2>1. SetWord(PortOf[f], EMPTY_WORD) BY <1>f DEF CloseCas, ClearCas, sport
  <2> QED BY <2>1, OwnPort DEF slot, EMPTY_WORD, decided_word
<1>w. \A w, g : On(w, g)' <=> On(w, g) BY <1>1 DEF On, wflow
<1>6. Untouched' BY <1>1, <1>2, <1>5, <1>w DEF DecisionInv, Untouched
<1>7. Stamps' BY <1>1, <1>3, <1>5, <1>w DEF DecisionInv, Stamps, Stamp, Calm
<1>8. HandlerKind' BY <1>1 DEF HandlerKind
<1>9. Relays' BY <1>1, <1>3 DEF DecisionInv, Relays
<1>10. Consumed' BY <1>1, <1>3, <1>4, <1>5, <1>w DEF DecisionInv, Consumed, Calm
<1>s. \A g \in Flows : Settled(g) => Settled(g)' BY <1>3, <1>4, <1>5 DEF Settled, Calm
<1>11. DirectSettled' BY <1>1, <1>s, <1>w DEF DecisionInv, DirectSettled
<1>12. Verdicts' BY <1>1, <1>5 DEF DecisionInv, Verdicts
<1>13. Noted' BY <1>1, <1>5, <1>w DEF DecisionInv, Noted
<1>14. Holding'
  <2>1. \A w \in Workers : wpc[w] # "recv" => wflow(w) \in Flows BY WorkerPacket DEF IInv
  <2>2. \A g \in Flows : word[PortOf[g]].st # "pending" => word'[PortOf[g]].st # "pending"
    BY <1>5 DEF slot
  <2> QED BY <1>1, <2>1, <2>2 DEF DecisionInv, Holding, wport, wflow
<1>h. DecisionInv'
  BY <1>3, <1>6, <1>7, <1>8, <1>9, <1>10, <1>11, <1>12, <1>13, <1>14, <1>1, DecisionFrame
        DEF DecisionInv
<1>z. ASSUME Reflects PROVE ReflectionInv'
  <2> USE <1>z DEF Reflects
  <2>1. \A g : Out("echo", g)' => Out("echo", g) BY <1>1, EventsHandler
  <2>2. EchoSettled' BY <2>1, <1>s DEF ReflectionInv, EchoSettled
  <2>3. OneClear' BY <1>1, <1>3 DEF ReflectionInv, OneClear
  <2>4. /\ ~InUse(f)'
        /\ slot(f) = "proxied" => phase[f] # "syn"
    <3>1. CASE CloseCas
      <4>1. slot(f) # "proxied"
        BY <3>1, <1>f DEF CloseCas, CasWins, ReflectionInv, Loaded, slot, sport
      <4>2. ~InUse(f) BY <4>1 DEF ReflectionInv, Reflecting
      <4> QED BY <4>1, <4>2, <1>1, <1>3 DEF InUse, ClearOut
    <3>2. CASE ClearCas
      <4>1. Handling("clear", f) BY <3>2, <1>f DEF ClearCas, DecisionInv, HandlerKind, Handling
      <4>2. relay[f] = "gone" /\ phase[f] # "syn" BY <4>1 DEF DecisionInv, Relays
      <4>3. ~ClearOut(f)' BY <4>1, <1>1 DEF ReflectionInv, OneClear, ClearOut, Handling
      <4> QED BY <4>2, <4>3, <1>1 DEF InUse
    <3> QED BY <3>1, <3>2
  <2>6. Reflecting'
    <3>1. \A g \in Flows : InUse(g)' => g # f /\ InUse(g) BY <2>4, <1>1, <1>3 DEF InUse, ClearOut
    <3> QED BY <3>1, <1>1, <1>5, <1>w DEF ReflectionInv, Reflecting
  <2>7. Loaded' BY <2>4, <1>1, <1>5, <1>w DEF ReflectionInv, Loaded
  <2>8. Entries' BY <1>1, <1>5 DEF ReflectionInv, Entries
  <2> QED BY <2>2, <2>3, <2>6, <2>7, <2>8 DEF ReflectionInv
<1> QED BY <1>h, <1>z DEF Kept

\* Every step of the strand keeps both invariants.
LEMMA StrandKept ==
  ASSUME Ready, StrandStep PROVE Kept
<1>1. StrandFrame BY DEF StrandStep, StrandFrame
<1> QED BY <1>1, TakeKept, TakeClearKept, LoadKept, CasLostKept, PublishKept, EmptiedKept
        DEF StrandStep, StrandNext

WorkersFrame == UNCHANGED <<socketVars, relayVars>>

-----------------------------------------------------------------------------
\* The workers.

\* A worker's flow was opened.
LEMMA WorkerFlow ==
  ASSUME IInv, DecisionInv, NEW w \in Workers, wpc[w] # "recv"
  PROVE  /\ wflow(w) \in Flows /\ phase[wflow(w)] # "idle" /\ On(w, wflow(w))
         /\ wpkt[w].ts \in Nat
<1>1. wflow(w) \in Flows /\ wpkt[w].ts \in Nat BY WorkerPacket DEF IInv
<1> QED BY <1>1 DEF DecisionInv, Untouched, On

\* Receive(): the worker goes on with the word it loaded.
LEMMA ReceiveKept ==
  ASSUME Ready, NEW w \in Workers, NEW pkt \in netq, Receive(w, pkt), WorkersFrame PROVE Kept
<1> USE DEF Ready
<1>1. /\ UNCHANGED <<now, phase, wire, relay, word, sockq, spc, sev, sword, posted, queue_,
                     eflow, syn_kernel_ts, ipc, iport, pinned_ts, syn_seq, entry>>
      /\ wpc[w] = "recv" /\ netq' = netq \ {pkt} /\ pkt.flow \in Flows
  BY DEF Receive, WorkersFrame, kernelVars, trackerVars, parkerVars, poolVars, injectorVars,
         socketVars, relayVars, IInv, TypeOK, KernelTypeOK, SynPacket
<1>f. PICK f \in Flows : f = pkt.flow BY <1>1
<1>2. phase[f] # "idle" BY <1>f DEF DecisionInv, Untouched
<1>3. Calm BY <1>1, EventsFrame
<1>4. /\ \A x \in Workers \ {w} :
           wpc'[x] = wpc[x] /\ wpkt'[x] = wpkt[x] /\ wword'[x] = wword[x]
      /\ wpc'[w] # "recv" =>
           /\ wpkt'[w] = pkt /\ wword'[w] = word[PortOf[f]] /\ slot(f) # "pending"
           /\ wpc'[w] = IF slot(f) = "empty" THEN "park" ELSE "ttl"
  <2>1. CASE Done(w) BY <2>1, DoneEffect DEF IInv, TypeOK, OthersKeep
  <2>2. CASE ~Done(w) BY <2>2, <1>f DEF Receive, Goto, slot, IInv, TypeOK, NetworkTypeOK
  <2> QED BY <2>1, <2>2
<1>w. /\ \A x \in Workers : \A g : On(x, g)' =>
           \/ x # w /\ On(x, g) /\ wpc'[x] = wpc[x] /\ wpkt'[x] = wpkt[x] /\ wword'[x] = wword[x]
           \/ x = w /\ g = f /\ wpkt'[w] = pkt /\ wword'[w].st = slot(f) /\ slot(f) # "pending"
              /\ wword'[w] = word[PortOf[f]]
              /\ wpc'[w] \in {"park", "ttl"} /\ (slot(f) # "empty" => wpc'[w] = "ttl")
      /\ \A g : slot(g)' = slot(g)
  BY <1>1, <1>4, <1>f DEF On, wflow, slot
<1>5. Untouched' BY <1>1, <1>2, <1>w DEF DecisionInv, Untouched
<1>6. Stamps' BY <1>1, <1>3, <1>f, <1>w DEF DecisionInv, Stamps, Stamp, Calm
<1>7. OneSyn' BY <1>1, <1>f, <1>w DEF DecisionInv, OneSyn
<1>8. Consumed' BY <1>1, <1>3, <1>w DEF DecisionInv, Consumed, Calm
<1>9. DirectSettled'
  <2>1. slot(f) = "direct" => Settled(f) BY DEF DecisionInv, Consumed, Settled
  <2>2. slot(f) = "abandoned" => Settled(f) BY DEF Settled
  <2>3. \A g \in Flows : Settled(g) => Settled(g)' BY <1>3, <1>w DEF Settled, Calm
  <2> QED BY <2>1, <2>2, <2>3, <1>1, <1>w DEF DecisionInv, DirectSettled
<1>10. Noted' BY <1>1, <1>w DEF DecisionInv, Noted
<1>11. Holding'
  <2>1. \A x \in Workers \ {w} : wpc'[x] # "recv" => wport(x)' = wport(x)
    BY <1>4 DEF wport, wflow
  <2>2. wpc'[w] # "recv" => wport(w)' = PortOf[f] BY <1>4, <1>f DEF wport, wflow
  <2> QED BY <1>1, <1>4, <2>1, <2>2 DEF DecisionInv, Holding, slot
<1>h. DecisionInv'
  BY <1>1, <1>3, <1>5, <1>6, <1>7, <1>8, <1>9, <1>10, <1>11, DecisionFrame DEF DecisionInv
<1>z. ASSUME Reflects PROVE ReflectionInv'
  <2> USE <1>z DEF Reflects
  <2>1. \A g : Out("echo", g)' => Out("echo", g) BY <1>1, EventsFrame
  <2>2. \A g \in Flows : InUse(g)' => InUse(g) BY <1>1 DEF InUse, ClearOut, Handling
  <2>3. Reflecting' BY <2>2, <1>1, <1>w DEF ReflectionInv, Reflecting
  <2>4. Loaded' BY <1>1, <1>w DEF ReflectionInv, Loaded
  <2> QED BY <1>1, <1>3, <2>1, <2>3, <2>4, ReflectionFrame DEF ReflectionInv
<1> QED BY <1>h, <1>z DEF Kept

\* A worker sends its SYN and is done: reflected only when the slot says so,
\* direct only when the flow is settled.
LEMMA SentKept ==
  ASSUME Ready, NEW w \in Workers, wpc[w] # "recv", Done(w), WorkersFrame,
         NEW path \in {"direct", "proxied"}, SendSyn(wflow(w), path),
         UNCHANGED <<word, pinned_ts, entry, parkerVars>>,
         syn_seq' = syn_seq \/ note_syn(wport(w), wflow(w)),
         path = "proxied" => ~Out("connect", wflow(w)),
         path = "direct" => Settled(wflow(w)),
         Reflects /\ path = "proxied" /\ phase[wflow(w)] = "syn" =>
           word[wport(w)].st = "proxied" /\ syn_seq'[wport(w)] = wflow(w)
  PROVE  Kept
<1> USE DEF Ready
<1>f. PICK f \in Flows : f = wflow(w) BY WorkerFlow
<1>1. /\ UNCHANGED <<now, phase, netq, relay, spc, sev, sword, posted, queue_,
                     eflow, syn_kernel_ts, ipc, iport>>
      /\ phase[f] # "idle"
  BY <1>f, WorkerFlow
        DEF SendSyn, WorkersFrame, parkerVars, poolVars, injectorVars, socketVars, relayVars
<1>2. /\ Calm
      /\ FirstEvent => FirstEvent'
      /\ \A g : (\A k \in DOMAIN sockq : sockq[k].flow # g) /\ f # g
                => \A k \in DOMAIN sockq' : sockq'[k].flow # g
      /\ \A g \in Flows : wire'[g] = IF g = f /\ phase[f] = "syn" THEN path ELSE wire[g]
  BY <1>1, <1>f, SendEvents DEF IInv, TypeOK
<1>w. /\ \A x \in Workers : \A g : On(x, g)' =>
           x # w /\ On(x, g) /\ wpc'[x] = wpc[x] /\ wpkt'[x] = wpkt[x] /\ wword'[x] = wword[x]
      /\ \A g : slot(g)' = slot(g)
  BY DoneOn DEF IInv, TypeOK, slot
<1>s. /\ path = "proxied" => ~Out("connect", f)
      /\ path = "direct" => Settled(f)
  <2>1. path = "proxied" => ~Out("connect", f) BY <1>f DEF Out, Queued, Handling
  <2>2. path = "direct" => Settled(f) BY <1>f DEF Settled, Out, Queued, Handling, slot
  <2> QED BY <2>1, <2>2
<1>k. \A g \in Flows : Settled(g) => Settled(g)' BY <1>2, <1>w DEF Settled, Calm
<1>n. \A g \in Flows : syn_seq[PortOf[g]] = g => syn_seq'[PortOf[g]] = g
  BY <1>f, FlowAssumption DEF OnePerPort, note_syn, wport, IInv, TypeOK, TrackerTypeOK
<1>3. Untouched' BY <1>1, <1>2, <1>w DEF DecisionInv, Untouched
<1>4. Stamps' BY <1>1, <1>2, <1>w DEF DecisionInv, Stamps, Stamp, Calm
<1>5. OneSyn' BY <1>1, <1>w DEF DecisionInv, OneSyn
<1>6. Relays' BY <1>1, <1>2 DEF DecisionInv, Relays, Handling
<1>7. Consumed' BY <1>1, <1>2, <1>s, <1>w DEF DecisionInv, Consumed, Calm
<1>8. DirectSettled' BY <1>k, <1>1, <1>2, <1>s, <1>w DEF DecisionInv, DirectSettled
<1>9. Noted' BY <1>n, <1>1, <1>w DEF DecisionInv, Noted
<1>10. Holding'
  <2>1. \A x \in Workers : wpc'[x] # "recv" =>
          wpc[x] # "recv" /\ wpc'[x] = wpc[x] /\ wword'[x] = wword[x] /\ wport(x)' = wport(x)
    BY <1>w, DoneEffect DEF IInv, TypeOK, OthersKeep, wport, wflow
  <2> QED BY <2>1 DEF DecisionInv, Holding
<1>h. DecisionInv'
  BY <1>1, <1>2, <1>3, <1>4, <1>5, <1>6, <1>7, <1>8, <1>9, <1>10, DecisionFrame DEF DecisionInv
<1>z. ASSUME Reflects PROVE ReflectionInv'
  <2> USE <1>z DEF Reflects
  <2>1. \A g : Out("echo", g)' => Out("echo", g) \/ (path \in EchoPaths /\ g = f)
    BY <1>1, <1>f, SendEvents DEF IInv, TypeOK
  <2>2. EchoSettled' BY <2>1, <1>k, <1>s DEF ReflectionInv, EchoSettled
  <2>3. OneClear' BY <1>1, ReflectionFrame
  <2>4. Reflecting'
    <3> SUFFICES ASSUME NEW g \in Flows, InUse(g)'
                 PROVE  /\ slot(g)' = "proxied" /\ syn_seq'[PortOf[g]] = g
                        /\ \A x \in Workers : On(x, g)' =>
                             wpc'[x] = "ttl" /\ wword'[x].st = "proxied"
      BY DEF Reflecting
    <3>1. InUse(g) \/ (g = f /\ path = "proxied" /\ phase[f] = "syn")
      BY <1>1, <1>2 DEF InUse, ClearOut, Handling
    <3>2. CASE InUse(g) BY <3>2, <1>n, <1>w DEF ReflectionInv, Reflecting
    <3>3. CASE g = f /\ path = "proxied" /\ phase[f] = "syn"
      <4>1. slot(f) = "proxied" /\ syn_seq'[PortOf[f]] = f BY <3>3, <1>f DEF slot, wport
      <4>2. On(w, f) BY <1>f DEF On
      <4>3. \A x \in Workers : ~On(x, f)' BY <4>2, <1>w DEF DecisionInv, OneSyn
      <4> QED BY <3>3, <4>1, <4>3, <1>w
    <3> QED BY <3>1, <3>2, <3>3
  <2>5. Loaded' BY <1>1, <1>w DEF ReflectionInv, Loaded
  <2>6. Entries' BY <1>1, ReflectionFrame
  <2> QED BY <2>2, <2>3, <2>4, <2>5, <2>6 DEF ReflectionInv
<1> QED BY <1>h, <1>z DEF Kept

\* The four ways a worker sends without pinning.
LEMMA ActKept ==
  ASSUME Ready, \A f \in Oversize : Verdict[f] = "direct",
         NEW w \in Workers,
         ActOnFresh(w) \/ ActOnRetransmit(w) \/ PassOversize(w) \/ ActOnReload(w),
         WorkersFrame
  PROVE  Kept
<1> USE DEF Ready
<1>0. wpc[w] # "recv" /\ wpc[w] \in {"ttl", "park", "lost"}
  BY DEF ActOnFresh, ActOnRetransmit, PassOversize, ActOnReload
<1>f. PICK f \in Flows : f = wflow(w) BY <1>0, WorkerFlow
<1>1. /\ Done(w)
      /\ UNCHANGED <<word, pinned_ts, entry, parkerVars>>
      /\ syn_seq' = syn_seq \/ note_syn(wport(w), wflow(w))
  BY DEF ActOnFresh, ActOnRetransmit, PassOversize, ActOnReload, trackerVars
<1>2. PICK path \in {"direct", "proxied"} :
         /\ SendSyn(wflow(w), path)
         /\ \/ wpc[w] = "ttl" /\ path = wire_path(wword[w].st)
            \/ f \in Oversize /\ path = "direct"
            \/ wpc[w] = "lost" /\ path = wire_path(slot(f))
  <2>1. CASE ActOnFresh(w) \/ ActOnRetransmit(w)
    BY <2>1, WirePath DEF ActOnFresh, ActOnRetransmit, act
  <2>2. CASE PassOversize(w) BY <2>2, <1>f DEF PassOversize
  <2>3. CASE ActOnReload(w) BY <2>3, <1>f, WirePath DEF ActOnReload, act, slot, wport
  <2> QED BY <2>1, <2>2, <2>3
<1>o. On(w, f) BY <1>0, <1>f DEF On
<1>h. /\ slot(f) # "pending"
      /\ wpc[w] = "ttl" => wword[w].st \in {"proxied", "direct", "abandoned"}
  <2>1. wword[w].st \in SlotState
    BY DEF IInv, TypeOK, NetworkTypeOK, Word, PendingWord, decided_word, SlotState
  <2>2. wword[w].st # "pending" BY DEF IInv, WorkerInv
  <2> QED BY <1>0, <1>f, <2>1, <2>2 DEF DecisionInv, Holding, SlotState, wport, slot
<1>l. wpc[w] = "lost" => ~Out("connect", f) BY <1>o DEF DecisionInv, Consumed
<1>3. path = "proxied" => ~Out("connect", f)
  <2>1. CASE wpc[w] = "ttl" BY <2>1, <1>0, <1>2, <1>o, <1>h DEF DecisionInv, Consumed, wire_path
  <2>2. CASE wpc[w] # "ttl" BY <2>2, <1>2, <1>l
  <2> QED BY <2>1, <2>2
<1>4. path = "direct" => Settled(f)
  <2>1. CASE wpc[w] = "ttl" /\ path = wire_path(wword[w].st)
    BY <2>1, <1>h, <1>o DEF DecisionInv, DirectSettled, wire_path
  <2>2. CASE f \in Oversize BY <2>2 DEF Settled
  <2>3. CASE wpc[w] = "lost" /\ path = wire_path(slot(f))
    BY <2>3, <1>h, <1>l DEF Settled, wire_path
  <2> QED BY <1>2, <2>1, <2>2, <2>3
<1>5. /\ path = "proxied" => ~Out("connect", wflow(w))
      /\ path = "direct" => Settled(wflow(w))
  <2>1. path = "proxied" => ~Out("connect", wflow(w)) BY <1>f, <1>3 DEF Out, Queued, Handling
  <2>2. path = "direct" => Settled(wflow(w))
    BY <1>f, <1>4 DEF Settled, Out, Queued, Handling, slot
  <2> QED BY <2>1, <2>2
<1>6. ASSUME Reflects, path = "proxied", phase[wflow(w)] = "syn"
      PROVE  word[wport(w)].st = "proxied" /\ syn_seq'[wport(w)] = wflow(w)
  <2>1. slot(f) = "proxied"
    BY <1>6, <1>0, <1>2, <1>f, <1>o, <1>l DEF Reflects, ReflectionInv, Loaded, wire_path
  <2>2. wport(w) \in Ports BY <1>f, FlowAssumption DEF wport
  <2>3. CASE syn_seq[PortOf[f]] = f
    BY <2>1, <2>2, <2>3, <1>1, <1>f DEF note_syn, wport, slot, IInv, TypeOK, TrackerTypeOK
  <2>4. CASE note_syn(wport(w), wflow(w))
    BY <2>1, <2>2, <2>4, <1>f DEF note_syn, wport, slot, IInv, TypeOK, TrackerTypeOK
  <2>5. CASE wpc[w] = "lost" BY <2>3, <2>5, <1>o DEF DecisionInv, Noted
  <2>6. ASSUME wpc[w] # "lost" PROVE note_syn(wport(w), wflow(w)) \/ syn_seq[PortOf[f]] = f
    BY <2>6, <1>f DEF ActOnFresh, ActOnRetransmit, PassOversize, ActOnReload, is_retransmit, wport
  <2> QED BY <2>3, <2>4, <2>5, <2>6
<1> QED BY <1>0, <1>1, <1>2, <1>5, <1>6, SentKept

\* The steps between two sends; none is taken on a reflected flow.
LEMMA GoOnKept ==
  ASSUME Ready, NEW w \in Workers,
         \/ TtlStale(w) \/ (\E i \in PoolIdx : ParkAlloc(w, i)) \/ ParkFill(w) \/ ParkCasLost(w)
         \/ ParkFull(w) \/ PinFull(w),
         WorkersFrame
  PROVE  Kept
<1> USE DEF Ready
<1>1. /\ UNCHANGED <<now, phase, wire, netq, sockq, relay, word, spc, sev, sword, posted, queue_,
                     ipc, iport, wpkt, wword, entry>>
      /\ wpc[w] # "recv"
      /\ \/ wpc[w] = "ttl" /\ Goto(w, "park") /\ ~is_retransmit(wport(w), wflow(w))
         \/ wpc[w] = "park" /\ Goto(w, "fill") /\ note_syn(wport(w), wflow(w))
         \/ wpc[w] = "park" /\ Goto(w, "pin") /\ note_syn(wport(w), wflow(w))
         \/ wpc[w] = "fill" /\ Goto(w, "cas")
         \/ wpc[w] = "cas" /\ Goto(w, "lost") /\ ~CasWins(wport(w), wword[w])
         \/ wpc[w] = "pin" /\ Goto(w, "pincas")
      /\ IF wpc[w] = "pin" THEN pinned_ts' = [pinned_ts EXCEPT ![wport(w)] = wpkt[w].ts]
                            ELSE pinned_ts' = pinned_ts
      /\ \/ UNCHANGED <<eflow, syn_kernel_ts>>
         \/ /\ eflow' = [eflow EXCEPT ![widx[w]] = wflow(w)]
            /\ syn_kernel_ts' = [syn_kernel_ts EXCEPT ![widx[w]] = wpkt[w].ts]
      /\ syn_seq' = syn_seq \/ note_syn(wport(w), wflow(w))
  BY DEF TtlStale, ParkAlloc, ParkFill, ParkCasLost, ParkFull, PinFull, WorkersFrame, kernelVars,
         trackerVars, parkerVars, poolVars, injectorVars, socketVars, relayVars
<1>f. PICK f \in Flows : f = wflow(w) BY <1>1, WorkerFlow
<1>o. phase[f] # "idle" /\ On(w, f) /\ wport(w) = PortOf[f] /\ wpkt[w].ts \in Nat
  BY <1>1, <1>f, WorkerFlow DEF wport
<1>2. Calm BY <1>1, EventsFrame
<1>pc. PICK pc \in {"park", "fill", "pin", "cas", "lost", "pincas"} :
        /\ Goto(w, pc)
        /\ \/ wpc[w] = "ttl" /\ pc = "park" /\ syn_seq[PortOf[f]] # f
           \/ wpc[w] = "park" /\ pc \in {"fill", "pin"} /\ note_syn(PortOf[f], f)
           \/ wpc[w] = "fill" /\ pc = "cas"
           \/ wpc[w] = "pin" /\ pc = "pincas"
           \/ wpc[w] = "cas" /\ pc = "lost" /\ word[PortOf[f]] # wword[w]
  BY <1>1, <1>f, <1>o DEF is_retransmit, CasWins
<1>w. /\ \A x \in Workers : \A g : On(x, g)' <=> On(x, g)
      /\ wpc'[w] = pc /\ \A x \in Workers \ {w} : wpc'[x] = wpc[x]
      /\ \A x \in Workers : wport(x)' = wport(x)
      /\ \A g : slot(g)' = slot(g)
      /\ \A g \in Flows : On(w, g) => g = f
  <2>1. NetworkTypeOK BY DEF IInv, TypeOK
  <2>2. /\ \A x \in Workers : \A g : On(x, g)' <=> On(x, g)
        /\ wpc'[w] = pc /\ \A x \in Workers \ {w} : wpc'[x] = wpc[x]
        /\ \A x \in Workers : wport(x)' = wport(x)
    BY <1>1, <1>pc, <2>1, GotoOn
  <2> QED BY <1>1, <1>f, <2>2 DEF slot, On
<1>3. Untouched'
  <2>1. \A g \in Flows, i \in PoolIdx : eflow'[i] = g => eflow[i] = g \/ g = f
    BY <1>1, <1>f DEF IInv, TypeOK, ParkerTypeOK
  <2> QED BY <1>1, <1>o, <1>w, <2>1 DEF DecisionInv, Untouched
<1>4. Stamps'
  <2>1. \A g \in Flows, i \in PoolIdx : eflow'[i] = g =>
          \/ eflow[i] = g /\ syn_kernel_ts'[i] = syn_kernel_ts[i]
          \/ g = f /\ syn_kernel_ts'[i] = wpkt[w].ts
    BY <1>1, <1>f DEF IInv, TypeOK, ParkerTypeOK
  <2>2. /\ \A g \in Flows : g # f => pinned_ts'[PortOf[g]] = pinned_ts[PortOf[g]]
        /\ pinned_ts'[PortOf[f]] = IF pc = "pincas" THEN wpkt[w].ts ELSE pinned_ts[PortOf[f]]
    BY <1>1, <1>o, <1>pc, FlowAssumption DEF OnePerPort, IInv, TypeOK, TrackerTypeOK
  <2>3. \A g \in Flows, t \in Nat : Stamp(g, t)' => Stamp(g, t)
    BY <1>1, <1>o, <1>w, <2>1, <2>2 DEF Stamp
  <2> QED BY <2>3, <1>2 DEF DecisionInv, Stamps, Calm
<1>5. OneSyn' BY <1>1, <1>w DEF DecisionInv, OneSyn
<1>6. Consumed' BY <1>1, <1>2, <1>pc, <1>w DEF DecisionInv, Consumed, Calm
<1>7. DirectSettled'
  <2>1. \A g \in Flows : Settled(g) => Settled(g)' BY <1>2, <1>w DEF Settled, Calm
  <2> QED BY <2>1, <1>1, <1>w DEF DecisionInv, DirectSettled
<1>n. /\ \A g \in Flows : syn_seq[PortOf[g]] = g => syn_seq'[PortOf[g]] = g
      /\ wpc[w] = "park" => syn_seq'[PortOf[f]] = f
  BY <1>1, <1>f, <1>o, <1>pc, FlowAssumption DEF OnePerPort, note_syn, IInv, TypeOK, TrackerTypeOK
<1>8. Noted'
  <2>2. wpc[w] = "ttl" => wword[w].st # "abandoned" BY <1>o, <1>pc DEF DecisionInv, Noted
  <2> QED BY <1>n, <2>2, <1>1, <1>pc, <1>w DEF DecisionInv, Noted
<1>9. Holding'
  <2>1. wpc[w] = "ttl" => wword[w].st # "abandoned" BY <1>o, <1>pc DEF DecisionInv, Noted
  <2> QED BY <2>1, <1>1, <1>pc, <1>w DEF DecisionInv, Holding
<1>h. DecisionInv'
  BY <1>1, <1>2, <1>3, <1>4, <1>5, <1>6, <1>7, <1>8, <1>9, DecisionFrame DEF DecisionInv
<1>z. ASSUME Reflects PROVE ReflectionInv'
  <2> USE <1>z DEF Reflects
  <2>1. \A g : Out("echo", g)' => Out("echo", g) BY <1>1, EventsFrame
  <2>2. \A g \in Flows : InUse(g)' => InUse(g) BY <1>1 DEF InUse, ClearOut, Handling
  <2>3. ~InUse(f) BY <1>o, <1>pc DEF ReflectionInv, Reflecting
  <2>4. Reflecting' BY <2>2, <2>3, <1>1, <1>n, <1>w DEF ReflectionInv, Reflecting
  <2>5. Loaded' BY <1>1, <1>w DEF ReflectionInv, Loaded
  <2> QED BY <1>1, <1>2, <2>1, <2>4, <2>5, ReflectionFrame DEF ReflectionInv
<1> QED BY <1>h, <1>z DEF Kept

\* try_park(): the slot was as the worker loaded it, and is pending now.
LEMMA TryParkKept ==
  ASSUME Ready, NEW w \in Workers, TryPark(w), WorkersFrame PROVE Kept
<1> USE DEF Ready
<1>1. /\ UNCHANGED <<now, phase, wire, netq, sockq, relay, spc, sev, sword, posted, queue_, eflow,
                     syn_kernel_ts, ipc, iport, pinned_ts, syn_seq,
                     entry>>
      /\ wpc[w] = "cas" /\ word[wport(w)] = wword[w] /\ Done(w)
      /\ SetWord(wport(w), pack_word("pending", gen[widx[w]], widx[w]))
  BY DEF TryPark, CasWins, WorkersFrame, kernelVars, parkerVars, poolVars, injectorVars, socketVars,
         relayVars
<1>f. PICK f \in Flows : f = wflow(w) BY <1>1, WorkerFlow
<1>o. phase[f] # "idle" /\ On(w, f) /\ wport(w) = PortOf[f]
  BY <1>1, <1>f, WorkerFlow DEF wport
<1>2. Calm BY <1>1, EventsFrame
<1>5. /\ slot(f)' = "pending" /\ word[PortOf[f]] = wword[w]
      /\ \A g \in Flows : g # f => word'[PortOf[g]] = word[PortOf[g]] /\ slot(g)' = slot(g)
  <2>1. PICK v : v.st = "pending" /\ SetWord(PortOf[f], v) BY <1>1, <1>o DEF pack_word
  <2> QED BY <1>1, <1>o, <2>1, OwnPort DEF slot
<1>w. \A x \in Workers : \A g : On(x, g)' =>
        x # w /\ On(x, g) /\ wpc'[x] = wpc[x] /\ wpkt'[x] = wpkt[x] /\ wword'[x] = wword[x]
  BY <1>1, DoneOn DEF IInv, TypeOK
<1>a. \A x \in Workers : ~On(x, f)'
  BY <1>o, <1>w DEF DecisionInv, OneSyn
<1>3. Untouched' BY <1>1, <1>o, <1>5, <1>w DEF DecisionInv, Untouched
<1>4. Stamps' BY <1>1, <1>2, <1>5, <1>w DEF DecisionInv, Stamps, Stamp, Calm
<1>6. OneSyn' BY <1>1, <1>w DEF DecisionInv, OneSyn
<1>7. Consumed' BY <1>1, <1>2, <1>5, <1>a, <1>w DEF DecisionInv, Consumed, Calm
<1>k. \A g \in Flows : Settled(g) => Settled(g)'
  <2>1. \A g \in Flows : g # f /\ Settled(g) => Settled(g)' BY <1>2, <1>5 DEF Settled, Calm
  <2>2. Settled(f) => Settled(f)'
    <3>1. slot(f) # "abandoned" BY <1>1, <1>o, <1>5 DEF DecisionInv, Holding, slot
    <3> QED BY <3>1, <1>2, <1>5 DEF Settled, Calm
  <2> QED BY <2>1, <2>2
<1>8. DirectSettled' BY <1>k, <1>1, <1>w DEF DecisionInv, DirectSettled
<1>9. Verdicts' BY <1>1, <1>5 DEF DecisionInv, Verdicts
<1>10. Noted'
  <2>1. syn_seq[PortOf[f]] = f BY <1>1, <1>o DEF DecisionInv, Noted
  <2> QED BY <2>1, <1>1, <1>5, <1>w DEF DecisionInv, Noted
<1>11. Holding'
  <2>1. \A x \in Workers : wpc'[x] # "recv" =>
          /\ wpc[x] # "recv" /\ wpc'[x] = wpc[x] /\ wword'[x] = wword[x]
          /\ wport(x)' = wport(x) /\ wport(x) = PortOf[wflow(x)] /\ wflow(x) \in Flows
          /\ wflow(x) # f
    <3> SUFFICES ASSUME NEW x \in Workers, wpc'[x] # "recv"
                 PROVE  /\ wpc[x] # "recv" /\ wpc'[x] = wpc[x] /\ wword'[x] = wword[x]
                        /\ wport(x)' = wport(x) /\ wport(x) = PortOf[wflow(x)] /\ wflow(x) \in Flows
                        /\ wflow(x) # f
      OBVIOUS
    <3>1. x # w /\ wpc[x] = wpc'[x] /\ wword'[x] = wword[x] /\ wpkt'[x] = wpkt[x]
      BY <1>1, DoneEffect DEF IInv, TypeOK, OthersKeep
    <3>2. wflow(x) \in Flows BY <3>1, WorkerFlow
    <3>3. ~On(x, f) BY <3>1, <1>o DEF DecisionInv, OneSyn
    <3> QED BY <3>1, <3>2, <3>3 DEF On, wport, wflow
  <2> QED BY <2>1, <1>5 DEF DecisionInv, Holding
<1>h. DecisionInv'
  BY <1>1, <1>2, <1>3, <1>4, <1>6, <1>7, <1>8, <1>9, <1>10, <1>11, DecisionFrame DEF DecisionInv
<1>z. ASSUME Reflects PROVE ReflectionInv'
  <2> USE <1>z DEF Reflects
  <2>1. \A g : Out("echo", g)' => Out("echo", g) BY <1>1, EventsFrame
  <2>2. EchoSettled' BY <2>1, <1>k DEF ReflectionInv, EchoSettled
  <2>3. OneClear' BY <1>1, ReflectionFrame
  <2>4. \A g \in Flows : InUse(g)' => InUse(g) BY <1>1 DEF InUse, ClearOut, Handling
  <2>5. ~InUse(f) BY <1>1, <1>o DEF ReflectionInv, Reflecting
  <2>6. Reflecting' BY <2>4, <2>5, <1>1, <1>5, <1>w DEF ReflectionInv, Reflecting
  <2>7. Loaded' BY <1>1, <1>a, <1>5, <1>w DEF ReflectionInv, Loaded
  <2>8. Entries' BY <1>1, <1>5 DEF ReflectionInv, Entries
  <2> QED BY <2>2, <2>3, <2>6, <2>7, <2>8 DEF ReflectionInv
<1> QED BY <1>h, <1>z DEF Kept

\* pin_abandoned() with a full pool: either the slot is abandoned, and the CONNECT
\* will be rejected, or it had moved, and was not proxied.
LEMMA PassFullKept ==
  ASSUME Ready, PinsWin, NEW w \in Workers, PassFull(w), WorkersFrame PROVE Kept
<1> USE DEF Ready
<1>0. wpc[w] = "pincas" BY DEF PassFull
<1>f. PICK f \in Flows : f = wflow(w) BY <1>0, WorkerFlow
<1>o. phase[f] # "idle" /\ On(w, f) /\ wport(w) = PortOf[f]
  BY <1>0, <1>f, WorkerFlow DEF wport
<1>1. /\ UNCHANGED <<now, phase, netq, relay, spc, sev, sword, posted, queue_, eflow,
                     syn_kernel_ts, ipc, iport, pinned_ts, syn_seq, entry>>
      /\ Done(w) /\ SendSyn(f, "direct")
  BY <1>f DEF PassFull, SendSyn, WorkersFrame, parkerVars, poolVars, injectorVars, socketVars,
          relayVars
<1>2. /\ Calm
      /\ FirstEvent => FirstEvent'
      /\ \A g : (\A k \in DOMAIN sockq : sockq[k].flow # g) /\ f # g
                => \A k \in DOMAIN sockq' : sockq'[k].flow # g
      /\ \A g \in Flows : wire'[g] = IF g = f /\ phase[f] = "syn" THEN "direct" ELSE wire[g]
  BY <1>1, SendEvents DEF IInv, TypeOK
<1>w. \A x \in Workers : \A g : On(x, g)' =>
        x # w /\ On(x, g) /\ wpc'[x] = wpc[x] /\ wpkt'[x] = wpkt[x] /\ wword'[x] = wword[x]
  BY <1>1, DoneOn DEF IInv, TypeOK
<1>a. \A x \in Workers : ~On(x, f)' BY <1>o, <1>w DEF DecisionInv, OneSyn
<1>5. /\ \/ slot(f)' = "abandoned"
         \/ word'[PortOf[f]] = word[PortOf[f]] /\ slot(f)' = slot(f) /\ word[PortOf[f]] # wword[w]
      /\ \A g \in Flows : g # f => word'[PortOf[g]] = word[PortOf[g]] /\ slot(g)' = slot(g)
  <2>1. CASE CasWins(wport(w), wword[w])
    <3>1. SetWord(PortOf[f], decided_word("abandoned")) BY <2>1, <1>o DEF PassFull
    <3> QED BY <3>1, OwnPort DEF slot, decided_word
  <2>2. CASE ~CasWins(wport(w), wword[w]) BY <2>2, <1>o DEF PassFull, CasWins, slot
  <2> QED BY <2>1, <2>2
<1>s. Settled(f)'
  <2>1. CASE slot(f)' = "abandoned" BY <2>1 DEF Settled
  <2>2. CASE slot(f)' = slot(f) /\ word[PortOf[f]] # wword[w]
    <3>1. ~Out("connect", f) BY <2>2, <1>o DEF DecisionInv, Consumed
    <3>2. slot(f) # "proxied" BY <1>0, <1>o DEF PinsWin, slot
    <3> QED BY <3>1, <3>2, <2>2, <1>2 DEF Settled, Calm
  <2> QED BY <2>1, <2>2, <1>5
<1>3. Untouched' BY <1>1, <1>2, <1>o, <1>5, <1>w DEF DecisionInv, Untouched
<1>4. Stamps'
  <2>1. \A g \in Flows, t \in Nat : Stamp(g, t)' => Stamp(g, t)
    BY <1>0, <1>1, <1>o, <1>5, <1>w DEF Stamp
  <2> QED BY <2>1, <1>2 DEF DecisionInv, Stamps, Calm
<1>6. OneSyn' BY <1>1, <1>w DEF DecisionInv, OneSyn
<1>7. Relays' BY <1>1, <1>2, <1>o DEF DecisionInv, Relays, Handling
<1>8. Consumed' BY <1>1, <1>2, <1>5, <1>a, <1>w DEF DecisionInv, Consumed, Calm
<1>k. \A g \in Flows : g # f /\ Settled(g) => Settled(g)' BY <1>2, <1>5 DEF Settled, Calm
<1>9. DirectSettled' BY <1>k, <1>s, <1>1, <1>2, <1>w DEF DecisionInv, DirectSettled
<1>10. Verdicts' BY <1>1, <1>5 DEF DecisionInv, Verdicts
<1>11. Noted'
  <2>1. syn_seq[PortOf[f]] = f BY <1>0, <1>o DEF DecisionInv, Noted
  <2> QED BY <2>1, <1>1, <1>5, <1>w DEF DecisionInv, Noted
<1>12. Holding'
  <2>1. \A x \in Workers : wpc'[x] # "recv" =>
          /\ wpc[x] # "recv" /\ wpc'[x] = wpc[x] /\ wword'[x] = wword[x] /\ wport(x)' = wport(x)
    BY <1>1, DoneEffect DEF IInv, TypeOK, OthersKeep, wport, wflow
  <2>2. \A x \in Workers : wpc[x] # "recv" => wport(x) = PortOf[wflow(x)] /\ wflow(x) \in Flows
    BY WorkerFlow DEF wport
  <2>3. \A g \in Flows : word[PortOf[g]].st # "pending" => word'[PortOf[g]].st # "pending"
    BY <1>5 DEF slot
  <2> QED BY <2>1, <2>2, <2>3 DEF DecisionInv, Holding
<1>h. DecisionInv'
  BY <1>1, <1>2, <1>3, <1>4, <1>6, <1>7, <1>8, <1>9, <1>10, <1>11, <1>12, DecisionFrame
        DEF DecisionInv
<1>z. ASSUME Reflects PROVE ReflectionInv'
  <2> USE <1>z DEF Reflects
  <2>1. \A g : Out("echo", g)' => Out("echo", g) \/ g = f
    BY <1>1, SendEvents DEF IInv, TypeOK
  <2>2. EchoSettled' BY <2>1, <1>k, <1>s DEF ReflectionInv, EchoSettled
  <2>3. OneClear' BY <1>1, ReflectionFrame
  <2>4. \A g \in Flows : InUse(g)' => InUse(g) BY <1>1, <1>2 DEF InUse, ClearOut, Handling
  <2>5. ~InUse(f) BY <1>0, <1>o DEF ReflectionInv, Reflecting
  <2>6. Reflecting' BY <2>4, <2>5, <1>1, <1>5, <1>w DEF ReflectionInv, Reflecting
  <2>7. Loaded' BY <1>1, <1>a, <1>5, <1>w DEF ReflectionInv, Loaded
  <2>8. Entries' BY <1>1, <1>5 DEF ReflectionInv, Entries
  <2> QED BY <2>2, <2>3, <2>6, <2>7, <2>8 DEF ReflectionInv
<1> QED BY <1>h, <1>z DEF Kept

\* Every step of a worker keeps both invariants.
LEMMA WorkerKept ==
  ASSUME Ready, PinsWin, \A f \in Oversize : Verdict[f] = "direct",
         NEW w \in Workers, WorkerThread(w)
  PROVE  Kept
<1>1. WorkersFrame BY DEF WorkerThread, WorkersFrame
<1> QED BY <1>1, ReceiveKept, ActKept, GoOnKept, TryParkKept, PassFullKept
        DEF WorkerThread, WorkerNext, WorkerStep

SweepFrame == UNCHANGED <<socketVars, workerVars, relayVars>>

-----------------------------------------------------------------------------
\* The injector.

\* The sweep before its CAS: it pins with the time of the SYN it holds.
LEMMA SweepKept ==
  ASSUME Ready, SweepFrame,
         \/ StartSweep \/ (\E i \in PoolIdx : SweepAge(i)) \/ SweepLoad \/ SweepPin
         \/ SweepCasLost \/ FinalSweep \/ InjectorExit
  PROVE  Kept
<1> USE DEF Ready
<1>1. /\ UNCHANGED <<now, phase, wire, netq, sockq, relay, word, spc, sev, sword, posted, queue_,
                     eflow, syn_kernel_ts, wpc, wpkt, wword, syn_seq, entry>>
      /\ \/ ipc' # "cas" /\ pinned_ts' = pinned_ts
         \/ UNCHANGED <<ipc, iport, pinned_ts>>
         \/ /\ ipc = "pin" /\ iport' = eport(iidx)
            /\ pinned_ts' = [pinned_ts EXCEPT ![eport(iidx)] = syn_kernel_ts[iidx]]
  BY DEF StartSweep, SweepAge, SweepLoad, SweepPin, SweepCasLost, FinalSweep, InjectorExit,
         SweepContinue, SweepFrame, kernelVars, trackerVars, poolVars, injectorVars, socketVars,
         workerVars, relayVars
<1>2. Calm BY <1>1, EventsFrame
<1>w. /\ \A x, g : On(x, g)' <=> On(x, g)
      /\ \A g : slot(g)' = slot(g)
  BY <1>1 DEF On, wflow, slot
<1>3. Untouched' /\ Stamps'
  <2>1. CASE ipc' # "cas" /\ pinned_ts' = pinned_ts
    <3>1. Untouched' BY <2>1, <1>1, <1>w DEF DecisionInv, Untouched
    <3>2. Stamps' BY <2>1, <1>1, <1>2, <1>w DEF DecisionInv, Stamps, Stamp, Calm
    <3> QED BY <3>1, <3>2
  <2>2. CASE UNCHANGED <<ipc, iport, pinned_ts>>
    BY <2>2, <1>1, <1>2, DecisionFrame, CalmFrame
  <2>3. CASE /\ ipc = "pin" /\ iport' = eport(iidx)
             /\ pinned_ts' = [pinned_ts EXCEPT ![eport(iidx)] = syn_kernel_ts[iidx]]
    <3>1. PICK i \in PoolIdx : i = iidx BY DEF IInv, TypeOK, ParkerTypeOK
    <3>2. PICK f \in Flows : f = eflow[i]
      BY <2>3, <3>1 DEF IInv, InjectorInv, HasPort, TypeOK, ParkerTypeOK
    <3>3. /\ iport' = PortOf[f] /\ pinned_ts'[PortOf[f]] = syn_kernel_ts[i]
          /\ \A g \in Flows : g # f => /\ PortOf[g] # PortOf[f]
                                       /\ pinned_ts'[PortOf[g]] = pinned_ts[PortOf[g]]
      BY <2>3, <3>1, <3>2, FlowAssumption DEF OnePerPort, eport, IInv, TypeOK, TrackerTypeOK
    <3>4. phase[f] # "idle" BY <3>1, <3>2 DEF DecisionInv, Untouched
    <3>5. Untouched' BY <3>3, <3>4, <1>1, <1>w DEF DecisionInv, Untouched
    <3>6. \A g \in Flows, t \in Nat : Stamp(g, t)' => Stamp(g, t)
      BY <3>1, <3>2, <3>3, <1>1, <1>w DEF Stamp
    <3> QED BY <3>5, <3>6, <1>2 DEF DecisionInv, Stamps, Calm
  <2> QED BY <1>1, <2>1, <2>2, <2>3
<1>h. DecisionInv'
  BY <1>1, <1>2, <1>3, DecisionFrame, CalmFrame DEF DecisionInv
<1>z. ASSUME Reflects PROVE ReflectionInv'
  <2> USE <1>z DEF Reflects
  <2>1. \A g : Out("echo", g)' => Out("echo", g) BY <1>1, EventsFrame
  <2> QED BY <1>1, <1>2, <2>1, ReflectionFrame DEF ReflectionInv
<1> QED BY <1>h, <1>z DEF Kept

\* release_parked() sends the SYN of its entry, or nothing.
LEMMA ReleaseEvents ==
  ASSUME IInv, NEW i \in PoolIdx, NEW f \in Flows, eflow[i] = f, NEW g, NEW d,
         release_parked(i, g, d), UNCHANGED <<spc, sev>>
  PROVE  /\ UNCHANGED <<now, phase, netq, eflow, syn_kernel_ts>>
         /\ Calm
         /\ FirstEvent => FirstEvent'
         /\ \A h : (\A k \in DOMAIN sockq : sockq[k].flow # h) /\ f # h
                   => \A k \in DOMAIN sockq' : sockq'[k].flow # h
         /\ \A h : Out("echo", h)' => Out("echo", h) \/ (wire_path(d) \in EchoPaths /\ h = f)
         /\ \/ wire' = wire
            \/ \A h \in Flows : wire'[h] = IF h = f /\ phase[f] = "syn" THEN wire_path(d) ELSE wire[h]
<1>1. CASE release_mismatch(i, g)
  BY <1>1, EventsFrame DEF release_mismatch, kernelVars, poolVars, FirstEvent, Queued
<1>2. CASE release_send(i, g, d)
  <2>1. PICK path \in {"direct", "proxied"} : path = wire_path(d) BY WirePath
  <2>2. SendSyn(f, path) BY <1>2, <2>1 DEF release_send
  <2>3. /\ Calm
        /\ FirstEvent => FirstEvent'
        /\ \A h : (\A k \in DOMAIN sockq : sockq[k].flow # h) /\ f # h
                   => \A k \in DOMAIN sockq' : sockq'[k].flow # h
        /\ \A h : Out("echo", h)' => Out("echo", h) \/ (path \in EchoPaths /\ h = f)
        /\ \A h \in Flows : wire'[h] = IF h = f /\ phase[f] = "syn" THEN path ELSE wire[h]
    BY <2>2, SendEvents DEF IInv, TypeOK
  <2> QED BY <1>2, <2>1, <2>2, <2>3 DEF release_send, SendSyn
<1> QED BY <1>1, <1>2 DEF release_parked

\* drain_queue(): the SYN goes out under the decision of its own flow.
LEMMA DrainKept ==
  ASSUME Ready, DrainQueue, SweepFrame PROVE Kept
<1> USE DEF Ready
<1>1. /\ UNCHANGED <<relay, word, spc, sev, sword, posted, wpc, wpkt, wword, ipc, iport, pinned_ts,
                     syn_seq, entry>>
      /\ queue_ # <<>> /\ queue_' = Tail(queue_) /\ queue_ \in Seq(ReleaseReq)
  BY DEF DrainQueue, SweepFrame, trackerVars, injectorVars, socketVars, workerVars, relayVars,
         IInv, TypeOK, ParkerTypeOK
<1>q. /\ Head(queue_) = queue_[1] /\ 1 \in DOMAIN queue_ /\ queue_[1] \in ReleaseReq
      /\ \A k \in DOMAIN queue_' : k + 1 \in DOMAIN queue_ /\ queue_'[k] = queue_[k + 1]
  <2>1. /\ DOMAIN queue_ = 1 .. Len(queue_) /\ DOMAIN queue_' = 1 .. (Len(queue_) - 1)
        /\ Len(queue_) \in Nat /\ 1 \in DOMAIN queue_ /\ Head(queue_) = queue_[1]
        /\ \A k \in 1 .. (Len(queue_) - 1) : queue_'[k] = queue_[k + 1]
    BY <1>1, HeadTailProperties, LenProperties, EmptySeq
  <2>2. queue_[1] \in ReleaseReq BY <2>1, QueueElement DEF IInv, TypeOK
  <2> QED BY <2>1, <2>2
<1>r. PICK r \in ReleaseReq : r = queue_[1] BY <1>q
<1>i. PICK i \in PoolIdx : i = r.idx BY DEF ReleaseReq
<1>f. PICK f \in Flows : f = eflow[i] /\ r.port = PortOf[f]
  <2>1. HasPort(i) /\ eport(i) = r.port
    BY <1>q, <1>r, <1>i DEF IInv, PoolOwnership, ReferencesValid, RefValid
  <2> QED BY <2>1 DEF HasPort, eport, IInv, TypeOK, ParkerTypeOK
<1>d. PICK e, d : e = r.gen /\ d = r.decision OBVIOUS
<1>2. release_parked(i, e, d) BY <1>q, <1>r, <1>i, <1>d DEF DrainQueue
<1>3. /\ UNCHANGED <<now, phase, netq, eflow, syn_kernel_ts>>
      /\ Calm
      /\ FirstEvent => FirstEvent'
      /\ \A h : (\A k \in DOMAIN sockq : sockq[k].flow # h) /\ f # h
                   => \A k \in DOMAIN sockq' : sockq'[k].flow # h
      /\ \/ wire' = wire
         \/ \A h \in Flows :
              wire'[h] = IF h = f /\ phase[f] = "syn" THEN wire_path(d) ELSE wire[h]
  <2>1. IInv /\ eflow[i] = f /\ UNCHANGED <<spc, sev>> BY <1>1, <1>f
  <2> QED BY <2>1, <1>2, ReleaseEvents
<1>w. /\ \A x, g : On(x, g)' <=> On(x, g)
      /\ \A g : slot(g)' = slot(g)
  BY <1>1 DEF On, wflow, slot
<1>s. /\ phase[f] # "idle" /\ ~Out("connect", f)
      /\ wire_path(d) = "direct" => Settled(f)
  <2>1. phase[f] # "idle" BY <1>f DEF DecisionInv, Untouched
  <2>2. ~Out("connect", f) BY <1>q, <1>r, <1>f DEF DecisionInv, Consumed
  <2>3. r.decision = "direct" => Settled(f) BY <1>q, <1>r, <1>f DEF DecisionInv, DirectSettled
  <2> QED BY <1>d, <2>1, <2>2, <2>3 DEF wire_path, ReleaseReq
<1>e. \A h : Out("echo", h)' => Out("echo", h) \/ (wire_path(d) \in EchoPaths /\ h = f)
  <2>1. IInv /\ eflow[i] = f /\ UNCHANGED <<spc, sev>> BY <1>1, <1>f
  <2> QED BY <2>1, <1>2, ReleaseEvents
<1>k. \A k \in DOMAIN queue_' : \E l \in DOMAIN queue_ : queue_'[k] = queue_[l]
  BY <1>q
<1>4. Untouched' BY <1>1, <1>3, <1>s, <1>w DEF DecisionInv, Untouched
<1>5. Relays' BY <1>1, <1>3, <1>s DEF DecisionInv, Relays, Handling
<1>6. Consumed' BY <1>1, <1>3, <1>s, <1>w, <1>k DEF DecisionInv, Consumed, Calm
<1>7. DirectSettled'
  <2>1. \A g \in Flows : Settled(g) => Settled(g)' BY <1>3, <1>w DEF Settled, Calm
  <2> QED BY <2>1, <1>1, <1>3, <1>s, <1>w, <1>k DEF DecisionInv, DirectSettled
<1>h. DecisionInv'
  BY <1>1, <1>3, <1>4, <1>5, <1>6, <1>7, DecisionFrame, CalmFrame DEF DecisionInv
<1>z. ASSUME Reflects PROVE ReflectionInv'
  <2> USE <1>z DEF Reflects
  <2>1. EchoSettled'
    <3>1. wire_path(d) \in {"direct", "proxied"} BY DEF wire_path
    <3>2. \A g \in Flows : Settled(g) => Settled(g)' BY <1>3, <1>w DEF Settled, Calm
    <3> QED BY <3>1, <3>2, <1>e, <1>s DEF ReflectionInv, EchoSettled
  <2>2. \A g \in Flows : InUse(g)' => InUse(g)
    <3>1. \A g : ClearOut(g)' <=> ClearOut(g) BY <1>1 DEF ClearOut, Handling
    <3>2. wire_path(d) = "proxied" =>
            \E k \in DOMAIN queue_ : queue_[k].port = PortOf[f] /\ queue_[k].decision = "proxied"
      BY <1>q, <1>r, <1>f, <1>d DEF wire_path
    <3> QED BY <3>1, <3>2, <1>1, <1>3, <1>k DEF InUse
  <2>3. Reflecting' BY <2>2, <1>1, <1>w DEF ReflectionInv, Reflecting
  <2> QED BY <1>1, <1>3, <2>1, <2>3, ReflectionFrame DEF ReflectionInv
<1> QED BY <1>h, <1>z DEF Kept

\* The watchdog abandons a SYN: the slot was pending, so nobody is on the flow.
LEMMA SweepCasWonKept ==
  ASSUME Ready, SweepCasWon, SweepFrame PROVE Kept
<1> USE DEF Ready
<1>1. /\ UNCHANGED <<relay, spc, sev, sword, posted, wpc, wpkt, wword, pinned_ts, syn_seq, queue_,
                     entry>>
      /\ ipc = "cas" /\ ipc' = "idle" /\ word[iport] = iword /\ iport \in Ports
      /\ iword.st = "pending" /\ iword.idx = iidx
  BY DEF SweepCasWon, CasWins, SweepContinue, SweepFrame, socketVars, workerVars, relayVars,
         IInv, InjectorInv
<1>i. PICK i \in PoolIdx : i = iidx BY DEF IInv, TypeOK, ParkerTypeOK
<1>f. PICK f \in Flows : f = eflow[i] /\ iport = PortOf[f]
  <2>1. HasPort(i) /\ eport(i) = iport
    BY <1>1, <1>i DEF IInv, PoolOwnership, ReferencesValid, RefValid, Pending
  <2> QED BY <2>1 DEF HasPort, eport, IInv, TypeOK, ParkerTypeOK
<1>g. PICK e : e = iword.gen OBVIOUS
<1>2. release_parked(i, e, "abandoned") BY <1>i, <1>g DEF SweepCasWon
<1>3. /\ UNCHANGED <<now, phase, netq, eflow, syn_kernel_ts>>
      /\ Calm
      /\ FirstEvent => FirstEvent'
      /\ \A h : (\A k \in DOMAIN sockq : sockq[k].flow # h) /\ f # h
                   => \A k \in DOMAIN sockq' : sockq'[k].flow # h
      /\ \/ wire' = wire
         \/ \A h \in Flows :
              wire'[h] = IF h = f /\ phase[f] = "syn" THEN wire_path("abandoned") ELSE wire[h]
  BY <1>1, <1>f, <1>2, ReleaseEvents
<1>5. /\ slot(f) = "pending" /\ slot(f)' = "abandoned"
      /\ \A h \in Flows : h # f => word'[PortOf[h]] = word[PortOf[h]] /\ slot(h)' = slot(h)
  <2>1. PICK v : v.st = "abandoned" /\ SetWord(PortOf[f], v)
    BY <1>f DEF SweepCasWon, decided_word
  <2>2. word[PortOf[f]].st = "pending" BY <1>1, <1>f
  <2>3. /\ word'[PortOf[f]] = v
        /\ \A h \in Flows : h # f => word'[PortOf[h]] = word[PortOf[h]]
    BY <2>1, OwnPort
  <2> QED BY <2>1, <2>2, <2>3 DEF slot
<1>w. \A x, h : On(x, h)' <=> On(x, h) BY <1>1 DEF On, wflow
<1>a. \A x \in Workers : ~On(x, f)
  BY <1>5 DEF DecisionInv, Holding, On, wport, slot
<1>s. phase[f] # "idle" BY <1>f DEF DecisionInv, Untouched
<1>p. wire_path("abandoned") = "direct" BY DEF wire_path
<1>4. Untouched' BY <1>1, <1>3, <1>5, <1>s, <1>w DEF DecisionInv, Untouched
<1>6. Stamps'
  <2>1. \A h \in Flows, t \in Nat : Stamp(h, t)' => Stamp(h, t)
    BY <1>1, <1>3, <1>f, <1>5, <1>w DEF Stamp
  <2> QED BY <2>1, <1>3 DEF DecisionInv, Stamps, Calm
<1>7. Relays' BY <1>1, <1>3, <1>s DEF DecisionInv, Relays, Handling
<1>8. Consumed' BY <1>1, <1>3, <1>5, <1>a, <1>p, <1>w DEF DecisionInv, Consumed, Calm
<1>k. /\ \A h \in Flows : h # f /\ Settled(h) => Settled(h)'
      /\ Settled(f)'
  BY <1>3, <1>5 DEF Settled, Calm
<1>9. DirectSettled' BY <1>k, <1>1, <1>3, <1>w DEF DecisionInv, DirectSettled
<1>10. Verdicts' BY <1>1, <1>5 DEF DecisionInv, Verdicts
<1>11. Noted' BY <1>1, <1>5, <1>w DEF DecisionInv, Noted
<1>12. Holding'
  <2>1. \A x \in Workers : wpc[x] # "recv" => wport(x) = PortOf[wflow(x)] /\ wflow(x) \in Flows
    BY WorkerFlow DEF wport
  <2>2. \A h \in Flows : word[PortOf[h]].st # "pending" => word'[PortOf[h]].st # "pending"
    BY <1>5 DEF slot
  <2> QED BY <1>1, <2>1, <2>2 DEF DecisionInv, Holding, wport, wflow
<1>h. DecisionInv'
  BY <1>1, <1>3, <1>4, <1>6, <1>7, <1>8, <1>9, <1>10, <1>11, <1>12, DecisionFrame DEF DecisionInv
<1>z. ASSUME Reflects PROVE ReflectionInv'
  <2> USE <1>z DEF Reflects
  <2>1. \A h : Out("echo", h)' => Out("echo", h) \/ h = f BY <1>1, <1>f, <1>2, ReleaseEvents
  <2>2. EchoSettled' BY <2>1, <1>k DEF ReflectionInv, EchoSettled
  <2>3. OneClear' BY <1>1, ReflectionFrame
  <2>4. ~InUse(f) BY <1>5 DEF ReflectionInv, Reflecting
  <2>5. \A g \in Flows : InUse(g)' => InUse(g)
    <3>1. \A g : ClearOut(g)' <=> ClearOut(g) BY <1>1 DEF ClearOut, Handling
    <3> QED BY <3>1, <1>1, <1>3, <1>p DEF InUse
  <2>6. Reflecting' BY <2>4, <2>5, <1>1, <1>5, <1>w DEF ReflectionInv, Reflecting
  <2>7. Loaded' BY <1>1, <1>3, <1>a, <1>5, <1>w DEF ReflectionInv, Loaded
  <2>8. Entries' BY <1>1, <1>5 DEF ReflectionInv, Entries
  <2> QED BY <2>2, <2>3, <2>6, <2>7, <2>8 DEF ReflectionInv
<1> QED BY <1>h, <1>z DEF Kept

\* Every step of the injector keeps both invariants.
LEMMA InjectorKept ==
  ASSUME Ready, InjectorStep PROVE Kept
<1>1. SweepFrame BY DEF InjectorStep, SweepFrame
<1> QED BY <1>1, SweepKept, DrainKept, SweepCasWonKept DEF InjectorStep, InjectorNext, SweepStep

-----------------------------------------------------------------------------
\* The whole system.

\* Both invariants are inductive.
LEMMA NextKept ==
  ASSUME OnePerPort, "core" \notin Lagging, \A f \in Oversize : Verdict[f] = "direct",
         IInv, IInv', DecisionInv, PinsWin, [Next]_vars
  PROVE  Kept
<1>0. Ready BY DEF Ready
<1>1. CASE UNCHANGED vars \/ CloseSocketLayer \/ StopParker \/ CloseNetworkLayer
  <2>1. UNCHANGED <<now, phase, wire, netq, sockq, relay, word, spc, sev, sword, posted, queue_,
                    eflow, syn_kernel_ts, wpc, wpkt, wword, ipc, iport, pinned_ts, syn_seq,
                    entry>>
    BY <1>1 DEF CloseSocketLayer, StopParker, CloseNetworkLayer, SetLife, vars, kernelVars,
                trackerVars, parkerVars, poolVars, injectorVars, socketVars, workerVars, relayVars
  <2>2. Calm BY <2>1, EventsFrame
  <2>3. \A g : Out("echo", g)' => Out("echo", g) BY <2>1, EventsFrame
  <2>4. DecisionInv' BY <2>1, <2>2, DecisionFrame, CalmFrame DEF DecisionInv
  <2>5. ReflectionInv => ReflectionInv' BY <2>1, <2>2, <2>3, ReflectionFrame DEF ReflectionInv
  <2> QED BY <2>4, <2>5 DEF Kept, Reflects
<1>2. CASE Next
  BY <1>0, <1>1, <1>2, KernelKept, StrandKept, WorkerKept, InjectorKept, RelayKept
     DEF Next, Quiescent
<1> QED BY <1>1, <1>2

\* Nothing is decided at first.
LEMMA InitDecisionInv == ASSUME Init PROVE DecisionInv
<1> USE DEF Init
<1>1. /\ phase = [f \in Flows |-> "idle"] /\ wire = [f \in Flows |-> "none"]
      /\ sockq = <<>> /\ netq = {} /\ word = [p \in Ports |-> EMPTY_WORD]
      /\ eflow = [i \in PoolIdx |-> None] /\ queue_ = <<>> /\ ipc = "idle"
      /\ posted = {} /\ spc = "idle" /\ wpc = [w \in Workers |-> "recv"]
      /\ relay = [f \in Flows |-> "none"]
  BY DEF KernelInit, TrackerInit, ParkerInit, SocketInit, NetworkInit, RelayInit
<1>2. /\ \A f \in Flows : slot(f) = "empty" /\ word[PortOf[f]] = EMPTY_WORD
      /\ \A w \in Workers : \A f : ~On(w, f)
      /\ \A k, f : ~Out(k, f)
  BY <1>1, FlowAssumption DEF slot, EMPTY_WORD, decided_word, On, Out, Queued, Handling
<1>3. Untouched BY <1>1, <1>2, TrackerAssumption DEF Untouched
<1>4. Stamps BY <1>1 DEF Stamps, After, Handling
<1>5. OneSyn /\ HandlerKind /\ FirstEvent BY <1>1, <1>2 DEF OneSyn, HandlerKind, FirstEvent
<1>6. Relays /\ Verdicts BY <1>1, <1>2 DEF Relays, Handling, Verdicts
<1>7. Consumed /\ DirectSettled BY <1>1, <1>2 DEF Consumed, DirectSettled
<1>8. Noted /\ Holding BY <1>1, <1>2 DEF Noted, Holding
<1> QED BY <1>3, <1>4, <1>5, <1>6, <1>7, <1>8 DEF DecisionInv

\* Nothing is reflected at first.
LEMMA InitReflectionInv == ASSUME Init PROVE ReflectionInv
<1>1. /\ wire = [f \in Flows |-> "none"] /\ sockq = <<>> /\ word = [p \in Ports |-> EMPTY_WORD]
      /\ queue_ = <<>> /\ posted = {} /\ spc = "idle" /\ wpc = [w \in Workers |-> "recv"]
      /\ entry = [p \in Ports |-> None]
  BY DEF Init, KernelInit, TrackerInit, ParkerInit, SocketInit, NetworkInit
<1>2. /\ \A f \in Flows : slot(f) = "empty"
      /\ \A w \in Workers : \A f : ~On(w, f)
      /\ \A k, f : ~Out(k, f)
  BY <1>1, FlowAssumption DEF slot, EMPTY_WORD, decided_word, On, Out, Queued, Handling
<1>3. EchoSettled /\ OneClear BY <1>1, <1>2 DEF EchoSettled, OneClear
<1>4. Reflecting BY <1>1 DEF Reflecting, InUse
<1>5. Loaded /\ Entries BY <1>1, <1>2 DEF Loaded, Entries
<1> QED BY <1>3, <1>4, <1>5 DEF ReflectionInv

\* A settled flow has no proxied slot.
LEMMA DecisionsHijackNothing == ASSUME IInv, DecisionInv PROVE NoHijack
<1> SUFFICES ASSUME NEW f \in Flows, phase[f] = "est", wire[f] = "direct", slot(f) = "proxied"
             PROVE  FALSE
  BY DEF NoHijack, slot
<1>1. Settled(f) BY DEF DecisionInv, DirectSettled
<1>2. Verdict[f] = "proxied" BY DEF DecisionInv, Verdicts
<1> QED BY <1>1, <1>2 DEF Settled

\* A decision never lands on a flow that is already established the direct way:
\* for any number of flows on ports of their own, workers and pool entries, any
\* interleaving, loss of CONNECTs, retransmission and echo, as long as an
\* oversize SYN belongs to a direct flow and a pin never loses to a decision.
THEOREM NoHijackCorrect ==
  ASSUME OnePerPort, "core" \notin Lagging, \A f \in Oversize : Verdict[f] = "direct"
  PROVE  Spec /\ []PinsWin => []NoHijack
<1>1. Init => DecisionInv BY InitDecisionInv
<1>2. IInv /\ IInv' /\ DecisionInv /\ PinsWin /\ [Next]_vars => DecisionInv' BY NextKept DEF Kept
<1>3. IInv /\ DecisionInv => NoHijack BY DecisionsHijackNothing
<1> QED BY <1>1, <1>2, <1>3, IInvCorrect, PTL DEF Spec

\* A reflected flow whose relay is not gone is in use.
LEMMA ReflectionStays == ASSUME IInv, ReflectionInv PROVE StaysReflected
<1> SUFFICES ASSUME NEW f \in Flows, wire[f] = "proxied", relay[f] # "gone"
             PROVE  slot(f) = "proxied" /\ entry[PortOf[f]] = RemoteOf[f]
  BY DEF StaysReflected, slot
<1>1. InUse(f) BY DEF InUse
<1> QED BY <1>1 DEF ReflectionInv, Reflecting, Entries

\* Both invariants hold of every run.
LEMMA DecisionInvCorrect ==
  ASSUME OnePerPort, "core" \notin Lagging, \A f \in Oversize : Verdict[f] = "direct",
         "proxied" \notin EchoPaths
  PROVE  Spec /\ []PinsWin => [](DecisionInv /\ ReflectionInv)
<1>1. Init => DecisionInv /\ ReflectionInv BY InitDecisionInv, InitReflectionInv
<1>2. IInv /\ IInv' /\ DecisionInv /\ ReflectionInv /\ PinsWin /\ [Next]_vars
      => (DecisionInv /\ ReflectionInv)'
  BY NextKept DEF Kept, Reflects
<1> QED BY <1>1, <1>2, IInvCorrect, PTL DEF Spec

\* Under the same conditions, and when the reflected SYN raises no echo, a flow
\* established through the acceptor stays reflected, to its own remote endpoint,
\* until its relay is gone: no CLOSE, no late CONNECT, no pin and no other relay's
\* clear takes its slot away.
THEOREM StaysReflectedCorrect ==
  ASSUME OnePerPort, "core" \notin Lagging, \A f \in Oversize : Verdict[f] = "direct",
         "proxied" \notin EchoPaths
  PROVE  Spec /\ []PinsWin => []StaysReflected
<1>1. IInv /\ DecisionInv /\ ReflectionInv => StaysReflected BY ReflectionStays
<1> QED BY <1>1, DecisionInvCorrect, IInvCorrect, PTL

\* Somebody will free entry i.
Held(i) ==
  \/ \E p \in Ports : Pending(p) /\ word[p].idx = i
  \/ \E k \in DOMAIN queue_ : queue_[k].idx = i
  \/ \E w \in Workers : Holds(w) /\ widx[w] = i

\* The generations still fit the 24 bits a word has for them.
GensFit == \A i \in PoolIdx : gen[i] < WordGenMod
\* clear_if() never wins on a slot in which a SYN is parked.
ClearSpares == spc = "clear_cas" /\ CasWins(sport, sword) => ~Pending(sport)

-----------------------------------------------------------------------------
\* No entry is leaked.

\* Only entry x changes hands.
LEMMA LeakFrame ==
  ASSUME NoLeak, NEW x,
         \A i \in PoolIdx : i # x /\ in_use'[i] => in_use[i],
         \A p \in Ports : Pending(p) /\ word[p].idx # x => word'[p] = word[p],
         \A k \in DOMAIN queue_ : queue_[k].idx # x =>
            \E l \in DOMAIN queue_' : queue_'[l].idx = queue_[k].idx,
         \A w \in Workers : Holds(w) /\ widx[w] # x => Holds(w)' /\ widx'[w] = widx[w],
         x \in PoolIdx /\ in_use'[x] => Held(x)'
  PROVE  NoLeak'
<1> SUFFICES ASSUME NEW i \in PoolIdx, in_use'[i], i # x PROVE Held(i)'
  BY DEF NoLeak, Held
<1>1. Held(i) BY DEF NoLeak, Held
<1>2. CASE \E p \in Ports : Pending(p) /\ word[p].idx = i BY <1>2 DEF Held, Pending
<1>3. CASE \E k \in DOMAIN queue_ : queue_[k].idx = i BY <1>3 DEF Held
<1>4. CASE \E w \in Workers : Holds(w) /\ widx[w] = i BY <1>4 DEF Held
<1> QED BY <1>1, <1>2, <1>3, <1>4 DEF Held

\* No entry changes hands.
LEMMA LeakQuiet ==
  ASSUME NoLeak, UNCHANGED <<in_use, queue_>>,
         \A p \in Ports : Pending(p) => word'[p] = word[p],
         \A w \in Workers : Holds(w) => Holds(w)' /\ widx'[w] = widx[w]
  PROVE  NoLeak'
<1>1. NO_POOL_IDX \notin PoolIdx BY TrackerAssumption DEF NO_POOL_IDX, PoolIdx
<1> QED BY <1>1, LeakFrame

\* The strand hands an entry to the injector, or frees it.
LEMMA StrandLeak ==
  ASSUME IInv, NoLeak, ClearSpares, StrandStep PROVE NoLeak'
<1> USE DEF IInv, TypeOK
<1>w. /\ \A w \in Workers : Holds(w) => Holds(w)' /\ widx'[w] = widx[w]
  BY DEF StrandStep, workerVars, Holds
<1>1. CASE \/ OnConnect \/ OnClose \/ PublishLoad \/ CloseLoad \/ ClearLoad
           \/ \E r \in posted : TakeClear(r)
  <2>1. UNCHANGED <<word, in_use, queue_>>
    BY <1>1 DEF OnConnect, OnClose, TakeEvent, PublishLoad, CloseLoad, ClearLoad, TakeClear,
                trackerVars, parkerVars, poolVars
  <2> QED BY <2>1, <1>w, LeakQuiet
<1>2. CASE (PublishCas \/ CloseCas \/ ClearCas) /\ ~CasWins(sport, sword)
  <2>1. UNCHANGED <<word, in_use, queue_>>
    BY <1>2 DEF PublishCas, CloseCas, ClearCas, parkerVars, poolVars
  <2> QED BY <2>1, <1>w, LeakQuiet
<1>3. ASSUME spc # "idle", CasWins(sport, sword), NEW v, SetWord(sport, v)
      PROVE  /\ word[sport] = sword /\ \A p \in Ports : p # sport => word'[p] = word[p]
             /\ sword.st = "pending" => sword.idx \in PoolIdx
  <2>1. sport \in Ports BY <1>3, StrandEventType, FlowAssumption DEF sport
  <2>2. sword \in Word BY DEF SocketTypeOK
  <2> QED BY <1>3, <2>1, <2>2, PendingFields DEF CasWins, SetWord, TrackerTypeOK
<1>4. CASE PublishCas /\ CasWins(sport, sword)
  <2>1. /\ spc # "idle" /\ UNCHANGED in_use
        /\ SetWord(sport, decided_word(decide(sev))) /\ handover(sword, sport, decide(sev))
    BY <1>4 DEF PublishCas, poolVars
  <2>2. /\ word[sport] = sword /\ \A p \in Ports : p # sport => word'[p] = word[p]
        /\ sword.st = "pending" => sword.idx \in PoolIdx
    BY <2>1, <1>3, <1>4
  <2>3. CASE sword.st # "pending"
    <3>1. UNCHANGED queue_ BY <2>1, <2>3 DEF handover
    <3> QED BY <2>1, <2>2, <2>3, <3>1, <1>w, LeakQuiet DEF Pending
  <2>4. CASE sword.st = "pending"
    <3>1. PICK i \in PoolIdx : i = sword.idx BY <2>2, <2>4
    <3>2. PICK r : r.idx = i /\ queue_' = Append(queue_, r)
      BY <2>1, <2>4, <3>1 DEF handover, release
    <3>3. /\ DOMAIN queue_ = 1 .. Len(queue_) /\ Len(queue_) \in Nat
          /\ DOMAIN queue_' = 1 .. (Len(queue_) + 1) /\ queue_'[Len(queue_) + 1] = r
          /\ \A k \in 1 .. Len(queue_) : queue_'[k] = queue_[k]
      <4>1. queue_ \in Seq(ReleaseReq) BY DEF ParkerTypeOK
      <4>2. queue_ \in Seq(ReleaseReq \cup {r})
        BY <4>1, QueueElement, LenProperties, SeqDef
      <4> QED BY <3>2, <4>2, AppendProperties, LenProperties
    <3>4. Held(i)' BY <3>2, <3>3 DEF Held
    <3>5. \A p \in Ports : Pending(p) /\ word[p].idx # i => word'[p] = word[p]
      BY <2>2, <3>1
    <3>6. \A k \in DOMAIN queue_ : queue_[k].idx # i =>
            \E l \in DOMAIN queue_' : queue_'[l].idx = queue_[k].idx
      BY <3>3
    <3> QED BY <2>1, <3>4, <3>5, <3>6, <1>w, LeakFrame
  <2> QED BY <2>3, <2>4
<1>5. CASE CloseCas /\ CasWins(sport, sword)
  <2>1. /\ spc # "idle" /\ UNCHANGED queue_
        /\ SetWord(sport, EMPTY_WORD)
        /\ IF sword.st = "pending" THEN free(sword.idx) ELSE UNCHANGED in_use
    BY <1>5 DEF CloseCas
  <2>2. /\ word[sport] = sword /\ \A p \in Ports : p # sport => word'[p] = word[p]
        /\ sword.st = "pending" => sword.idx \in PoolIdx
    BY <2>1, <1>3, <1>5
  <2>3. CASE sword.st # "pending" BY <2>1, <2>2, <2>3, <1>w, LeakQuiet DEF Pending
  <2>4. CASE sword.st = "pending"
    <3>1. PICK i \in PoolIdx : i = sword.idx BY <2>2, <2>4
    <3>2. ~in_use'[i] /\ \A j \in PoolIdx : j # i => in_use'[j] = in_use[j]
      BY <2>1, <2>4, <3>1 DEF free, ParkerTypeOK
    <3>3. \A p \in Ports : Pending(p) /\ word[p].idx # i => word'[p] = word[p]
      BY <2>2, <3>1
    <3> QED BY <2>1, <3>2, <3>3, <1>w, LeakFrame
  <2> QED BY <2>3, <2>4
<1>6. CASE ClearCas /\ CasWins(sport, sword)
  <2>1. /\ spc # "idle" /\ UNCHANGED <<in_use, queue_>> /\ SetWord(sport, EMPTY_WORD)
        /\ ~Pending(sport)
    BY <1>6 DEF ClearCas, ClearSpares, parkerVars, poolVars
  <2>2. \A p \in Ports : p # sport => word'[p] = word[p] BY <2>1, <1>3, <1>6
  <2> QED BY <2>1, <2>2, <1>w, LeakQuiet
<1> QED BY <1>1, <1>2, <1>4, <1>5, <1>6 DEF StrandStep, StrandNext

\* A worker takes an entry, parks it, or gives it back.
LEMMA WorkerLeak ==
  ASSUME IInv, NoLeak, NEW w \in Workers, WorkerThread(w) PROVE NoLeak'
<1> USE DEF IInv, TypeOK
<1>1. CASE \/ \E pkt \in netq : Receive(w, pkt)
           \/ ActOnFresh(w) \/ ActOnRetransmit(w) \/ PassOversize(w) \/ ActOnReload(w)
           \/ TtlStale(w) \/ ParkFull(w) \/ PinFull(w)
  <2>1. ~Holds(w) /\ UNCHANGED <<word, in_use, queue_>>
    BY <1>1 DEF Receive, ActOnFresh, ActOnRetransmit, PassOversize, ActOnReload, TtlStale, ParkFull,
                PinFull, Holds, trackerVars, parkerVars, poolVars
  <2>2. OthersKeep(w)
    <3>1. CASE Done(w) BY <3>1, DoneEffect
    <3>2. CASE ~Done(w)
      <4>1. /\ \E pc : Goto(w, pc)
            /\ UNCHANGED widx
            /\ \/ UNCHANGED <<wpkt, wword>>
               \/ \E pkt, l : wpkt' = [wpkt EXCEPT ![w] = pkt] /\ wword' = [wword EXCEPT ![w] = l]
        BY <1>1, <3>2 DEF Receive, ActOnFresh, ActOnRetransmit, PassOversize, ActOnReload, TtlStale,
                          ParkFull, PinFull
      <4> QED BY <4>1 DEF Goto, OthersKeep, NetworkTypeOK
    <3> QED BY <3>1, <3>2
  <2> QED BY <2>1, <2>2, LeakQuiet DEF OthersKeep, Holds
<1>2. CASE PassFull(w)
  <2>1. /\ wpc[w] = "pincas" /\ Done(w) /\ UNCHANGED <<in_use, queue_>>
        /\ \/ UNCHANGED word
           \/ word[wport(w)] = wword[w] /\ \E v : SetWord(wport(w), v)
    BY <1>2 DEF PassFull, CasWins, parkerVars, poolVars
  <2>2. OthersKeep(w) BY <2>1, DoneEffect
  <2>3. \A p \in Ports : Pending(p) => word'[p] = word[p]
    <3>1. wword[w].st # "pending" BY DEF WorkerInv
    <3> QED BY <2>1, <3>1 DEF SetWord, TrackerTypeOK, Pending
  <2> QED BY <2>1, <2>2, <2>3, LeakQuiet DEF OthersKeep, Holds
<1>3. ASSUME NEW i \in PoolIdx, ParkAlloc(w, i) PROVE NoLeak'
  <2>1. /\ wpc[w] = "park" /\ UNCHANGED <<word, queue_>>
        /\ \A j \in PoolIdx : j # i => in_use'[j] = in_use[j]
        /\ wpc' = [wpc EXCEPT ![w] = "fill"] /\ widx' = [widx EXCEPT ![w] = i]
    BY <1>3 DEF ParkAlloc, alloc, Goto, ParkerTypeOK
  <2>2. /\ wpc'[w] = "fill" /\ widx'[w] = i
        /\ \A x \in Workers \ {w} : wpc'[x] = wpc[x] /\ widx'[x] = widx[x]
    BY <2>1 DEF NetworkTypeOK
  <2>3. Held(i)' BY <2>2 DEF Held, Holds
  <2>4. \A x \in Workers : Holds(x) => Holds(x)' /\ widx'[x] = widx[x] BY <2>1, <2>2 DEF Holds
  <2> QED BY <2>1, <2>3, <2>4, LeakFrame
<1>4. CASE ParkFill(w)
  <2>1. /\ UNCHANGED <<word, in_use, queue_, widx>> /\ wpc' = [wpc EXCEPT ![w] = "cas"]
    BY <1>4 DEF ParkFill, Goto, trackerVars
  <2>2. \A x \in Workers : Holds(x) => Holds(x)' BY <2>1 DEF Holds, NetworkTypeOK
  <2> QED BY <2>1, <2>2, LeakQuiet
<1>5. CASE TryPark(w)
  <2>0. PICK i \in PoolIdx : i = widx[w] BY DEF NetworkTypeOK
  <2>1. /\ wpc[w] = "cas" /\ word[wport(w)] = wword[w] /\ Done(w) /\ UNCHANGED <<in_use, queue_>>
        /\ SetWord(wport(w), pack_word("pending", gen[i], i))
    BY <1>5, <2>0 DEF TryPark, CasWins, parkerVars, poolVars
  <2>2. PICK v : v.st = "pending" /\ v.idx = i /\ SetWord(wport(w), v) BY <2>1 DEF pack_word
  <2>3. PICK p \in Ports : p = wport(w)
    BY <2>1, WorkerPacket, FlowAssumption DEF wport
  <2>4. /\ word'[p] = v /\ \A q \in Ports : q # p => word'[q] = word[q]
        /\ ~Pending(p)
    BY <2>1, <2>2, <2>3 DEF SetWord, TrackerTypeOK, Pending, WorkerInv
  <2>5. Held(i)' BY <2>2, <2>4 DEF Held, Pending
  <2>6. OthersKeep(w) BY <2>1, DoneEffect
  <2>7. \A x \in Workers : Holds(x) /\ widx[x] # i => Holds(x)' /\ widx'[x] = widx[x]
    BY <2>0, <2>6 DEF OthersKeep, Holds
  <2> QED BY <2>1, <2>4, <2>5, <2>7, LeakFrame
<1>6. CASE ParkCasLost(w)
  <2>0. PICK i \in PoolIdx : i = widx[w] BY DEF NetworkTypeOK
  <2>1. /\ UNCHANGED <<word, queue_, widx>> /\ free(i) /\ Goto(w, "lost")
    BY <1>6, <2>0 DEF ParkCasLost, trackerVars
  <2>2. ~in_use'[i] /\ \A j \in PoolIdx : j # i => in_use'[j] = in_use[j]
    BY <2>1 DEF free, ParkerTypeOK
  <2>3. \A x \in Workers : Holds(x) /\ widx[x] # i => Holds(x)'
    BY <2>0, <2>1 DEF Goto, Holds, NetworkTypeOK
  <2> QED BY <2>1, <2>2, <2>3, LeakFrame
<1> QED BY <1>1, <1>2, <1>3, <1>4, <1>5, <1>6 DEF WorkerThread, WorkerNext, WorkerStep

\* The injector frees what it takes from the queue or from a slot.
LEMMA InjectorLeak ==
  ASSUME IInv, NoLeak, InjectorStep, ~gen_mismatch' PROVE NoLeak'
<1> USE DEF IInv, TypeOK
<1>w. \A w \in Workers : Holds(w) => Holds(w)' /\ widx'[w] = widx[w]
  BY DEF InjectorStep, workerVars, Holds
<1>1. CASE \/ StartSweep \/ (\E i \in PoolIdx : SweepAge(i)) \/ SweepLoad \/ SweepPin
           \/ SweepCasLost \/ FinalSweep \/ InjectorExit
  <2>1. UNCHANGED <<word, in_use, queue_>>
    BY <1>1 DEF StartSweep, SweepAge, SweepLoad, SweepPin, SweepCasLost, FinalSweep, InjectorExit,
                trackerVars, poolVars
  <2> QED BY <2>1, <1>w, LeakQuiet
<1>f. ASSUME NEW i \in PoolIdx, NEW g, NEW d, release_parked(i, g, d)
      PROVE  ~in_use'[i] /\ \A j \in PoolIdx : j # i => in_use'[j] = in_use[j]
  BY <1>f DEF release_parked, release_mismatch, release_send, free, ParkerTypeOK
<1>2. CASE DrainQueue
  <2>1. /\ UNCHANGED word /\ queue_ # <<>> /\ queue_' = Tail(queue_) /\ queue_ \in Seq(ReleaseReq)
        /\ release_parked(Head(queue_).idx, Head(queue_).gen, Head(queue_).decision)
    BY <1>2 DEF DrainQueue, trackerVars, ParkerTypeOK
  <2>2. /\ DOMAIN queue_ = 1 .. Len(queue_) /\ DOMAIN queue_' = 1 .. (Len(queue_) - 1)
        /\ Len(queue_) \in Nat /\ 1 \in DOMAIN queue_ /\ Head(queue_) = queue_[1]
        /\ \A k \in 1 .. (Len(queue_) - 1) : queue_'[k] = queue_[k + 1]
    BY <2>1, HeadTailProperties, LenProperties, EmptySeq
  <2>3. PICK i \in PoolIdx : i = queue_[1].idx BY <2>2, QueueElement DEF ReleaseReq
  <2>4. ~in_use'[i] /\ \A j \in PoolIdx : j # i => in_use'[j] = in_use[j]
    BY <2>1, <2>2, <2>3, <1>f
  <2>5. \A k \in DOMAIN queue_ : queue_[k].idx # i =>
          \E l \in DOMAIN queue_' : queue_'[l].idx = queue_[k].idx
    <3>1. SUFFICES ASSUME NEW k \in DOMAIN queue_, queue_[k].idx # i
                   PROVE  k - 1 \in DOMAIN queue_' /\ queue_'[k - 1].idx = queue_[k].idx
      OBVIOUS
    <3>2. k # 1 BY <3>1, <2>3
    <3>3. k - 1 \in 1 .. (Len(queue_) - 1) /\ (k - 1) + 1 = k BY <3>2, <2>2
    <3> QED BY <3>3, <2>2
  <2> QED BY <2>1, <2>4, <2>5, <1>w, LeakFrame
<1>3. CASE SweepCasWon
  <2>1. PICK i \in PoolIdx : i = iidx BY DEF ParkerTypeOK
  <2>2. /\ UNCHANGED queue_ /\ word[iport] = iword /\ iword.st = "pending" /\ iword.idx = i
        /\ iport \in Ports /\ release_parked(i, iword.gen, "abandoned")
        /\ SetWord(iport, decided_word("abandoned"))
    BY <1>3, <2>1 DEF SweepCasWon, CasWins, InjectorInv
  <2>3. ~in_use'[i] /\ \A j \in PoolIdx : j # i => in_use'[j] = in_use[j] BY <2>2, <1>f
  <2>4. \A p \in Ports : Pending(p) /\ word[p].idx # i => word'[p] = word[p]
    BY <2>2 DEF SetWord, TrackerTypeOK
  <2> QED BY <2>2, <2>3, <2>4, <1>w, LeakFrame
<1> QED BY <1>1, <1>2, <1>3 DEF InjectorStep, InjectorNext, SweepStep

\* No step loses an entry, unless a clear hits a parked SYN or a generation was
\* truncated.
LEMMA NextLeak == IInv /\ NoLeak /\ ClearSpares /\ ~gen_mismatch' /\ [Next]_vars => NoLeak'
<1> SUFFICES ASSUME IInv, NoLeak, ClearSpares, ~gen_mismatch', [Next]_vars PROVE NoLeak'
  OBVIOUS
<1>1. CASE \/ UNCHANGED vars \/ KernelStep \/ RelayStep \/ CloseSocketLayer \/ StopParker
           \/ CloseNetworkLayer
  <2>1. UNCHANGED <<word, in_use, queue_, wpc, widx>>
    BY <1>1 DEF vars, KernelStep, RelayStep, RelayNext, RelayAccept, RelayRefuse, RelayEnd,
                CloseSocketLayer, StopParker, CloseNetworkLayer, SetLife, trackerVars, parkerVars,
                poolVars, workerVars
  <2> QED BY <2>1, LeakQuiet DEF Holds
<1>2. CASE Next
  BY <1>1, <1>2, StrandLeak, WorkerLeak, InjectorLeak DEF Next, Quiescent
<1> QED BY <1>1, <1>2

\* Whatever the flows, ports, losses and lags: pool_in_use returns to 0 as long as
\* the generations fit and no clear_if() wins on a slot with a parked SYN.
THEOREM NoLeakIfSpared == Spec /\ []GensFit /\ []ClearSpares => []NoLeak
<1>1. Init => NoLeak /\ ~gen_mismatch BY DEF Init, ParkerInit, NoLeak
<1>2. /\ IInv /\ ~gen_mismatch /\ GensFit
      /\ [gen_mismatch' => gen_mismatch \/ \E i \in PoolIdx : gen[i] >= WordGenMod]_vars
      => ~gen_mismatch'
  <2> SUFFICES ASSUME IInv, ~gen_mismatch, GensFit, gen_mismatch',
                      [gen_mismatch' => gen_mismatch \/ \E i \in PoolIdx : gen[i] >= WordGenMod]_vars
               PROVE FALSE
    OBVIOUS
  <2>1. PICK i \in PoolIdx : gen[i] >= WordGenMod BY DEF vars, parkerVars
  <2>2. gen[i] \in Nat /\ WordGenMod \in Nat
    BY ParkerAssumption, TrackerAssumption DEF IInv, TypeOK, ParkerTypeOK
  <2> QED BY <2>1, <2>2 DEF GensFit
<1> QED BY <1>1, <1>2, NextLeak, IInvCorrect, MismatchCorrect, PTL
        DEF Spec, MismatchOnlyByTruncation

\* The flow a clear is about is in use, so its slot is not pending.
LEMMA ReflectionSpares == ASSUME IInv, DecisionInv, ReflectionInv PROVE ClearSpares
<1> SUFFICES ASSUME spc = "clear_cas" PROVE ~Pending(sport)
  BY DEF ClearSpares
<1>1. PICK f \in Flows : f = sev.flow BY StrandFlow
<1>2. Handling("clear", f) BY <1>1 DEF DecisionInv, HandlerKind, Handling
<1>3. wire[f] = "proxied" BY <1>2 DEF DecisionInv, Relays
<1>4. slot(f) = "proxied" BY <1>2, <1>3 DEF ReflectionInv, Reflecting, InUse, ClearOut
<1> QED BY <1>1, <1>4 DEF slot, Pending, sport

\* No pool entry is lost: with a flow per port clear_if() only ever finds the
\* decision its relay was served under, so a parked SYN is never cleared away.
THEOREM NoLeakCorrect ==
  ASSUME OnePerPort, "core" \notin Lagging, \A f \in Oversize : Verdict[f] = "direct",
         "proxied" \notin EchoPaths
  PROVE  Spec /\ []PinsWin /\ []GensFit => []NoLeak
<1>1. IInv /\ DecisionInv /\ ReflectionInv => ClearSpares BY ReflectionSpares
<1> QED BY <1>1, DecisionInvCorrect, NoLeakIfSpared, IInvCorrect, PTL

\* A pool that is never exhausted needs no pins.
THEOREM RoomPins == Spec /\ []~Exhausted => []PinsWin
<1> DEFINE NoPin == \A w \in Workers : wpc[w] \notin {"pin", "pincas"}
<1>1. Init => NoPin BY DEF Init, NetworkInit
<1>2. ASSUME IInv, NoPin, ~Exhausted, [Next]_vars PROVE NoPin'
  <2>1. CASE UNCHANGED wpc BY <1>2, <2>1
  <2>2. ASSUME NEW w \in Workers, WorkerThread(w) PROVE NoPin'
    <3>1. PICK pc : pc \notin {"pin", "pincas"} /\ Goto(w, pc)
      BY <1>2, <2>2 DEF WorkerThread, WorkerNext, WorkerStep, Receive, ActOnFresh, ActOnRetransmit,
         TtlStale, PassOversize, ParkAlloc, ParkFill, TryPark, ParkCasLost, ActOnReload, ParkFull,
         PinFull, PassFull, Done
    <3> QED BY <1>2, <3>1 DEF Goto, IInv, TypeOK, NetworkTypeOK
  <2> QED BY <1>2, <2>1, <2>2 DEF Next, KernelStep, StrandStep, InjectorStep, RelayStep, Quiescent,
        CloseSocketLayer, StopParker, CloseNetworkLayer, SetLife, vars, workerVars
<1>3. NoPin => PinsWin BY DEF PinsWin
<1> QED BY <1>1, <1>2, <1>3, IInvCorrect, PTL DEF Spec

-----------------------------------------------------------------------------
\* Whose decision a clear clears, where flows share ports.  A flow that opens its
\* port after another is the only one clew is busy with, but the relays of the
\* earlier ones, and their clears, may still be out: connect_ts tells them apart.
\* The slot may also still be proxied for a flow that is over; its decision is
\* then too old for the new flow's SYNs, so no relay takes it for that flow's.

\* The events the SOCKET layer still holds, and the requests the injector does.
Events == {sockq[k] : k \in DOMAIN sockq}
Requests == {queue_[k] : k \in DOMAIN queue_}

\* Clew still has to do with f, its relay's clear apart.
InHand(f) == spc # "idle" /\ sev.kind # "clear" /\ sev.flow = f
Busy(f) ==
  \/ phase[f] \in {"syn", "est"}
  \/ Reflected(f) /\ relay[f] = "none"
  \/ \E e \in Events : e.flow = f
  \/ InHand(f)
  \/ \E pkt \in netq : pkt.flow = f
  \/ \E w \in Workers : On(w, f)
  \/ \E p \in Ports : Pending(p) /\ eflow[word[p].idx] = f
  \/ \E r \in Requests : eflow[r.idx] = f

\* A flow that was never opened left no trace, and a port has one user at a time.
Turn ==
  /\ \A f \in Flows : phase[f] = "idle" =>
       ~Busy(f) /\ wire[f] = "none" /\ relay[f] = "none" /\ syn_seq[PortOf[f]] # f
  /\ \A f, g \in Flows : Busy(f) /\ Busy(g) /\ PortOf[f] = PortOf[g] => f = g

\* Nothing is stamped later than the burst the clock is at.
Clock ==
  /\ \A f \in Flows : syn_sent[f] <= now + 1 /\ flow_ts[f] <= now + 2
  /\ \A p \in Ports : connect_ts[p] <= now + 2
  /\ \A e \in Events : e.ts <= now + 2
  /\ spc # "idle" => sev.ts <= now + 2

\* The strand between its load and its CAS, and a CONNECT before its SYN.
Strand ==
  /\ DOMAIN entry = Ports
  /\ spc = "pub_cas" => connect_ts[sport] = sev.ts /\ entry[sport] = RemoteOf[sev.flow]
  /\ spc = "clear_cas" => connect_ts[sport] = sev.ts
  /\ \A e \in Events : e.kind = "connect" => e.ts <= syn_sent[e.flow]
  /\ spc # "idle" /\ sev.kind = "connect" => sev.ts <= syn_sent[sev.flow]

\* A decision to proxy is no younger than the last SYN of a flow of its port.
Publishing(p) == spc \in {"pub_load", "pub_cas"} /\ sport = p
DecidedBy(p) ==
  \E g \in Flows : PortOf[g] = p /\ phase[g] # "idle" /\ connect_ts[p] <= syn_sent[g]
Dated == \A p \in Ports : word[p].st = "proxied" /\ ~Publishing(p) => DecidedBy(p)

\* A relay that serves a flow, or whose clear is still to run, knows its time.
Served(f) == relay[f] = "serving" \/ ClearOut(f)
Clears ==
  /\ \A f \in Flows : ClearOut(f) => relay[f] = "gone"
  /\ \A r \in posted : r.ts = flow_ts[r.flow]
  /\ spc # "idle" /\ sev.kind = "clear" => sev.ts = flow_ts[sev.flow]

\* That time names the flow: who else uses the port by now is published later.
Own(f) == entry[PortOf[f]] = RemoteOf[f]
Named ==
  \A f \in Flows : Served(f) =>
    /\ connect_ts[PortOf[f]] = flow_ts[f] => Own(f)
    /\ \A g \in Flows : Busy(g) /\ PortOf[g] = PortOf[f] /\ g # f => flow_ts[f] < now
    /\ \A e \in Events :
         e.kind # "close" /\ PortOf[e.flow] = PortOf[f] /\ e.ts = flow_ts[f] => e.flow = f
    /\ Publishing(PortOf[f]) /\ sev.ts = flow_ts[f] => sev.flow = f

\* f has the port, and the entry of the slot is another flow's: no SYN of f
\* went, or is about to go, to the acceptor.
Leftover(f) == Busy(f) /\ ~Own(f)
Unproxied(f) ==
  /\ wire[f] # "proxied"
  /\ \A r \in Requests : eflow[r.idx] = f => r.decision # "proxied"

\* A proxied word that is left over is too old for every SYN of f.
Shown(f) ==
  \/ word[PortOf[f]].st = "proxied"
  \/ \E w \in Workers : On(w, f) /\ wword[w].st = "proxied"
Aged(f) ==
  LET t == connect_ts[PortOf[f]] IN
  /\ now + 1 - t > TTL
  /\ \A pkt \in netq : pkt.flow = f => pkt.ts - t > TTL
  /\ \A w \in Workers : On(w, f) => wpkt[w].ts - t > TTL

\* A worker with a SYN of f will not take it for a retransmission, and does not
\* lose its CAS to a proxied word.
Watched(f) ==
  \A w \in Workers : On(w, f) =>
    /\ word[PortOf[f]].st = "proxied" => wpc[w] # "lost" /\ wword[w].st = "proxied"
    /\ wpc[w] = "ttl" /\ wword[w].st = "proxied" => syn_seq[PortOf[f]] # f

\* The ISN of f is noted over a leftover only while f is being parked, or for good.
NotedOnce(f) ==
  word[PortOf[f]].st = "proxied" /\ syn_seq[PortOf[f]] = f =>
    /\ \A pkt \in netq : pkt.flow # f
    /\ \/ \E w \in Workers : On(w, f) /\ wpc[w] \in {"fill", "cas", "pin", "pincas"}
       \/ MaxRetransmits = 0

Leftovers ==
  \A f \in Flows : Leftover(f) =>
    Unproxied(f) /\ (Shown(f) => Aged(f)) /\ Watched(f) /\ NotedOnce(f)

TurnInv ==
  /\ Turn /\ OneSyn /\ HandlerKind /\ Clock /\ Strand /\ Dated /\ Clears /\ Named /\ Leftovers

-----------------------------------------------------------------------------
\* What the queues hold after a step.

\* A queue gains the element appended to it, and its tail holds nothing new.
LEMMA QueueElements ==
  ASSUME NEW S, NEW q \in Seq(S)
  PROVE  /\ \A k \in DOMAIN q : q[k] \in S
         /\ \A e \in S : \A x : (\E k \in DOMAIN Append(q, e) : x = Append(q, e)[k])
                               <=> (x = e \/ \E k \in DOMAIN q : x = q[k])
         /\ q # <<>> => /\ \E k \in DOMAIN q : Head(q) = q[k]
                        /\ \A k \in DOMAIN Tail(q) : \E l \in DOMAIN q : Tail(q)[k] = q[l]
<1>1. DOMAIN q = 1 .. Len(q) /\ Len(q) \in Nat /\ \A k \in DOMAIN q : q[k] \in S
  BY LenProperties, ElementOfSeq
<1>2. ASSUME NEW e \in S, NEW x
      PROVE  (\E k \in DOMAIN Append(q, e) : x = Append(q, e)[k])
             <=> (x = e \/ \E k \in DOMAIN q : x = q[k])
  <2>1. /\ DOMAIN Append(q, e) = 1 .. (Len(q) + 1) /\ Append(q, e)[Len(q) + 1] = e
        /\ \A k \in 1 .. Len(q) : Append(q, e)[k] = q[k]
    BY <1>1, AppendProperties, LenProperties
  <2> QED BY <1>1, <2>1
<1>3. ASSUME q # <<>>
      PROVE  /\ \E k \in DOMAIN q : Head(q) = q[k]
             /\ \A k \in DOMAIN Tail(q) : \E l \in DOMAIN q : Tail(q)[k] = q[l]
  <2>1. /\ Head(q) = q[1] /\ 1 \in DOMAIN q /\ DOMAIN Tail(q) = 1 .. (Len(q) - 1)
        /\ \A k \in 1 .. (Len(q) - 1) : Tail(q)[k] = q[k + 1] /\ k + 1 \in DOMAIN q
    BY <1>1, <1>3, HeadTailProperties, LenProperties, EmptySeq
  <2> QED BY <2>1
<1> QED BY <1>1, <1>2, <1>3

\* The SOCKET layer's events from one state to the next.
LEMMA EventsNext ==
  ASSUME TypeOK
  PROVE  /\ \A e \in Events : e \in SockEvent /\ e.flow \in Flows /\ e.ts \in Nat
         /\ \A e \in SockEvent : sockq' = Append(sockq, e) => Events' = Events \cup {e}
         /\ sockq # <<>> => /\ Head(sockq) \in Events
                            /\ sockq' = Tail(sockq) => Events' \subseteq Events
         /\ sockq' = sockq => Events' = Events
<1>1. sockq \in Seq(SockEvent) BY DEF TypeOK, KernelTypeOK
<1>2. \A e \in Events : e \in SockEvent BY <1>1, QueueElements DEF Events
<1>3. \A e \in SockEvent : sockq' = Append(sockq, e) => Events' = Events \cup {e}
  <2> SUFFICES ASSUME NEW e \in SockEvent, sockq' = Append(sockq, e)
               PROVE  \A x : x \in Events' <=> x = e \/ x \in Events
    OBVIOUS
  <2>1. \A x : (\E k \in DOMAIN sockq' : x = sockq'[k])
               <=> (x = e \/ \E k \in DOMAIN sockq : x = sockq[k])
    BY <1>1, QueueElements
  <2> QED BY <2>1 DEF Events
<1>4. sockq # <<>> => /\ Head(sockq) \in Events
                      /\ sockq' = Tail(sockq) => Events' \subseteq Events
  BY <1>1, QueueElements DEF Events
<1>5. sockq' = sockq => Events' = Events BY DEF Events
<1> QED BY <1>2, <1>3, <1>4, <1>5 DEF SockEvent

\* The injector's requests from one state to the next.
LEMMA RequestsNext ==
  ASSUME TypeOK
  PROVE  /\ \A r \in Requests : r \in ReleaseReq /\ r.idx \in PoolIdx
         /\ \A r \in ReleaseReq : queue_' = Append(queue_, r) => Requests' = Requests \cup {r}
         /\ queue_ # <<>> => /\ Head(queue_) \in Requests
                             /\ queue_' = Tail(queue_) => Requests' \subseteq Requests
         /\ queue_' = queue_ => Requests' = Requests
<1>1. queue_ \in Seq(ReleaseReq) BY DEF TypeOK, ParkerTypeOK
<1>2. \A r \in Requests : r \in ReleaseReq BY <1>1, QueueElements DEF Requests
<1>3. \A r \in ReleaseReq : queue_' = Append(queue_, r) => Requests' = Requests \cup {r}
  <2> SUFFICES ASSUME NEW r \in ReleaseReq, queue_' = Append(queue_, r)
               PROVE  \A x : x \in Requests' <=> x = r \/ x \in Requests
    OBVIOUS
  <2>1. \A x : (\E k \in DOMAIN queue_' : x = queue_'[k])
               <=> (x = r \/ \E k \in DOMAIN queue_ : x = queue_[k])
    BY <1>1, QueueElements
  <2> QED BY <2>1 DEF Requests
<1>4. queue_ # <<>> => /\ Head(queue_) \in Requests
                       /\ queue_' = Tail(queue_) => Requests' \subseteq Requests
  BY <1>1, QueueElements DEF Requests
<1>5. queue_' = queue_ => Requests' = Requests BY DEF Requests
<1> QED BY <1>2, <1>3, <1>4, <1>5 DEF ReleaseReq

\* A request of the queue refers to a live entry with a SYN of its port.
LEMMA RequestRef ==
  ASSUME IInv, NEW r \in Requests
  PROVE  /\ r \in ReleaseReq /\ r.idx \in PoolIdx /\ eflow[r.idx] \in Flows
         /\ PortOf[eflow[r.idx]] = r.port
<1>1. r \in ReleaseReq /\ r.idx \in PoolIdx BY RequestsNext DEF IInv
<1>2. RefValid(r.idx, r.gen, r.port)
  BY DEF Requests, IInv, PoolOwnership, ReferencesValid
<1> QED BY <1>1, <1>2 DEF RefValid, HasPort, eport, IInv, TypeOK, ParkerTypeOK

\* A pending word refers to a live entry with a SYN of its port.
LEMMA PendingRef ==
  ASSUME IInv, NEW p \in Ports, Pending(p)
  PROVE  /\ word[p].idx \in PoolIdx /\ eflow[word[p].idx] \in Flows
         /\ PortOf[eflow[word[p].idx]] = p
<1>1. RefValid(word[p].idx, word[p].gen, p) BY DEF IInv, PoolOwnership, ReferencesValid
<1>2. word[p].idx \in PoolIdx BY PendingFields DEF IInv, TypeOK, TrackerTypeOK, Pending
<1> QED BY <1>1, <1>2 DEF RefValid, HasPort, eport, IInv, TypeOK, ParkerTypeOK

-----------------------------------------------------------------------------
\* Steps that bring nothing new, and what survives them.

\* What a flow has to do with clew can only end.
LEMMA BusyShrinks ==
  ASSUME \A f \in Flows : phase'[f] \in {"syn", "est"} => phase[f] \in {"syn", "est"},
         \A f \in Flows : Reflected(f)' /\ relay'[f] = "none" => Busy(f),
         \A e \in Events' : e \in Events \/ Busy(e.flow),
         \A f \in Flows : InHand(f)' => Busy(f),
         \A pkt \in netq' : pkt \in netq \/ Busy(pkt.flow),
         \A f \in Flows, w \in Workers : On(w, f)' => Busy(f),
         \A f \in Flows, p \in Ports : Pending(p)' /\ eflow'[word'[p].idx] = f => Busy(f),
         \A f \in Flows, r \in Requests' : eflow'[r.idx] = f => Busy(f)
  PROVE  \A f \in Flows : Busy(f)' => Busy(f)
<1> SUFFICES ASSUME NEW f \in Flows, Busy(f)' PROVE Busy(f) OBVIOUS
<1>1. CASE phase'[f] \in {"syn", "est"} BY <1>1 DEF Busy
<1>2. CASE \E e \in Events' : e.flow = f BY <1>2 DEF Busy
<1>3. CASE \E pkt \in netq' : pkt.flow = f BY <1>3 DEF Busy
<1> QED BY <1>1, <1>2, <1>3 DEF Busy

\* Busy is about these variables only.
LEMMA BusyFrame ==
  ASSUME UNCHANGED <<phase, wire, relay, sockq, spc, sev, netq, wpc, wpkt, word, eflow, queue_>>
  PROVE  /\ \A f : Busy(f)' <=> Busy(f)
         /\ Events' = Events /\ Requests' = Requests
         /\ \A w, f : On(w, f)' <=> On(w, f)
BY DEF Busy, Reflected, Events, InHand, On, wflow, Pending, Requests

\* No flow appears, and the decisions and the relays' times stay what they are.
Passive ==
  /\ UNCHANGED <<connect_ts, entry, flow_ts>>
  /\ now <= now'
  /\ \A f \in Flows : syn_sent[f] <= syn_sent'[f] /\ syn_sent'[f] <= now' + 1
  /\ \A f \in Flows : phase'[f] = "idle" => phase[f] = "idle"
  /\ \A f \in Flows : Busy(f)' => Busy(f)
  /\ \A f \in Flows : /\ wire'[f] # "none" => wire[f] # "none" \/ Busy(f)
                      /\ relay'[f] # "none" => relay[f] # "none" \/ Busy(f)
                      /\ syn_seq'[PortOf[f]] = f => syn_seq[PortOf[f]] = f \/ Busy(f)
  /\ \A e \in Events' : e \in Events \/ /\ Busy(e.flow) /\ e.kind # "connect"
                                        /\ e.ts <= now' + 2 /\ (e.kind = "echo" => now <= e.ts)
  /\ \A p \in Ports : word'[p].st = "proxied" /\ ~Publishing(p)'
                      => word[p].st = "proxied" /\ ~Publishing(p)
  /\ \A f \in Flows : Served(f)' => Served(f)
  /\ spc' # "idle" => sev'.ts <= now + 2
  /\ \A p \in Ports : Publishing(p)' =>
       \/ Publishing(p) /\ sev' = sev
       \/ sev' \in Events /\ sev'.kind # "close" /\ PortOf[sev'.flow] = p

\* A passive step keeps all that is about who uses a port and when.
LEMMA PassiveKept ==
  ASSUME TypeOK, TypeOK', Turn, Clock, Dated, Named, Passive
  PROVE  Turn' /\ Clock' /\ Dated' /\ Named'
<1>t. /\ now \in Nat /\ now' \in Nat /\ syn_sent \in [Flows -> Nat] /\ syn_sent' \in [Flows -> Nat]
      /\ connect_ts \in [Ports -> Nat] /\ flow_ts \in [Flows -> Nat]
      /\ \A f \in Flows : PortOf[f] \in Ports
  BY FlowAssumption DEF TypeOK, KernelTypeOK, TrackerTypeOK, RelayTypeOK
<1>e. /\ \A e \in Events : e \in SockEvent /\ e.flow \in Flows /\ e.ts \in Nat
      /\ \A e \in Events' : e \in SockEvent /\ e.flow \in Flows /\ e.ts \in Nat
  <2>1. \A e \in Events : e \in SockEvent /\ e.flow \in Flows /\ e.ts \in Nat BY EventsNext
  <2>2. sockq' \in Seq(SockEvent) BY DEF TypeOK, KernelTypeOK
  <2>3. \A e \in Events' : e \in SockEvent BY <2>2, QueueElements DEF Events
  <2> QED BY <2>1, <2>3 DEF SockEvent
<1>1. Turn' BY DEF Turn, Passive
<1>2. Clock'
  <2>1. \A f \in Flows : syn_sent'[f] <= now' + 1 /\ flow_ts'[f] <= now' + 2
    BY <1>t DEF Clock, Passive
  <2>2. \A p \in Ports : connect_ts'[p] <= now' + 2 BY <1>t DEF Clock, Passive
  <2>3. \A e \in Events' : e.ts <= now' + 2 BY <1>t, <1>e DEF Clock, Passive
  <2>4. spc' # "idle" => sev'.ts <= now' + 2
    <3>1. spc' # "idle" => sev'.ts \in Nat
      BY DEF TypeOK, SocketTypeOK, StrandEvent
    <3> QED BY <1>t, <3>1 DEF Passive
  <2> QED BY <2>1, <2>2, <2>3, <2>4 DEF Clock
<1>3. Dated'
  <2>1. \A p \in Ports : DecidedBy(p) => DecidedBy(p)'
    BY <1>t DEF DecidedBy, Passive
  <2> QED BY <2>1 DEF Dated, Passive
<1>4. Named'
  <2> SUFFICES ASSUME NEW f \in Flows, Served(f)'
               PROVE  /\ connect_ts'[PortOf[f]] = flow_ts'[f] => Own(f)'
                      /\ \A g \in Flows : Busy(g)' /\ PortOf[g] = PortOf[f] /\ g # f
                                          => flow_ts'[f] < now'
                      /\ \A e \in Events' : e.kind # "close" /\ PortOf[e.flow] = PortOf[f]
                                            /\ e.ts = flow_ts'[f] => e.flow = f
                      /\ Publishing(PortOf[f])' /\ sev'.ts = flow_ts'[f] => sev'.flow = f
    BY DEF Named
  <2>0. Served(f) /\ flow_ts'[f] = flow_ts[f] BY DEF Passive
  <2>1. connect_ts'[PortOf[f]] = flow_ts'[f] => Own(f)' BY <2>0 DEF Named, Passive, Own
  <2>2. \A g \in Flows : Busy(g)' /\ PortOf[g] = PortOf[f] /\ g # f => flow_ts'[f] < now'
    BY <1>t, <2>0 DEF Named, Passive
  <2>3. ASSUME NEW e \in Events', e.kind # "close", PortOf[e.flow] = PortOf[f],
               e.ts = flow_ts'[f]
        PROVE  e.flow = f
    <3>1. CASE e \in Events BY <2>0, <2>3, <3>1 DEF Named
    <3>2. CASE e \notin Events
      <4>1. Busy(e.flow) /\ e.kind # "connect" /\ (e.kind = "echo" => now <= e.ts)
        BY <3>2 DEF Passive
      <4>2. e.kind = "echo" /\ e.flow \in Flows BY <1>e, <2>3, <4>1 DEF SockEvent
      <4> QED BY <1>t, <1>e, <2>0, <2>3, <4>1, <4>2 DEF Named
    <3> QED BY <3>1, <3>2
  <2>4. ASSUME Publishing(PortOf[f])', sev'.ts = flow_ts'[f] PROVE sev'.flow = f
    <3>1. CASE Publishing(PortOf[f]) /\ sev' = sev BY <2>0, <2>4, <3>1 DEF Named
    <3>2. CASE sev' \in Events /\ sev'.kind # "close" /\ PortOf[sev'.flow] = PortOf[f]
      BY <2>0, <2>4, <3>2 DEF Named
    <3> QED BY <1>t, <2>4, <3>1, <3>2 DEF Passive
  <2> QED BY <2>1, <2>2, <2>3, <2>4
<1> QED BY <1>1, <1>2, <1>3, <1>4

\* What Leftovers says of one flow.
Spared(f) == Unproxied(f) /\ (Shown(f) => Aged(f)) /\ Watched(f) /\ NotedOnce(f)

\* A step that sends no SYN of f, hands it to nobody and decides nothing new.
LEMMA SparedKept ==
  ASSUME TypeOK, TypeOK', NEW f \in Flows, Leftover(f) => Spared(f), Busy(f)' => Busy(f),
         UNCHANGED <<connect_ts, entry>>, now <= now',
         wire'[f] = "proxied" => wire[f] = "proxied",
         \A r \in Requests' : eflow'[r.idx] = f /\ r.decision = "proxied"
           => \E q \in Requests : eflow[q.idx] = f /\ q.decision = "proxied",
         word'[PortOf[f]].st = "proxied" => word[PortOf[f]].st = "proxied",
         \A pkt \in netq' : pkt.flow = f => pkt \in netq,
         \A w \in Workers : On(w, f)' => On(w, f),
         \A w \in Workers : On(w, f) =>
           On(w, f)' /\ wpkt'[w] = wpkt[w] /\ wword'[w] = wword[w] /\ wpc'[w] = wpc[w],
         syn_seq'[PortOf[f]] = f => syn_seq[PortOf[f]] = f
  PROVE  Leftover(f)' => Spared(f)'
<1> SUFFICES ASSUME Leftover(f)' PROVE Spared(f)' OBVIOUS
<1>1. Leftover(f) /\ Spared(f) BY DEF Leftover, Own
<1>2. Unproxied(f)' BY <1>1 DEF Spared, Unproxied
<1>3. Shown(f)' => Aged(f)'
  <2>1. Shown(f)' => Shown(f) BY DEF Shown
  <2>2. Aged(f) => Aged(f)'
    <3>1. now \in Nat /\ now' \in Nat /\ TTL \in Nat /\ connect_ts[PortOf[f]] \in Nat
      BY FlowAssumption, TrackerAssumption DEF TypeOK, KernelTypeOK, TrackerTypeOK
    <3>2. now + 1 - connect_ts[PortOf[f]] > TTL => now' + 1 - connect_ts[PortOf[f]] > TTL BY <3>1
    <3> QED BY <3>2 DEF Aged
  <2> QED BY <1>1, <2>1, <2>2 DEF Spared
<1>4. Watched(f)' BY <1>1 DEF Spared, Watched
<1>5. NotedOnce(f)' BY <1>1 DEF Spared, NotedOnce
<1> QED BY <1>2, <1>3, <1>4, <1>5 DEF Spared

\* The strand's times are about these variables only.
LEMMA StrandFrames ==
  ASSUME TurnInv
  PROVE  /\ UNCHANGED <<spc, sev>> => HandlerKind'
         /\ /\ UNCHANGED <<connect_ts, entry, spc, sev>>
            /\ \A f \in Flows : syn_sent[f] <= syn_sent'[f]
            /\ \A e \in Events' : e.kind = "connect" => e \in Events
            /\ TypeOK /\ TypeOK'
            => Strand'
         /\ /\ UNCHANGED <<posted, spc, sev, flow_ts>>
            /\ \A f \in Flows : relay[f] = "gone" => relay'[f] = "gone"
            => Clears' /\ \A f : ClearOut(f)' <=> ClearOut(f)
         /\ /\ netq' \subseteq netq
            /\ \A w \in Workers, f \in Flows : On(w, f)' => On(w, f)
            /\ TypeOK
            => OneSyn'
<1>1. UNCHANGED <<spc, sev>> => HandlerKind' BY DEF TurnInv, HandlerKind
<1>2. ASSUME UNCHANGED <<connect_ts, entry, spc, sev>>,
             \A f \in Flows : syn_sent[f] <= syn_sent'[f],
             \A e \in Events' : e.kind = "connect" => e \in Events, TypeOK, TypeOK'
      PROVE  Strand'
  <2>1. /\ syn_sent \in [Flows -> Nat] /\ syn_sent' \in [Flows -> Nat]
        /\ \A e \in Events : e.flow \in Flows /\ e.ts \in Nat
        /\ spc # "idle" => sev.flow \in Flows /\ sev.ts \in Nat
    BY <1>2, EventsNext, StrandEventType DEF TypeOK, KernelTypeOK
  <2>2. \A e \in Events' : e.kind = "connect" => e.ts <= syn_sent'[e.flow]
    BY <1>2, <2>1 DEF TurnInv, Strand
  <2>3. spc' # "idle" /\ sev'.kind = "connect" => sev'.ts <= syn_sent'[sev'.flow]
    BY <1>2, <2>1 DEF TurnInv, Strand
  <2>4. sport' = sport BY <1>2 DEF sport
  <2>5. DOMAIN entry' = Ports BY <1>2 DEF TurnInv, Strand
  <2>6. /\ spc' = "pub_cas" => connect_ts'[sport'] = sev'.ts /\ entry'[sport'] = RemoteOf[sev'.flow]
        /\ spc' = "clear_cas" => connect_ts'[sport'] = sev'.ts
    BY <1>2, <2>4 DEF TurnInv, Strand
  <2> QED BY <2>2, <2>3, <2>5, <2>6 DEF Strand
<1>3. ASSUME UNCHANGED <<posted, spc, sev, flow_ts>>,
             \A f \in Flows : relay[f] = "gone" => relay'[f] = "gone"
      PROVE  Clears' /\ \A f : ClearOut(f)' <=> ClearOut(f)
  BY <1>3 DEF TurnInv, Clears, ClearOut, Handling
<1>4. ASSUME netq' \subseteq netq, \A w \in Workers, f \in Flows : On(w, f)' => On(w, f), TypeOK
      PROVE  OneSyn'
  <2>1. \A a \in netq : a.flow \in Flows BY <1>4 DEF TypeOK, KernelTypeOK, SynPacket
  <2> QED BY <1>4, <2>1 DEF TurnInv, OneSyn
<1> QED BY <1>1, <1>2, <1>3, <1>4

\* WinDivertSend: an echo at most, and the SYN's own wire.
LEMMA SynLeaves ==
  ASSUME TypeOK, NEW f \in Flows, NEW path \in {"direct", "proxied"}, SendSyn(f, path)
  PROVE  /\ UNCHANGED <<now, phase, syn_sent, netq>>
         /\ \A g \in Flows : wire'[g] = IF g = f /\ phase[f] = "syn" THEN path ELSE wire[g]
         /\ \A e \in Events' : e \in Events \/ (e.kind = "echo" /\ e.flow = f /\ e.ts = now + 2)
<1>1. UNCHANGED <<now, phase, syn_sent, netq>> BY DEF SendSyn
<1>2. \A g \in Flows : wire'[g] = IF g = f /\ phase[f] = "syn" THEN path ELSE wire[g]
  BY DEF SendSyn, TypeOK, KernelTypeOK
<1>3. CASE path \in EchoPaths
  <2>1. PICK e \in SockEvent : /\ e.kind = "echo" /\ e.flow = f /\ e.ts = now + 2
                               /\ sockq' = Append(sockq, e)
    <3>1. [kind |-> "echo", flow |-> f, ts |-> now + 2] \in SockEvent
      BY DEF SockEvent, TypeOK, KernelTypeOK
    <3> QED BY <1>3, <3>1 DEF SendSyn, ECHO_TS
  <2>2. Events' = Events \cup {e} BY <2>1, EventsNext
  <2> QED BY <1>1, <1>2, <2>1, <2>2
<1>4. CASE path \notin EchoPaths
  <2>1. Events' = Events BY <1>4, EventsNext DEF SendSyn
  <2> QED BY <1>1, <1>2, <2>1
<1> QED BY <1>3, <1>4

-----------------------------------------------------------------------------
\* The workers.

\* A worker that is done leaves the other flows' workers where they are.
LEMMA DoneOthers ==
  ASSUME TypeOK, NEW w \in Workers, Done(w)
  PROVE  /\ \A x \in Workers : \A g : On(x, g)' => x # w /\ On(x, g)
         /\ \A x \in Workers : \A g : On(x, g) /\ g # wflow(w) =>
              On(x, g)' /\ wpkt'[x] = wpkt[x] /\ wword'[x] = wword[x] /\ wpc'[x] = wpc[x]
<1>1. \A x \in Workers : \A g : On(x, g)' => x # w /\ On(x, g) BY DoneOn DEF TypeOK
<1>2. OthersKeep(w) BY DoneEffect DEF TypeOK
<1>3. \A x \in Workers : \A g : On(x, g) /\ g # wflow(w) => x # w BY DEF On
<1> QED BY <1>1, <1>2, <1>3 DEF OthersKeep, On, wflow

\* A worker sends its SYN, or parks it, and is done; a proxied slot that is left
\* over for its flow did not make it reflect the SYN.
LEMMA WorkerDoneKept ==
  ASSUME IInv, IInv', TurnInv, NEW w \in Workers, wpc[w] # "recv", Done(w),
         UNCHANGED <<now, phase, syn_sent, netq, connect_ts, entry, eflow, queue_, socketVars,
                     relayVars>>,
         NEW f \in Flows, f = wflow(w), NEW path \in {"direct", "proxied"},
         \A g \in Flows : wire'[g] = wire[g] \/ (g = f /\ phase[f] = "syn" /\ wire'[f] = path),
         \A e \in Events' : e \in Events \/ (e.kind = "echo" /\ e.flow = f /\ e.ts = now + 2),
         \A p \in Ports : \/ word'[p] = word[p]
                          \/ word'[p].st = "abandoned"
                          \/ word'[p].st = "pending" /\ eflow[word'[p].idx] = f,
         \A g \in Flows : syn_seq'[PortOf[g]] = g => syn_seq[PortOf[g]] = g \/ g = f,
         Leftover(f) => path = "direct",
         Leftover(f) /\ word'[PortOf[f]].st = "proxied" =>
           MaxRetransmits = 0 \/ syn_seq'[PortOf[f]] # f
  PROVE  TurnInv'
<1>t. TypeOK /\ TypeOK' BY DEF IInv
<1>1. /\ \A x \in Workers : \A g : On(x, g)' => x # w /\ On(x, g)
      /\ \A x \in Workers : \A g : On(x, g) /\ g # f =>
              On(x, g)' /\ wpkt'[x] = wpkt[x] /\ wword'[x] = wword[x] /\ wpc'[x] = wpc[x]
  BY <1>t, DoneOthers
<1>2. Busy(f) /\ On(w, f) BY DEF Busy, On
<1>s. UNCHANGED <<posted, spc, sev, relay, flow_ts>> BY DEF socketVars, relayVars
<1>r. Requests' = Requests BY DEF Requests
<1>w. \A p \in Ports : word'[p].st = "proxied" => word'[p] = word[p] OBVIOUS
<1>3. \A g \in Flows : Busy(g)' => Busy(g)
  <2>1. \A g \in Flows : Reflected(g)' /\ relay'[g] = "none" => Busy(g)
    BY <1>2, <1>s DEF Reflected, Busy
  <2>2. \A g \in Flows : InHand(g)' => Busy(g) BY <1>s DEF InHand, Busy
  <2>3. \A g \in Flows, x \in Workers : On(x, g)' => Busy(g) BY <1>1 DEF Busy
  <2>4. \A g \in Flows, p \in Ports : Pending(p)' /\ eflow'[word'[p].idx] = g => Busy(g)
    BY <1>2 DEF Pending, Busy
  <2>5. \A g \in Flows, r \in Requests' : eflow'[r.idx] = g => Busy(g) BY <1>r DEF Busy
  <2>6. \A e \in Events' : e \in Events \/ Busy(e.flow) BY <1>2
  <2> QED BY <2>1, <2>2, <2>3, <2>4, <2>5, <2>6, BusyShrinks
<1>4. Passive
  <2>1. now \in Nat /\ syn_sent \in [Flows -> Nat] BY <1>t DEF TypeOK, KernelTypeOK
  <2>2. now <= now' /\ \A g \in Flows : syn_sent[g] <= syn_sent'[g] /\ syn_sent'[g] <= now' + 1
    BY <2>1 DEF TurnInv, Clock
  <2>3. \A e \in Events' : e \in Events \/ /\ Busy(e.flow) /\ e.kind # "connect"
                                           /\ e.ts <= now' + 2 /\ (e.kind = "echo" => now <= e.ts)
    BY <1>2, <2>1
  <2>4. \A g \in Flows : /\ wire'[g] # "none" => wire[g] # "none" \/ Busy(g)
                         /\ relay'[g] # "none" => relay[g] # "none" \/ Busy(g)
                         /\ syn_seq'[PortOf[g]] = g => syn_seq[PortOf[g]] = g \/ Busy(g)
    BY <1>2, <1>s
  <2>5. \A p : Publishing(p)' <=> Publishing(p) BY <1>s DEF Publishing, sport
  <2>6. \A g : Served(g)' <=> Served(g) BY <1>s DEF Served, ClearOut, Handling
  <2>7. spc' # "idle" => sev'.ts <= now + 2 BY <1>s DEF TurnInv, Clock
  <2>8. \A p \in Ports : word'[p].st = "proxied" => word[p].st = "proxied" BY <1>w
  <2> QED BY <1>3, <1>s, <2>2, <2>3, <2>4, <2>5, <2>6, <2>7, <2>8 DEF Passive
<1>5. Turn' /\ Clock' /\ Dated' /\ Named' BY <1>4, <1>t, PassiveKept DEF TurnInv
<1>6. OneSyn' /\ HandlerKind' /\ Strand' /\ Clears'
  <2>1. \A g \in Flows : syn_sent[g] <= syn_sent'[g] BY <1>4 DEF Passive
  <2>2. \A e \in Events' : e.kind = "connect" => e \in Events OBVIOUS
  <2> QED BY <1>t, <1>1, <1>s, <2>1, <2>2, StrandFrames
<1>7. Leftovers'
  <2>1. ASSUME NEW g \in Flows, g # f PROVE Leftover(g)' => Spared(g)'
    <3>1. Leftover(g) => Spared(g) BY DEF TurnInv, Leftovers, Spared
    <3>2. PortOf[g] \in Ports BY FlowAssumption
    <3>3. now <= now' BY <1>4 DEF Passive
    <3> QED BY <1>t, <1>1, <1>3, <1>r, <1>w, <2>1, <3>1, <3>2, <3>3, SparedKept
  <2>2. Leftover(f)' => Spared(f)'
    <3> SUFFICES ASSUME Leftover(f)' PROVE Spared(f)' OBVIOUS
    <3>1. Leftover(f) /\ Spared(f) BY <1>3 DEF Leftover, Own, TurnInv, Leftovers, Spared
    <3>2. \A x \in Workers : ~On(x, f)' BY <1>1, <1>2 DEF TurnInv, OneSyn
    <3>3. \A pkt \in netq : pkt.flow # f BY <1>2 DEF TurnInv, OneSyn
    <3>4. word'[PortOf[f]].st = "proxied" => word[PortOf[f]].st = "proxied"
      BY <1>w, FlowAssumption
    <3>5. Unproxied(f)' BY <1>r, <3>1 DEF Spared, Unproxied
    <3>6. Shown(f)' => Aged(f)' BY <3>1, <3>2, <3>3, <3>4 DEF Spared, Shown, Aged
    <3>7. Watched(f)' BY <3>2 DEF Watched
    <3>8. NotedOnce(f)' BY <3>1, <3>3 DEF NotedOnce
    <3> QED BY <3>5, <3>6, <3>7, <3>8 DEF Spared
  <2> QED BY <2>1, <2>2 DEF Leftovers, Spared
<1> QED BY <1>5, <1>6, <1>7 DEF TurnInv

\* A worker goes on with its SYN.  It has noted the ISN only if it parks or pins
\* the SYN, and has not lost its CAS to a word that was left over.
LEMMA WorkerGoesKept ==
  ASSUME IInv, IInv', TurnInv, NEW w \in Workers, wpc[w] # "recv",
         NEW pc \in {"park", "fill", "cas", "lost", "pin", "pincas"}, Goto(w, pc),
         UNCHANGED <<kernelVars, word, connect_ts, entry, queue_, socketVars, relayVars, wpkt,
                     wword>>,
         NEW f \in Flows, f = wflow(w),
         \A g \in Flows : syn_seq'[PortOf[g]] = g => syn_seq[PortOf[g]] = g \/ g = f,
         \A r \in Requests : eflow'[r.idx] = eflow[r.idx],
         \A p \in Ports : Pending(p) => eflow'[word[p].idx] = eflow[word[p].idx],
         Leftover(f) /\ word[PortOf[f]].st = "proxied" =>
           /\ pc # "lost"
           /\ syn_seq'[PortOf[f]] # f \/ pc \in {"fill", "cas", "pin", "pincas"}
  PROVE  TurnInv'
<1>t. TypeOK /\ TypeOK' BY DEF IInv
<1>k. UNCHANGED <<now, phase, wire, syn_sent, sockq, netq>> BY DEF kernelVars
<1>1. /\ \A x \in Workers : \A g : On(x, g)' <=> On(x, g)
      /\ wpc'[w] = pc /\ \A x \in Workers \ {w} : wpc'[x] = wpc[x]
  BY <1>t, GotoOn DEF TypeOK
<1>2. Busy(f) /\ On(w, f) BY DEF Busy, On
<1>s. UNCHANGED <<posted, spc, sev, relay, flow_ts>> BY DEF socketVars, relayVars
<1>r. Requests' = Requests /\ Events' = Events BY <1>k DEF Requests, Events
<1>3. \A g \in Flows : Busy(g)' => Busy(g)
  <2>1. \A g \in Flows : Reflected(g)' /\ relay'[g] = "none" => Busy(g)
    BY <1>k, <1>s DEF Reflected, Busy
  <2>2. \A g \in Flows : InHand(g)' => Busy(g) BY <1>s DEF InHand, Busy
  <2>3. \A g \in Flows, x \in Workers : On(x, g)' => Busy(g) BY <1>1 DEF Busy
  <2>4. \A g \in Flows, p \in Ports : Pending(p)' /\ eflow'[word'[p].idx] = g => Busy(g)
    BY DEF Pending, Busy
  <2>5. \A g \in Flows, r \in Requests' : eflow'[r.idx] = g => Busy(g) BY <1>r DEF Busy
  <2> QED BY <1>k, <1>r, <2>1, <2>2, <2>3, <2>4, <2>5, BusyShrinks
<1>4. Passive
  <2>1. now \in Nat /\ syn_sent \in [Flows -> Nat] BY <1>t DEF TypeOK, KernelTypeOK
  <2>2. now <= now' /\ \A g \in Flows : syn_sent[g] <= syn_sent'[g] /\ syn_sent'[g] <= now' + 1
    BY <1>k, <2>1 DEF TurnInv, Clock
  <2>4. \A g \in Flows : /\ wire'[g] # "none" => wire[g] # "none" \/ Busy(g)
                         /\ relay'[g] # "none" => relay[g] # "none" \/ Busy(g)
                         /\ syn_seq'[PortOf[g]] = g => syn_seq[PortOf[g]] = g \/ Busy(g)
    BY <1>2, <1>s, <1>k
  <2>5. \A p : Publishing(p)' <=> Publishing(p) BY <1>s DEF Publishing, sport
  <2>6. \A g : Served(g)' <=> Served(g) BY <1>s DEF Served, ClearOut, Handling
  <2>7. spc' # "idle" => sev'.ts <= now + 2 BY <1>s DEF TurnInv, Clock
  <2> QED BY <1>3, <1>k, <1>r, <1>s, <2>2, <2>4, <2>5, <2>6, <2>7 DEF Passive
<1>5. Turn' /\ Clock' /\ Dated' /\ Named' BY <1>4, <1>t, PassiveKept DEF TurnInv
<1>6. OneSyn' /\ HandlerKind' /\ Strand' /\ Clears'
  <2>1. \A g \in Flows : syn_sent[g] <= syn_sent'[g] BY <1>4 DEF Passive
  <2> QED BY <1>t, <1>1, <1>k, <1>r, <1>s, <2>1, StrandFrames
<1>7. Leftovers'
  <2>1. ASSUME NEW g \in Flows, g # f PROVE Leftover(g)' => Spared(g)'
    <3>1. Leftover(g) => Spared(g) BY DEF TurnInv, Leftovers, Spared
    <3>2. \A x \in Workers : On(x, g) => x # w BY <2>1 DEF On
    <3>3. now <= now' BY <1>4 DEF Passive
    <3> QED BY <1>t, <1>1, <1>3, <1>k, <1>r, <2>1, <3>1, <3>2, <3>3, SparedKept
  <2>2. Leftover(f)' => Spared(f)'
    <3> SUFFICES ASSUME Leftover(f)' PROVE Spared(f)' OBVIOUS
    <3>1. Leftover(f) /\ Spared(f) BY <1>3 DEF Leftover, Own, TurnInv, Leftovers, Spared
    <3>2. \A x \in Workers : On(x, f) => x = w BY <1>2 DEF TurnInv, OneSyn
    <3>3. \A pkt \in netq : pkt.flow # f BY <1>2 DEF TurnInv, OneSyn
    <3>5. Unproxied(f)' BY <1>k, <1>r, <3>1 DEF Spared, Unproxied
    <3>6. Shown(f)' => Aged(f)' BY <1>1, <1>k, <3>1 DEF Spared, Shown, Aged
    <3>7. Watched(f)' BY <1>1, <3>1, <3>2 DEF Spared, Watched
    <3>8. NotedOnce(f)' BY <1>1, <1>2, <1>k, <3>1, <3>3 DEF NotedOnce
    <3> QED BY <3>5, <3>6, <3>7, <3>8 DEF Spared
  <2> QED BY <2>1, <2>2 DEF Leftovers, Spared
<1> QED BY <1>5, <1>6, <1>7 DEF TurnInv

\* A worker receives a SYN: a word that is left over is too old for it, and its
\* ISN is not the one noted.
LEMMA ReceiveTurn ==
  ASSUME IInv, IInv', TurnInv, NEW w \in Workers, NEW pkt \in netq, Receive(w, pkt),
         UNCHANGED <<socketVars, relayVars>>
  PROVE  TurnInv'
<1>t. TypeOK /\ TypeOK' BY DEF IInv
<1> DEFINE f == pkt.flow
<1> DEFINE loaded == word[PortOf[f]]
<1>0. f \in Flows /\ PortOf[f] \in Ports /\ pkt.ts \in Nat
  BY <1>t, FlowAssumption DEF TypeOK, KernelTypeOK, SynPacket
<1>k. /\ UNCHANGED <<now, phase, wire, syn_sent, sockq>> /\ netq' = netq \ {pkt}
      /\ UNCHANGED <<word, connect_ts, entry, syn_seq, eflow, queue_>>
      /\ wpc[w] = "recv"
  BY DEF Receive, trackerVars, parkerVars, poolVars
<1>1. \A x \in Workers \ {w} : wpc'[x] = wpc[x] /\ wpkt'[x] = wpkt[x] /\ wword'[x] = wword[x]
  <2>1. CASE Done(w) BY <1>t, <2>1, DoneEffect DEF TypeOK, OthersKeep
  <2>2. CASE ~Done(w) BY <1>t, <2>2 DEF Receive, Goto, TypeOK, NetworkTypeOK
  <2> QED BY <2>1, <2>2
<1>9. \/ wpc'[w] = "recv"
      \/ /\ wpkt'[w] = pkt /\ wword'[w] = loaded /\ wpc'[w] \in {"park", "ttl"}
         /\ wpc'[w] = "ttl" <=> loaded.st # "empty"
  <2>1. CASE Done(w) BY <1>t, <2>1, DoneEffect DEF TypeOK
  <2>2. CASE ~Done(w) BY <1>t, <2>2 DEF Receive, Goto, TypeOK, NetworkTypeOK
  <2> QED BY <2>1, <2>2
<1>2. Busy(f) BY DEF Busy
<1>10. /\ \A x \in Workers, g \in Flows : On(x, g)' => On(x, g) \/ (x = w /\ g = f)
       /\ \A x \in Workers : \A g : On(x, g) =>
              On(x, g)' /\ wpkt'[x] = wpkt[x] /\ wword'[x] = wword[x] /\ wpc'[x] = wpc[x]
  <2>1. \A x \in Workers : \A g : On(x, g) => x # w BY <1>k DEF On
  <2> QED BY <1>1, <1>9, <2>1 DEF On, wflow
<1>s. UNCHANGED <<posted, spc, sev, relay, flow_ts>> BY DEF socketVars, relayVars
<1>r. Requests' = Requests /\ Events' = Events BY <1>k DEF Requests, Events
<1>3. \A g \in Flows : Busy(g)' => Busy(g)
  <2>1. \A g \in Flows : Reflected(g)' /\ relay'[g] = "none" => Busy(g)
    BY <1>k, <1>s DEF Reflected, Busy
  <2>2. \A g \in Flows : InHand(g)' => Busy(g) BY <1>s DEF InHand, Busy
  <2>3. \A g \in Flows, x \in Workers : On(x, g)' => Busy(g) BY <1>2, <1>10 DEF Busy
  <2>4. \A g \in Flows, p \in Ports : Pending(p)' /\ eflow'[word'[p].idx] = g => Busy(g)
    BY <1>k DEF Pending, Busy
  <2>5. \A g \in Flows, r \in Requests' : eflow'[r.idx] = g => Busy(g) BY <1>r, <1>k DEF Busy
  <2> QED BY <1>k, <1>r, <2>1, <2>2, <2>3, <2>4, <2>5, BusyShrinks
<1>4. Passive
  <2>1. now \in Nat /\ syn_sent \in [Flows -> Nat] BY <1>t DEF TypeOK, KernelTypeOK
  <2>2. now <= now' /\ \A g \in Flows : syn_sent[g] <= syn_sent'[g] /\ syn_sent'[g] <= now' + 1
    BY <1>k, <2>1 DEF TurnInv, Clock
  <2>5. \A p : Publishing(p)' <=> Publishing(p) BY <1>s DEF Publishing, sport
  <2>6. \A g : Served(g)' <=> Served(g) BY <1>s DEF Served, ClearOut, Handling
  <2>7. spc' # "idle" => sev'.ts <= now + 2 BY <1>s DEF TurnInv, Clock
  <2> QED BY <1>3, <1>k, <1>r, <1>s, <2>2, <2>5, <2>6, <2>7 DEF Passive
<1>5. Turn' /\ Clock' /\ Dated' /\ Named' BY <1>4, <1>t, PassiveKept DEF TurnInv
<1>6. HandlerKind' /\ Strand' /\ Clears'
  <2>1. \A g \in Flows : syn_sent[g] <= syn_sent'[g] BY <1>4 DEF Passive
  <2> QED BY <1>t, <1>k, <1>r, <1>s, <2>1, StrandFrames
<1>8. OneSyn'
  <2>0. \A a \in netq : a.flow \in Flows BY <1>t DEF TypeOK, KernelTypeOK, SynPacket
  <2>1. \A a, b \in netq' : a.flow = b.flow => a = b BY <1>k DEF TurnInv, OneSyn
  <2>2. \A a \in netq', x \in Workers : ~On(x, a.flow)'
    BY <1>k, <1>10, <2>0 DEF TurnInv, OneSyn
  <2>3. \A x, y \in Workers, g \in Flows : On(x, g)' /\ On(y, g)' => x = y
    BY <1>10 DEF TurnInv, OneSyn
  <2> QED BY <2>1, <2>2, <2>3 DEF OneSyn
<1>7. Leftovers'
  <2>1. ASSUME NEW g \in Flows, g # f PROVE Leftover(g)' => Spared(g)'
    <3>1. Leftover(g) => Spared(g) BY DEF TurnInv, Leftovers, Spared
    <3>3. now <= now' BY <1>4 DEF Passive
    <3>4. \A x \in Workers : On(x, g)' => On(x, g) BY <1>10, <2>1
    <3> QED BY <1>t, <1>10, <1>3, <1>k, <1>r, <2>1, <3>1, <3>3, <3>4, SparedKept
  <2>2. Leftover(f)' => Spared(f)'
    <3> SUFFICES ASSUME Leftover(f)' PROVE Spared(f)' OBVIOUS
    <3>1. Leftover(f) /\ Spared(f) BY <1>0, <1>3, <1>k DEF Leftover, Own, TurnInv, Leftovers, Spared
    <3>2. \A x \in Workers : On(x, f)' => x = w /\ wpkt'[x] = pkt /\ wword'[x] = loaded
                                          /\ (loaded.st # "empty" => wpc'[x] = "ttl")
      <4>1. \A x \in Workers : ~On(x, f) BY DEF TurnInv, OneSyn
      <4>2. \A x \in Workers : On(x, f)' => x = w BY <1>0, <1>10, <4>1
      <4> QED BY <1>9, <4>2 DEF On
    <3>5. Unproxied(f)' BY <1>k, <1>r, <3>1 DEF Spared, Unproxied
    <3>6. Shown(f)' => Aged(f)'
      <4>1. Shown(f)' => loaded.st = "proxied" BY <1>k, <3>2 DEF Shown
      <4>2. loaded.st = "proxied" => Aged(f) BY <3>1 DEF Spared, Shown
      <4>3. Aged(f) => Aged(f)' BY <1>k, <3>2 DEF Aged
      <4> QED BY <4>1, <4>2, <4>3
    <3>7. Watched(f)'
      <4>1. loaded.st = "proxied" => syn_seq[PortOf[f]] # f BY <3>1 DEF Spared, NotedOnce
      <4> QED BY <1>k, <3>2, <4>1 DEF Watched
    <3>8. NotedOnce(f)' BY <1>k, <3>1, <1>10 DEF Spared, NotedOnce
    <3> QED BY <3>5, <3>6, <3>7, <3>8 DEF Spared
  <2> QED BY <2>1, <2>2 DEF Leftovers, Spared
<1> QED BY <1>5, <1>6, <1>7, <1>8 DEF TurnInv

\* There is one proxied word.
LEMMA ProxiedWord ==
  ASSUME NEW u \in Word, NEW v \in Word, u.st = "proxied", v.st = "proxied" PROVE u = v
BY DEF Word, PendingWord, decided_word

\* A worker with a SYN acts on the slot.
LEMMA ActTurn ==
  ASSUME IInv, IInv', TurnInv, NEW w \in Workers, UNCHANGED <<socketVars, relayVars>>,
         ActOnFresh(w) \/ ActOnRetransmit(w) \/ ActOnReload(w)
  PROVE  TurnInv'
<1>0. wpc[w] \in {"ttl", "lost"} BY DEF ActOnFresh, ActOnRetransmit, ActOnReload
<1>t. TypeOK /\ wpc[w] # "recv" BY <1>0 DEF IInv
<1>f. PICK f \in Flows : f = wflow(w) BY <1>t, WorkerPacket
<1>p. wport(w) = PortOf[f] /\ PortOf[f] \in Ports BY <1>f, FlowAssumption DEF wport
<1>on. On(w, f) /\ Busy(f) BY <1>t, <1>f DEF On, Busy
<1>u. /\ Done(w) /\ UNCHANGED <<word, connect_ts, entry, eflow, queue_>>
  BY DEF ActOnFresh, ActOnRetransmit, ActOnReload, trackerVars, parkerVars, poolVars
<1>l. Leftover(f) => Spared(f) BY DEF TurnInv, Leftovers, Spared
<1>q. \A g \in Flows : syn_seq'[PortOf[g]] = g => syn_seq[PortOf[g]] = g \/ g = f
  <2>1. CASE ActOnFresh(w)
    BY <1>t, <1>f, <1>p, <2>1 DEF ActOnFresh, note_syn, TypeOK, TrackerTypeOK
  <2>2. CASE ActOnRetransmit(w) \/ ActOnReload(w)
    BY <2>2 DEF ActOnRetransmit, ActOnReload, trackerVars
  <2> QED BY <2>1, <2>2
<1>a. PICK path \in {"direct", "proxied"} :
        /\ SendSyn(f, path)
        /\ Leftover(f) => path = "direct" /\ word[PortOf[f]].st # "proxied"
  <2>1. CASE ActOnFresh(w)
    <3>1. SendSyn(f, wire_path(wword[w].st)) BY <1>f, <2>1 DEF ActOnFresh, act
    <3>2. Leftover(f) /\ wword[w].st = "proxied" => FALSE
      <4>1. Leftover(f) /\ wword[w].st = "proxied" => wpkt[w].ts - connect_ts[PortOf[f]] > TTL
        BY <1>l, <1>on DEF Spared, Shown, Aged
      <4>2. wword[w].st = "proxied" => wpkt[w].ts - connect_ts[PortOf[f]] <= TTL
        BY <1>p, <2>1 DEF ActOnFresh, fresh
      <4>3. wpkt[w].ts - connect_ts[PortOf[f]] \in Int /\ TTL \in Int
        BY <1>t, <1>p, WorkerPacket, TrackerAssumption DEF TypeOK, TrackerTypeOK
      <4> QED BY <4>1, <4>2, <4>3
    <3>3. Leftover(f) /\ word[PortOf[f]].st = "proxied" => wword[w].st = "proxied"
      BY <1>l, <1>on DEF Spared, Watched
    <3> QED BY <3>1, <3>2, <3>3 DEF wire_path
  <2>2. CASE ActOnRetransmit(w)
    <3>1. SendSyn(f, wire_path(wword[w].st)) BY <1>f, <2>2 DEF ActOnRetransmit, act
    <3>2. Leftover(f) /\ wword[w].st = "proxied" => FALSE
      BY <1>l, <1>on, <1>p, <1>f, <2>2 DEF Spared, Watched, ActOnRetransmit, is_retransmit
    <3>3. Leftover(f) /\ word[PortOf[f]].st = "proxied" => wword[w].st = "proxied"
      BY <1>l, <1>on DEF Spared, Watched
    <3> QED BY <3>1, <3>2, <3>3 DEF wire_path
  <2>3. CASE ActOnReload(w)
    <3>1. SendSyn(f, wire_path(word[PortOf[f]].st)) BY <1>f, <1>p, <2>3 DEF ActOnReload, act
    <3>2. Leftover(f) => word[PortOf[f]].st # "proxied"
      BY <1>l, <1>on, <2>3 DEF Spared, Watched, ActOnReload
    <3> QED BY <3>1, <3>2 DEF wire_path
  <2> QED BY <2>1, <2>2, <2>3
<1>s. /\ UNCHANGED <<now, phase, syn_sent, netq>>
      /\ \A g \in Flows : wire'[g] = IF g = f /\ phase[f] = "syn" THEN path ELSE wire[g]
      /\ \A e \in Events' : e \in Events \/ (e.kind = "echo" /\ e.flow = f /\ e.ts = now + 2)
  BY <1>a, <1>t, SynLeaves
<1>w. \A g \in Flows : wire'[g] = wire[g] \/ (g = f /\ phase[f] = "syn" /\ wire'[f] = path)
  BY <1>s
<1> QED BY <1>t, <1>f, <1>u, <1>q, <1>a, <1>s, <1>w, WorkerDoneKept

\* A SYN passes through: too large for the pool, or the pool is full.
LEMMA PassTurn ==
  ASSUME IInv, IInv', TurnInv, NEW w \in Workers, UNCHANGED <<socketVars, relayVars>>,
         Oversize = {} \/ MaxRetransmits = 0, PassOversize(w) \/ PassFull(w)
  PROVE  TurnInv'
<1>0. wpc[w] \in {"park", "pincas"} BY DEF PassOversize, PassFull
<1>t. TypeOK /\ wpc[w] # "recv" BY <1>0 DEF IInv
<1>f. PICK f \in Flows : f = wflow(w) BY <1>t, WorkerPacket
<1>p. wport(w) = PortOf[f] /\ PortOf[f] \in Ports BY <1>f, FlowAssumption DEF wport
<1>on. On(w, f) /\ Busy(f) BY <1>t, <1>f DEF On, Busy
<1>u. Done(w) /\ SendSyn(f, "direct") /\ UNCHANGED <<connect_ts, entry, eflow, queue_>>
  BY <1>f DEF PassOversize, PassFull, parkerVars, poolVars
<1>l. Leftover(f) => Spared(f) BY DEF TurnInv, Leftovers, Spared
<1>q. \A g \in Flows : syn_seq'[PortOf[g]] = g => syn_seq[PortOf[g]] = g \/ g = f
  <2>1. CASE PassOversize(w)
    BY <1>t, <1>f, <1>p, <2>1 DEF PassOversize, note_syn, TypeOK, TrackerTypeOK
  <2>2. CASE PassFull(w) BY <2>2 DEF PassFull
  <2> QED BY <2>1, <2>2
<1>d. \A p \in Ports : word'[p] = word[p] \/ word'[p].st = "abandoned"
  BY <1>t DEF PassOversize, PassFull, SetWord, decided_word, TypeOK, TrackerTypeOK
<1>n. Leftover(f) /\ word'[PortOf[f]].st = "proxied" => MaxRetransmits = 0
  <2>1. CASE PassOversize(w) BY <1>f, <2>1 DEF PassOversize
  <2>2. CASE PassFull(w)
    <3>1. CASE CasWins(wport(w), wword[w])
      <4>1. SetWord(PortOf[f], decided_word("abandoned")) BY <1>p, <2>2, <3>1 DEF PassFull
      <4> QED BY <1>p, <1>t, <4>1 DEF SetWord, decided_word, TypeOK, TrackerTypeOK
    <3>2. CASE ~CasWins(wport(w), wword[w])
      <4>1. word' = word BY <2>2, <3>2 DEF PassFull
      <4>2. Leftover(f) /\ word[PortOf[f]].st = "proxied" => wword[w].st = "proxied"
        BY <1>l, <1>on DEF Spared, Watched
      <4>3. word[PortOf[f]] \in Word /\ wword[w] \in Word
        BY <1>p, <1>t DEF TypeOK, TrackerTypeOK, NetworkTypeOK
      <4> QED BY <1>p, <3>2, <4>1, <4>2, <4>3, ProxiedWord DEF CasWins
    <3> QED BY <3>1, <3>2
  <2> QED BY <2>1, <2>2
<1>s. /\ UNCHANGED <<now, phase, syn_sent, netq>>
      /\ \A g \in Flows : wire'[g] = IF g = f /\ phase[f] = "syn" THEN "direct" ELSE wire[g]
      /\ \A e \in Events' : e \in Events \/ (e.kind = "echo" /\ e.flow = f /\ e.ts = now + 2)
  BY <1>u, <1>t, SynLeaves
<1>w. \A g \in Flows : wire'[g] = wire[g] \/ (g = f /\ phase[f] = "syn" /\ wire'[f] = "direct")
  BY <1>s
<1> QED BY <1>t, <1>f, <1>u, <1>q, <1>d, <1>n, <1>s, <1>w, WorkerDoneKept

\* try_park(): the slot is pending, with the worker's SYN.
LEMMA TryParkTurn ==
  ASSUME IInv, IInv', TurnInv, NEW w \in Workers, UNCHANGED <<socketVars, relayVars>>, TryPark(w)
  PROVE  TurnInv'
<1>t. TypeOK /\ wpc[w] = "cas" BY DEF IInv, TryPark
<1>f. PICK f \in Flows : f = wflow(w) BY <1>t, WorkerPacket
<1>p. wport(w) = PortOf[f] /\ PortOf[f] \in Ports BY <1>f, FlowAssumption DEF wport
<1>u. /\ Done(w)
      /\ UNCHANGED <<now, phase, wire, syn_sent, sockq, netq, connect_ts, entry, syn_seq, eflow,
                     queue_>>
  BY DEF TryPark, kernelVars, parkerVars, poolVars
<1>i. widx[w] \in PoolIdx /\ gen[widx[w]] \in Nat
  BY <1>t DEF TypeOK, NetworkTypeOK, ParkerTypeOK
<1>v. PICK v : v = pack_word("pending", gen[widx[w]], widx[w]) OBVIOUS
<1>1. v.st = "pending" /\ v.idx = widx[w] BY <1>v, <1>i, PendingWordType
<1>2. word' = [word EXCEPT ![PortOf[f]] = v] BY <1>p, <1>v DEF TryPark, SetWord
<1>3. eflow[widx[w]] = f BY <1>t, <1>f DEF IInv, WorkerInv
<1>d. /\ \A p \in Ports : word'[p] = word[p] \/ (word'[p].st = "pending" /\ eflow[word'[p].idx] = f)
      /\ word'[PortOf[f]].st = "pending"
  BY <1>t, <1>p, <1>1, <1>2, <1>3 DEF TypeOK, TrackerTypeOK
<1>e. Events' = Events BY <1>u DEF Events
<1> QED BY <1>t, <1>f, <1>u, <1>d, <1>e, WorkerDoneKept

\* A worker goes on to park, pin or give up its SYN.
LEMMA GoesTurn ==
  ASSUME IInv, IInv', TurnInv, NEW w \in Workers, UNCHANGED <<socketVars, relayVars>>,
         \/ TtlStale(w) \/ (\E i \in PoolIdx : ParkAlloc(w, i)) \/ ParkFull(w) \/ ParkFill(w)
         \/ ParkCasLost(w) \/ PinFull(w)
  PROVE  TurnInv'
<1>0. wpc[w] \in {"ttl", "park", "fill", "cas", "pin"}
  BY DEF TtlStale, ParkAlloc, ParkFull, ParkFill, ParkCasLost, PinFull
<1>t. TypeOK /\ wpc[w] # "recv" BY <1>0 DEF IInv
<1>f. PICK f \in Flows : f = wflow(w) BY <1>t, WorkerPacket
<1>p. wport(w) = PortOf[f] /\ PortOf[f] \in Ports BY <1>f, FlowAssumption DEF wport
<1>on. On(w, f) BY <1>t, <1>f DEF On
<1>l. Leftover(f) => Spared(f) BY DEF TurnInv, Leftovers, Spared
<1>u. UNCHANGED <<kernelVars, word, connect_ts, entry, queue_, wpkt, wword>>
  BY DEF TtlStale, ParkAlloc, ParkFull, ParkFill, ParkCasLost, PinFull, trackerVars, parkerVars
<1>n. note_syn(PortOf[f], f) => \A g \in Flows : syn_seq'[PortOf[g]] = g
                                              => syn_seq[PortOf[g]] = g \/ g = f
  BY <1>t, <1>p DEF note_syn, TypeOK, TrackerTypeOK
<1>e. eflow' = eflow => /\ \A r \in Requests : eflow'[r.idx] = eflow[r.idx]
                        /\ \A p \in Ports : Pending(p) => eflow'[word[p].idx] = eflow[word[p].idx]
  OBVIOUS
<1>1. CASE TtlStale(w)
  <2>1. /\ Goto(w, "park") /\ UNCHANGED <<eflow, syn_seq>> /\ syn_seq[PortOf[f]] # f
    BY <1>1, <1>f, <1>p DEF TtlStale, trackerVars, parkerVars, poolVars, is_retransmit
  <2> QED BY <1>t, <1>f, <1>u, <1>e, <2>1, WorkerGoesKept
<1>2. ASSUME NEW i \in PoolIdx, ParkAlloc(w, i) PROVE TurnInv'
  <2>1. Goto(w, "fill") /\ UNCHANGED eflow /\ note_syn(PortOf[f], f)
    BY <1>2, <1>f, <1>p DEF ParkAlloc
  <2> QED BY <1>t, <1>f, <1>u, <1>e, <1>n, <2>1, WorkerGoesKept
<1>3. CASE ParkFull(w)
  <2>1. Goto(w, "pin") /\ UNCHANGED eflow /\ note_syn(PortOf[f], f)
    BY <1>3, <1>f, <1>p DEF ParkFull, parkerVars, poolVars
  <2> QED BY <1>t, <1>f, <1>u, <1>e, <1>n, <2>1, WorkerGoesKept
<1>4. CASE ParkFill(w)
  <2>1. /\ Goto(w, "cas") /\ UNCHANGED syn_seq
        /\ eflow' = [eflow EXCEPT ![widx[w]] = f] /\ Holds(w)
    BY <1>4, <1>f DEF ParkFill, trackerVars, Holds
  <2>2. \A r \in Requests : r.idx # widx[w]
    BY <2>1 DEF Requests, IInv, PoolOwnership, OneHolder
  <2>3. \A p \in Ports : Pending(p) => word[p].idx # widx[w]
    BY <2>1 DEF IInv, PoolOwnership, OneHolder
  <2>4. /\ \A r \in Requests : eflow'[r.idx] = eflow[r.idx]
        /\ \A p \in Ports : Pending(p) => eflow'[word[p].idx] = eflow[word[p].idx]
    <3>1. \A r \in Requests : r.idx \in PoolIdx BY <1>t, RequestsNext
    <3>2. \A p \in Ports : Pending(p) => word[p].idx \in PoolIdx BY PendingRef
    <3> QED BY <1>t, <2>1, <2>2, <2>3, <3>1, <3>2 DEF TypeOK, ParkerTypeOK
  <2> QED BY <1>t, <1>f, <1>u, <2>1, <2>4, WorkerGoesKept
<1>5. CASE ParkCasLost(w)
  <2>1. /\ Goto(w, "lost") /\ UNCHANGED <<eflow, syn_seq>> /\ ~CasWins(PortOf[f], wword[w])
    BY <1>5, <1>p DEF ParkCasLost, trackerVars
  <2>2. ~(Leftover(f) /\ word[PortOf[f]].st = "proxied")
    <3>1. Leftover(f) /\ word[PortOf[f]].st = "proxied" => wword[w].st = "proxied"
      BY <1>l, <1>on DEF Spared, Watched
    <3>2. word[PortOf[f]] \in Word /\ wword[w] \in Word
      BY <1>p, <1>t DEF TypeOK, TrackerTypeOK, NetworkTypeOK
    <3> QED BY <2>1, <3>1, <3>2, ProxiedWord DEF CasWins
  <2> QED BY <1>t, <1>f, <1>u, <1>e, <2>1, <2>2, WorkerGoesKept
<1>6. CASE PinFull(w)
  <2>1. Goto(w, "pincas") /\ UNCHANGED <<eflow, syn_seq>>
    BY <1>6 DEF PinFull, parkerVars, poolVars
  <2> QED BY <1>t, <1>f, <1>u, <1>e, <2>1, WorkerGoesKept
<1> QED BY <1>1, <1>2, <1>3, <1>4, <1>5, <1>6

\* Every step of a worker.
LEMMA WorkerTurn ==
  ASSUME IInv, IInv', TurnInv, Oversize = {} \/ MaxRetransmits = 0,
         NEW w \in Workers, WorkerThread(w)
  PROVE  TurnInv'
BY ReceiveTurn, ActTurn, PassTurn, TryParkTurn, GoesTurn DEF WorkerThread, WorkerNext, WorkerStep

-----------------------------------------------------------------------------
\* The injector.

\* A step that takes no SYN from a queue or a worker: what is left over stays so.
LEMMA LeftoversApart ==
  ASSUME TypeOK, TypeOK', TurnInv, now <= now',
         UNCHANGED <<netq, wpc, wpkt, wword, syn_seq, connect_ts, entry>>,
         \A f \in Flows : Busy(f)' => Busy(f),
         \A f \in Flows : Leftover(f) /\ wire'[f] = "proxied" => wire[f] = "proxied",
         \A f \in Flows, r \in Requests' :
           Leftover(f) /\ eflow'[r.idx] = f /\ r.decision = "proxied"
             => \E q \in Requests : eflow[q.idx] = f /\ q.decision = "proxied",
         \A f \in Flows : Leftover(f) /\ word'[PortOf[f]].st = "proxied"
                            => word[PortOf[f]].st = "proxied"
  PROVE  Leftovers'
<1> SUFFICES ASSUME NEW f \in Flows, Leftover(f)' PROVE Spared(f)' BY DEF Leftovers, Spared
<1>1. Leftover(f) /\ Spared(f) BY DEF Leftover, Own, TurnInv, Leftovers, Spared
<1>2. \A w, g : On(w, g)' <=> On(w, g) BY DEF On, wflow
<1> QED BY <1>1, <1>2, SparedKept

\* The injector sends a SYN, or only looks, or decides a slot undecided.
LEMMA InjectorGoesKept ==
  ASSUME IInv, IInv', TurnInv,
         UNCHANGED <<now, phase, syn_sent, netq, connect_ts, entry, syn_seq, eflow, socketVars,
                     relayVars, workerVars>>,
         Requests' \subseteq Requests,
         \A g \in Flows : wire'[g] = wire[g] \/ (phase[g] = "syn" /\
                                                 (Leftover(g) => wire'[g] # "proxied")),
         \A e \in Events' : e \in Events \/ (e.kind = "echo" /\ Busy(e.flow) /\ e.ts = now + 2),
         \A p \in Ports : word'[p] = word[p] \/ word'[p].st = "abandoned"
  PROVE  TurnInv'
<1>t. TypeOK /\ TypeOK' BY DEF IInv
<1>s. UNCHANGED <<posted, spc, sev, relay, flow_ts, wpc, wpkt, wword>>
  BY DEF socketVars, relayVars, workerVars
<1>1. \A w, g : On(w, g)' <=> On(w, g) BY <1>s DEF On, wflow
<1>w. \A p \in Ports : word'[p].st = "proxied" => word'[p] = word[p] OBVIOUS
<1>3. \A g \in Flows : Busy(g)' => Busy(g)
  <2>1. \A g \in Flows : Reflected(g)' /\ relay'[g] = "none" => Busy(g)
    BY <1>s DEF Reflected, Busy
  <2>2. \A g \in Flows : InHand(g)' => Busy(g) BY <1>s DEF InHand, Busy
  <2>3. \A g \in Flows, x \in Workers : On(x, g)' => Busy(g) BY <1>1 DEF Busy
  <2>4. \A g \in Flows, p \in Ports : Pending(p)' /\ eflow'[word'[p].idx] = g => Busy(g)
    BY DEF Pending, Busy
  <2>5. \A g \in Flows, r \in Requests' : eflow'[r.idx] = g => Busy(g) BY DEF Busy
  <2>6. \A e \in Events' : e \in Events \/ Busy(e.flow) OBVIOUS
  <2> QED BY <2>1, <2>2, <2>3, <2>4, <2>5, <2>6, BusyShrinks
<1>4. Passive
  <2>1. now \in Nat /\ syn_sent \in [Flows -> Nat] BY <1>t DEF TypeOK, KernelTypeOK
  <2>2. now <= now' /\ \A g \in Flows : syn_sent[g] <= syn_sent'[g] /\ syn_sent'[g] <= now' + 1
    BY <2>1 DEF TurnInv, Clock
  <2>3. \A e \in Events' : e \in Events \/ /\ Busy(e.flow) /\ e.kind # "connect"
                                           /\ e.ts <= now' + 2 /\ (e.kind = "echo" => now <= e.ts)
    BY <2>1
  <2>4. \A g \in Flows : /\ wire'[g] # "none" => wire[g] # "none" \/ Busy(g)
                         /\ relay'[g] # "none" => relay[g] # "none" \/ Busy(g)
                         /\ syn_seq'[PortOf[g]] = g => syn_seq[PortOf[g]] = g \/ Busy(g)
    <3>1. \A g \in Flows : phase[g] = "syn" => Busy(g) BY DEF Busy
    <3> QED BY <1>s, <3>1
  <2>5. \A p : Publishing(p)' <=> Publishing(p) BY <1>s DEF Publishing, sport
  <2>6. \A g : Served(g)' <=> Served(g) BY <1>s DEF Served, ClearOut, Handling
  <2>7. spc' # "idle" => sev'.ts <= now + 2 BY <1>s DEF TurnInv, Clock
  <2>8. \A p \in Ports : word'[p].st = "proxied" => word[p].st = "proxied" BY <1>w
  <2> QED BY <1>3, <1>s, <2>2, <2>3, <2>4, <2>5, <2>6, <2>7, <2>8 DEF Passive
<1>5. Turn' /\ Clock' /\ Dated' /\ Named' BY <1>4, <1>t, PassiveKept DEF TurnInv
<1>6. OneSyn' /\ HandlerKind' /\ Strand' /\ Clears'
  <2>1. \A g \in Flows : syn_sent[g] <= syn_sent'[g] BY <1>4 DEF Passive
  <2>2. \A e \in Events' : e.kind = "connect" => e \in Events OBVIOUS
  <2> QED BY <1>t, <1>1, <1>s, <2>1, <2>2, StrandFrames
<1>7. Leftovers'
  <2>1. \A f \in Flows : word'[PortOf[f]].st = "proxied" => word[PortOf[f]].st = "proxied"
    BY <1>w, FlowAssumption
  <2>2. now <= now' BY <1>4 DEF Passive
  <2> QED BY <1>t, <1>s, <1>3, <2>1, <2>2, LeftoversApart
<1> QED BY <1>5, <1>6, <1>7 DEF TurnInv

\* release_parked() of the SYN of f, for which no proxied slot is left over.
LEMMA ReleaseTurn ==
  ASSUME IInv, NEW i \in PoolIdx, NEW g, NEW decision, NEW f \in Flows, eflow[i] = f, Busy(f),
         Leftover(f) => wire_path(decision) = "direct", release_parked(i, g, decision)
  PROVE  /\ UNCHANGED <<now, phase, syn_sent, netq, eflow>>
         /\ \A h \in Flows : wire'[h] = wire[h] \/ (phase[h] = "syn" /\
                                                    (Leftover(h) => wire'[h] # "proxied"))
         /\ \A e \in Events' : e \in Events \/ (e.kind = "echo" /\ Busy(e.flow) /\ e.ts = now + 2)
<1>t. TypeOK BY DEF IInv
<1>1. CASE release_mismatch(i, g)
  <2>1. UNCHANGED <<now, phase, wire, syn_sent, sockq, netq, eflow>>
    BY <1>1 DEF release_mismatch, kernelVars, poolVars
  <2>2. Events' = Events BY <2>1 DEF Events
  <2> QED BY <2>1, <2>2
<1>2. CASE release_send(i, g, decision)
  <2>1. SendSyn(f, wire_path(decision)) /\ eflow' = eflow BY <1>2 DEF release_send
  <2>p. PICK path \in {"direct", "proxied"} : path = wire_path(decision) BY WirePath
  <2>2. /\ UNCHANGED <<now, phase, syn_sent, netq>>
        /\ \A h \in Flows : wire'[h] = IF h = f /\ phase[f] = "syn" THEN path ELSE wire[h]
        /\ \A e \in Events' : e \in Events \/ (e.kind = "echo" /\ e.flow = f /\ e.ts = now + 2)
    BY <1>t, <2>1, <2>p, SynLeaves
  <2>3. \A h \in Flows : wire'[h] = wire[h] \/ (phase[h] = "syn" /\
                                                (Leftover(h) => wire'[h] # "proxied"))
    BY <2>2, <2>p
  <2> QED BY <2>1, <2>2, <2>3
<1> QED BY <1>1, <1>2 DEF release_parked

\* Every step of the injector.
LEMMA InjectorTurn ==
  ASSUME IInv, IInv', TurnInv, InjectorStep PROVE TurnInv'
<1>t. TypeOK BY DEF IInv
<1>u. UNCHANGED <<socketVars, workerVars, relayVars>> BY DEF InjectorStep
<1>1. CASE DrainQueue
  <2>1. /\ queue_ # <<>> /\ queue_' = Tail(queue_) /\ UNCHANGED trackerVars
        /\ release_parked(Head(queue_).idx, Head(queue_).gen, Head(queue_).decision)
    BY <1>1 DEF DrainQueue
  <2>r. PICK r \in Requests : r = Head(queue_) BY <1>t, <2>1, RequestsNext
  <2>2. Requests' \subseteq Requests BY <1>t, <2>1, RequestsNext
  <2>3. r.idx \in PoolIdx /\ eflow[r.idx] \in Flows BY RequestRef
  <2>f. PICK f \in Flows : f = eflow[r.idx] BY <2>3
  <2>4. Busy(f) BY <2>f DEF Busy
  <2>5. Leftover(f) => wire_path(r.decision) = "direct"
    BY <2>f DEF TurnInv, Leftovers, Unproxied, wire_path
  <2>6. /\ UNCHANGED <<now, phase, syn_sent, netq, eflow>>
        /\ \A h \in Flows : wire'[h] = wire[h] \/ (phase[h] = "syn" /\
                                                   (Leftover(h) => wire'[h] # "proxied"))
        /\ \A e \in Events' : e \in Events \/ (e.kind = "echo" /\ Busy(e.flow) /\ e.ts = now + 2)
    BY <2>1, <2>r, <2>3, <2>f, <2>4, <2>5, ReleaseTurn
  <2> QED BY <1>u, <2>1, <2>2, <2>6, InjectorGoesKept DEF trackerVars
<1>2. CASE SweepCasWon
  <2>1. /\ ipc = "cas" /\ word[iport] = iword /\ iport \in Ports
        /\ iword.st = "pending" /\ iword.idx = iidx
    BY <1>2 DEF SweepCasWon, CasWins, IInv, InjectorInv
  <2>p. PICK p \in Ports : p = iport BY <2>1
  <2>2. Pending(p) /\ word[p].idx = iidx BY <2>1, <2>p DEF Pending
  <2>3. iidx \in PoolIdx /\ eflow[iidx] \in Flows BY <2>2, PendingRef
  <2>f. PICK f \in Flows : f = eflow[iidx] BY <2>3
  <2>4. Busy(f) BY <2>2, <2>f DEF Busy
  <2>5. wire_path("abandoned") = "direct" BY DEF wire_path
  <2>6. /\ UNCHANGED <<now, phase, syn_sent, netq, eflow>>
        /\ \A h \in Flows : wire'[h] = wire[h] \/ (phase[h] = "syn" /\
                                                   (Leftover(h) => wire'[h] # "proxied"))
        /\ \A e \in Events' : e \in Events \/ (e.kind = "echo" /\ Busy(e.flow) /\ e.ts = now + 2)
    <3>1. release_parked(iidx, iword.gen, "abandoned") BY <1>2 DEF SweepCasWon
    <3> QED BY <2>3, <2>f, <2>4, <2>5, <3>1, ReleaseTurn
  <2>7. \A q \in Ports : word'[q] = word[q] \/ word'[q].st = "abandoned"
    BY <1>2, <1>t, <2>p DEF SweepCasWon, SetWord, decided_word, TypeOK, TrackerTypeOK
  <2>8. UNCHANGED <<connect_ts, entry, syn_seq>> /\ Requests' = Requests
    BY <1>2 DEF SweepCasWon, Requests
  <2> QED BY <1>u, <2>6, <2>7, <2>8, InjectorGoesKept
<1>3. CASE ~DrainQueue /\ ~SweepCasWon
  <2>1. UNCHANGED <<kernelVars, word, connect_ts, entry, syn_seq, eflow, queue_>>
    BY <1>3 DEF InjectorStep, InjectorNext, SweepStep, StartSweep, SweepAge, SweepLoad, SweepPin,
                SweepCasLost, FinalSweep, InjectorExit, trackerVars, poolVars
  <2>2. UNCHANGED <<now, phase, wire, syn_sent, sockq, netq>> BY <2>1 DEF kernelVars
  <2>3. Events' = Events /\ Requests' = Requests BY <2>1, <2>2 DEF Events, Requests
  <2> QED BY <1>u, <2>1, <2>2, <2>3, InjectorGoesKept
<1> QED BY <1>1, <1>2, <1>3

-----------------------------------------------------------------------------
\* The stack and the applications.

\* A port that is free, and that clew has finished with, has no user.
LEMMA Vacant ==
  ASSUME IInv, TurnInv, NEW p \in Ports, PortFree(p), CoreQuiet(p)
  PROVE  \A g \in Flows : PortOf[g] = p => ~Busy(g)
<1> SUFFICES ASSUME NEW g \in Flows, PortOf[g] = p, Busy(g) PROVE FALSE OBVIOUS
<1>1. phase[g] # "idle" BY DEF TurnInv, Turn
<1>2. phase[g] \notin {"syn", "est"} BY <1>1 DEF PortFree, Over
<1>3. ~(Reflected(g) /\ relay[g] = "none") BY DEF CoreQuiet
<1>4. \A e \in Events : e.flow # g BY DEF CoreQuiet, Events
<1>5. ~InHand(g) BY DEF CoreQuiet, InHand, sport
<1>6. \A pkt \in netq : pkt.flow # g BY DEF CoreQuiet
<1>7. \A w \in Workers : ~On(w, g) BY DEF CoreQuiet, On, wport
<1>8. \A q \in Ports : Pending(q) => eflow[word[q].idx] # g
  <2> SUFFICES ASSUME NEW q \in Ports, Pending(q), eflow[word[q].idx] = g PROVE FALSE OBVIOUS
  <2>1. PortOf[g] = q BY PendingRef
  <2> QED BY <2>1 DEF CoreQuiet, Pending
<1>9. \A r \in Requests : eflow[r.idx] # g
  <2> SUFFICES ASSUME NEW r \in Requests, eflow[r.idx] = g PROVE FALSE OBVIOUS
  <2>1. PortOf[g] = r.port BY RequestRef
  <2> QED BY <2>1 DEF CoreQuiet, Requests
<1> QED BY <1>2, <1>3, <1>4, <1>5, <1>6, <1>7, <1>8, <1>9 DEF Busy

\* connect(): the flow is the only user of its port, and a decision left there
\* is older than any SYN it will send.
LEMMA ConnectTurn ==
  ASSUME IInv, IInv', TurnInv, NEW f \in Flows, AppConnect(f), CoreQuiet(PortOf[f]), KernelFrame,
         TTL <= ReuseGap
  PROVE  TurnInv'
<1>t. TypeOK /\ TypeOK' BY DEF IInv
<1>n. /\ now \in Nat /\ now' = now + 3 /\ TTL \in Nat /\ ReuseGap \in Nat
      /\ syn_sent \in [Flows -> Nat] /\ connect_ts \in [Ports -> Nat] /\ flow_ts \in [Flows -> Nat]
      /\ \A g \in Flows : PortOf[g] \in Ports
  BY <1>t, FlowAssumption, TrackerAssumption
     DEF AppConnect, CONNECT_TS, TypeOK, KernelTypeOK, TrackerTypeOK, RelayTypeOK
<1>k. /\ phase[f] = "idle" /\ phase'[f] = "syn" /\ \A g \in Flows \ {f} : phase'[g] = phase[g]
      /\ syn_sent'[f] = now + 4 /\ \A g \in Flows \ {f} : syn_sent'[g] = syn_sent[g]
      /\ netq' = netq \cup {[flow |-> f, ts |-> now + 4]} /\ wire' = wire
  BY <1>t, <1>n DEF AppConnect, TypeOK, KernelTypeOK
<1>u. UNCHANGED <<word, connect_ts, entry, syn_seq, eflow, queue_, posted, spc, sev, wpc, wpkt,
                  wword, relay, flow_ts>>
  BY DEF KernelFrame, trackerVars, parkerVars, poolVars, socketVars, workerVars, relayVars
<1>e. PICK e \in SockEvent : /\ e.kind = "connect" /\ e.flow = f /\ e.ts = now + 3
                             /\ Events' \subseteq Events \cup {e}
  <2>0. [kind |-> "connect", flow |-> f, ts |-> now + 3] \in SockEvent BY <1>n DEF SockEvent
  <2>1. PICK e \in SockEvent : e = [kind |-> "connect", flow |-> f, ts |-> now + 3] BY <2>0
  <2>2. sockq' = Append(sockq, e) \/ sockq' = sockq BY <2>1 DEF AppConnect, CONNECT_TS
  <2>3. Events' \subseteq Events \cup {e} BY <1>t, <2>2, EventsNext
  <2> QED BY <2>1, <2>3
<1>v. \A g \in Flows : PortOf[g] = PortOf[f] => ~Busy(g)
  BY <1>n, Vacant DEF AppConnect
<1>f. ~Busy(f) /\ wire[f] = "none" /\ relay[f] = "none" /\ syn_seq[PortOf[f]] # f
  BY <1>k DEF TurnInv, Turn
<1>o. \A w, g : On(w, g)' <=> On(w, g) BY <1>u DEF On, wflow
<1>r. Requests' = Requests BY <1>u DEF Requests
<1>ev. \A x \in Events : x.flow \in Flows /\ x.ts \in Nat BY <1>t, EventsNext
<1>1. \A g \in Flows : Busy(g)' => Busy(g) \/ g = f
  <2> SUFFICES ASSUME NEW g \in Flows, g # f, Busy(g)' PROVE Busy(g) OBVIOUS
  <2>1. phase'[g] = phase[g] BY <1>k
  <2>2. Reflected(g)' <=> Reflected(g) BY <1>k, <2>1 DEF Reflected
  <2>3. InHand(g)' <=> InHand(g) BY <1>u DEF InHand
  <2>4. \A p : Pending(p)' <=> Pending(p) BY <1>u DEF Pending
  <2>5. \A x \in Events' : x.flow = g => x \in Events BY <1>e
  <2>6. \A pkt \in netq' : pkt.flow = g => pkt \in netq BY <1>k
  <2> QED BY <1>o, <1>r, <1>u, <2>1, <2>2, <2>3, <2>4, <2>5, <2>6 DEF Busy
<1>2. Turn'
  <2>1. \A g \in Flows : phase'[g] = "idle" =>
          ~Busy(g)' /\ wire'[g] = "none" /\ relay'[g] = "none" /\ syn_seq'[PortOf[g]] # g
    BY <1>1, <1>k, <1>u DEF TurnInv, Turn
  <2>2. \A g, h \in Flows : Busy(g)' /\ Busy(h)' /\ PortOf[g] = PortOf[h] => g = h
    BY <1>1, <1>v DEF TurnInv, Turn
  <2> QED BY <2>1, <2>2 DEF Turn
<1>3. OneSyn'
  <2>1. \A pkt \in netq : pkt.flow # f BY <1>f DEF Busy
  <2>2. \A w \in Workers : ~On(w, f) BY <1>f DEF Busy
  <2> QED BY <1>k, <1>o, <2>1, <2>2 DEF TurnInv, OneSyn
<1>4. HandlerKind' /\ Clears' /\ \A g : ClearOut(g)' <=> ClearOut(g)
  BY <1>u, StrandFrames
<1>5. Clock'
  <2>1. \A g \in Flows : syn_sent'[g] <= now' + 1 /\ flow_ts'[g] <= now' + 2
    <3>1. \A g \in Flows : syn_sent[g] <= now + 1 /\ flow_ts[g] <= now + 2 BY DEF TurnInv, Clock
    <3>2. \A g \in Flows : syn_sent'[g] <= now + 4
      <4>1. \A g \in Flows \ {f} : syn_sent'[g] <= now + 4 BY <1>n, <1>k, <3>1
      <4> QED BY <1>n, <1>k, <4>1
    <3> QED BY <1>n, <1>u, <3>1, <3>2
  <2>2. \A p \in Ports : connect_ts'[p] <= now' + 2 BY <1>n, <1>u DEF TurnInv, Clock
  <2>3. \A x \in Events' : x.ts <= now' + 2
    <3>1. \A x \in Events : x.ts <= now' + 2 BY <1>n, <1>ev DEF TurnInv, Clock
    <3> QED BY <1>n, <1>e, <3>1
  <2>4. spc' # "idle" => sev'.ts <= now' + 2
    <3>1. spc # "idle" => sev.ts \in Nat BY <1>t, StrandEventType
    <3> QED BY <1>n, <1>u, <3>1 DEF TurnInv, Clock
  <2> QED BY <2>1, <2>2, <2>3, <2>4 DEF Clock
<1>m. \A g \in Flows : syn_sent[g] <= syn_sent'[g]
  BY <1>n, <1>k DEF TurnInv, Clock
<1>6. Strand'
  <2>1. sport' = sport BY <1>u DEF sport
  <2>2. \A x \in Events' : x.kind = "connect" => x.ts <= syn_sent'[x.flow]
    <3>1. \A x \in Events : x.kind = "connect" => x.flow # f BY <1>f DEF Busy
    <3>2. \A x \in Events : x.kind = "connect" => x.ts <= syn_sent'[x.flow]
      BY <1>ev, <1>k, <3>1 DEF TurnInv, Strand
    <3> QED BY <1>n, <1>e, <1>k, <3>2
  <2>3. spc' # "idle" /\ sev'.kind = "connect" => sev'.ts <= syn_sent'[sev'.flow]
    <3>1. spc # "idle" /\ sev.kind = "connect" => sev.flow # f /\ sev.flow \in Flows
      BY <1>f, <1>t, StrandEventType DEF Busy, InHand
    <3> QED BY <1>k, <1>u, <3>1 DEF TurnInv, Strand
  <2> QED BY <1>u, <2>1, <2>2, <2>3 DEF TurnInv, Strand
<1>7. Dated'
  <2>1. \A p \in Ports : DecidedBy(p) => DecidedBy(p)'
    <3> SUFFICES ASSUME NEW p \in Ports, NEW g \in Flows, PortOf[g] = p, phase[g] # "idle",
                        connect_ts[p] <= syn_sent[g]
                 PROVE  PortOf[g] = p /\ phase'[g] # "idle" /\ connect_ts'[p] <= syn_sent'[g]
      BY DEF DecidedBy
    <3> QED BY <1>k, <1>u
  <2>2. \A p : Publishing(p)' <=> Publishing(p) BY <1>u DEF Publishing, sport
  <2> QED BY <1>u, <2>1, <2>2 DEF TurnInv, Dated
<1>8. Named'
  <2> SUFFICES ASSUME NEW g \in Flows, Served(g)'
               PROVE  /\ connect_ts'[PortOf[g]] = flow_ts'[g] => Own(g)'
                      /\ \A h \in Flows : Busy(h)' /\ PortOf[h] = PortOf[g] /\ h # g
                                          => flow_ts'[g] < now'
                      /\ \A x \in Events' : x.kind # "close" /\ PortOf[x.flow] = PortOf[g]
                                            /\ x.ts = flow_ts'[g] => x.flow = g
                      /\ Publishing(PortOf[g])' /\ sev'.ts = flow_ts'[g] => sev'.flow = g
    BY DEF Named
  <2>0. Served(g) BY <1>4, <1>u DEF Served
  <2>1. flow_ts[g] \in Nat /\ flow_ts[g] < now + 3 BY <1>n DEF TurnInv, Clock
  <2>2. connect_ts'[PortOf[g]] = flow_ts'[g] => Own(g)' BY <1>u, <2>0 DEF TurnInv, Named, Own
  <2>3. \A x \in Events' : x.kind # "close" /\ PortOf[x.flow] = PortOf[g] /\ x.ts = flow_ts'[g]
                           => x.flow = g
    BY <1>n, <1>e, <1>u, <2>0, <2>1 DEF TurnInv, Named
  <2>4. Publishing(PortOf[g])' /\ sev'.ts = flow_ts'[g] => sev'.flow = g
    BY <1>u, <2>0 DEF TurnInv, Named, Publishing, sport
  <2> QED BY <1>n, <1>u, <2>1, <2>2, <2>3, <2>4
<1>9. Leftovers'
  <2>1. ASSUME NEW g \in Flows, g # f PROVE Leftover(g)' => Spared(g)'
    <3>1. Leftover(g) => Spared(g) BY DEF TurnInv, Leftovers, Spared
    <3>2. now <= now' BY <1>n
    <3>3. \A pkt \in netq' : pkt.flow = g => pkt \in netq BY <1>k, <2>1
    <3>4. Busy(g)' => Busy(g) BY <1>1, <2>1
    <3> QED BY <1>t, <1>k, <1>o, <1>r, <1>u, <3>1, <3>2, <3>3, <3>4, SparedKept
  <2>2. Leftover(f)' => Spared(f)'
    <3>1. \A w \in Workers : ~On(w, f)' BY <1>f, <1>o DEF Busy
    <3>2. \A r \in Requests' : eflow'[r.idx] # f BY <1>f, <1>r, <1>u DEF Busy
    <3>3. Unproxied(f)' BY <1>f, <1>k, <3>2 DEF Unproxied
    <3>4. Watched(f)' BY <3>1 DEF Watched
    <3>5. NotedOnce(f)' BY <1>f, <1>u DEF NotedOnce
    <3>6. Shown(f)' => Aged(f)'
      <4>1. Shown(f)' => word[PortOf[f]].st = "proxied" BY <1>u, <3>1 DEF Shown
      <4>2. ~Publishing(PortOf[f]) BY DEF CoreQuiet, Publishing
      <4>3. word[PortOf[f]].st = "proxied" => DecidedBy(PortOf[f])
        BY <1>n, <4>2 DEF TurnInv, Dated
      <4>4. DecidedBy(PortOf[f]) => now - connect_ts[PortOf[f]] >= TTL
        <5> SUFFICES ASSUME NEW g \in Flows, PortOf[g] = PortOf[f], phase[g] # "idle",
                            connect_ts[PortOf[f]] <= syn_sent[g]
                     PROVE  now - connect_ts[PortOf[f]] >= TTL
          BY DEF DecidedBy
        <5>1. now - syn_sent[g] >= ReuseGap BY DEF AppConnect, PortFree
        <5> QED BY <1>n, <5>1
      <4>5. \A pkt \in netq' : pkt.flow = f => pkt.ts = now + 4 BY <1>f, <1>k DEF Busy
      <4>6. connect_ts[PortOf[f]] \in Nat BY <1>n
      <4>7. now - connect_ts[PortOf[f]] >= TTL => /\ now + 4 - connect_ts[PortOf[f]] > TTL
                                                  /\ now' + 1 - connect_ts[PortOf[f]] > TTL
        BY <1>n, <4>6
      <4>8. /\ now' + 1 - connect_ts[PortOf[f]] > TTL
            /\ \A pkt \in netq' : pkt.flow = f => pkt.ts - connect_ts[PortOf[f]] > TTL
            => Aged(f)'
        BY <1>u, <3>1 DEF Aged
      <4>9. now - connect_ts[PortOf[f]] >= TTL =>
              \A pkt \in netq' : pkt.flow = f => pkt.ts - connect_ts[PortOf[f]] > TTL
        BY <1>n, <4>5, <4>6, <4>7
      <4>10. Shown(f)' => now - connect_ts[PortOf[f]] >= TTL BY <4>1, <4>3, <4>4
      <4> QED BY <4>7, <4>8, <4>9, <4>10
    <3> QED BY <3>3, <3>4, <3>5, <3>6 DEF Spared
  <2> QED BY <2>1, <2>2 DEF Leftovers, Spared
<1> QED BY <1>2, <1>3, <1>4, <1>5, <1>6, <1>7, <1>8, <1>9 DEF TurnInv

\* A retransmission: no SYN of the flow is under way, and a decision that was
\* too old for the last one is too old for this one.
LEMMA RetransmitTurn ==
  ASSUME IInv, IInv', TurnInv, NEW f \in Flows, SynRetransmit(f), SynHandled(f), KernelFrame
  PROVE  TurnInv'
<1>t. TypeOK /\ TypeOK' BY DEF IInv
<1>n. /\ now \in Nat /\ syn_sent \in [Flows -> Nat] /\ MaxRetransmits # 0 /\ phase[f] = "syn"
      /\ connect_ts[PortOf[f]] \in Nat
  BY <1>t, FlowAssumption DEF SynRetransmit, TypeOK, KernelTypeOK, TrackerTypeOK
<1>k. /\ UNCHANGED <<now, phase, wire, sockq>> /\ netq' = netq \cup {[flow |-> f, ts |-> now + 1]}
      /\ syn_sent'[f] = now + 1 /\ \A g \in Flows \ {f} : syn_sent'[g] = syn_sent[g]
  BY <1>n DEF SynRetransmit, SYN_TS
<1>u. UNCHANGED <<word, connect_ts, entry, syn_seq, eflow, queue_, posted, spc, sev, wpc, wpkt,
                  wword, relay, flow_ts>>
  BY DEF KernelFrame, trackerVars, parkerVars, poolVars, socketVars, workerVars, relayVars
<1>o. \A w, g : On(w, g)' <=> On(w, g) BY <1>u DEF On, wflow
<1>h. (\A pkt \in netq : pkt.flow # f) /\ \A w \in Workers : ~On(w, f)
  BY DEF SynHandled, On
<1>r. Requests' = Requests /\ Events' = Events BY <1>k, <1>u DEF Requests, Events
<1>2. Busy(f) BY <1>n DEF Busy
<1>3. \A g \in Flows : Busy(g)' => Busy(g)
  <2>1. \A g \in Flows : Reflected(g)' /\ relay'[g] = "none" => Busy(g)
    BY <1>k, <1>u DEF Reflected, Busy
  <2>2. \A g \in Flows : InHand(g)' => Busy(g) BY <1>u DEF InHand, Busy
  <2>3. \A g \in Flows, x \in Workers : On(x, g)' => Busy(g) BY <1>o DEF Busy
  <2>4. \A g \in Flows, p \in Ports : Pending(p)' /\ eflow'[word'[p].idx] = g => Busy(g)
    BY <1>u DEF Pending, Busy
  <2>5. \A g \in Flows, r \in Requests' : eflow'[r.idx] = g => Busy(g) BY <1>r, <1>u DEF Busy
  <2>6. \A pkt \in netq' : pkt \in netq \/ Busy(pkt.flow) BY <1>k, <1>2
  <2> QED BY <1>k, <1>r, <2>1, <2>2, <2>3, <2>4, <2>5, <2>6, BusyShrinks
<1>4. Passive
  <2>1. now <= now' /\ \A g \in Flows : syn_sent[g] <= syn_sent'[g] /\ syn_sent'[g] <= now' + 1
    <3>1. \A g \in Flows : syn_sent[g] <= now + 1 BY DEF TurnInv, Clock
    <3>2. \A g \in Flows \ {f} : syn_sent[g] <= syn_sent'[g] /\ syn_sent'[g] <= now + 1
      BY <1>n, <1>k, <3>1
    <3> QED BY <1>n, <1>k, <3>1, <3>2
  <2>5. \A p : Publishing(p)' <=> Publishing(p) BY <1>u DEF Publishing, sport
  <2>6. \A g : Served(g)' <=> Served(g) BY <1>u DEF Served, ClearOut, Handling
  <2>7. spc' # "idle" => sev'.ts <= now + 2 BY <1>u DEF TurnInv, Clock
  <2> QED BY <1>3, <1>k, <1>r, <1>u, <2>1, <2>5, <2>6, <2>7 DEF Passive
<1>5. Turn' /\ Clock' /\ Dated' /\ Named' BY <1>4, <1>t, PassiveKept DEF TurnInv
<1>6. HandlerKind' /\ Strand' /\ Clears'
  <2>1. \A g \in Flows : syn_sent[g] <= syn_sent'[g] BY <1>4 DEF Passive
  <2> QED BY <1>t, <1>r, <1>u, <2>1, StrandFrames
<1>7. OneSyn' BY <1>h, <1>k, <1>o DEF TurnInv, OneSyn
<1>8. Leftovers'
  <2>1. ASSUME NEW g \in Flows, g # f PROVE Leftover(g)' => Spared(g)'
    <3>1. Leftover(g) => Spared(g) BY DEF TurnInv, Leftovers, Spared
    <3>2. now <= now' BY <1>4 DEF Passive
    <3>3. \A pkt \in netq' : pkt.flow = g => pkt \in netq BY <1>k, <2>1
    <3> QED BY <1>t, <1>3, <1>k, <1>o, <1>r, <1>u, <3>1, <3>2, <3>3, SparedKept
  <2>2. Leftover(f)' => Spared(f)'
    <3> SUFFICES ASSUME Leftover(f)' PROVE Spared(f)' OBVIOUS
    <3>1. Leftover(f) /\ Spared(f)
      BY <1>2, <1>u DEF Leftover, Own, TurnInv, Leftovers, Spared
    <3>2. \A w \in Workers : ~On(w, f)' BY <1>h, <1>o
    <3>3. Unproxied(f)' BY <1>k, <1>r, <1>u, <3>1 DEF Spared, Unproxied
    <3>4. Watched(f)' BY <3>2 DEF Watched
    <3>5. NotedOnce(f)' BY <1>n, <1>h, <1>u, <3>1 DEF Spared, NotedOnce
    <3>6. Shown(f)' => Aged(f)'
      <4>1. Shown(f)' => Shown(f) BY <1>u, <3>2 DEF Shown
      <4>2. Aged(f) => now + 1 - connect_ts[PortOf[f]] > TTL BY DEF Aged
      <4>3. \A pkt \in netq' : pkt.flow = f => pkt.ts = now + 1 BY <1>h, <1>k
      <4>4. now + 1 - connect_ts[PortOf[f]] > TTL =>
              \A pkt \in netq' : pkt.flow = f => pkt.ts - connect_ts[PortOf[f]] > TTL
        BY <1>n, <4>3
      <4>5. /\ now + 1 - connect_ts[PortOf[f]] > TTL
            /\ \A pkt \in netq' : pkt.flow = f => pkt.ts - connect_ts[PortOf[f]] > TTL
            => Aged(f)'
        BY <1>k, <1>u, <3>2 DEF Aged
      <4> QED BY <3>1, <4>1, <4>2, <4>4, <4>5 DEF Spared
    <3> QED BY <3>3, <3>4, <3>5, <3>6 DEF Spared
  <2> QED BY <2>1, <2>2 DEF Leftovers, Spared
<1> QED BY <1>5, <1>6, <1>7, <1>8 DEF TurnInv

\* The stack answers or closes a flow, or time passes.
LEMMA KernelGoesKept ==
  ASSUME IInv, IInv', TurnInv, KernelFrame, UNCHANGED <<wire, syn_sent, netq>>, now <= now',
         \A g \in Flows : /\ phase'[g] = "idle" => phase[g] = "idle"
                          /\ phase'[g] \in {"syn", "est"} => phase[g] \in {"syn", "est"}
                          /\ phase'[g] = "closed" => phase[g] \in {"est", "closed"},
         \A e \in Events' : e \in Events \/ (e.kind = "close" /\ Busy(e.flow) /\ e.ts <= now' + 2)
  PROVE  TurnInv'
<1>t. TypeOK /\ TypeOK' BY DEF IInv
<1>n. now \in Nat /\ now' \in Nat /\ syn_sent \in [Flows -> Nat] BY <1>t DEF TypeOK, KernelTypeOK
<1>u. UNCHANGED <<word, connect_ts, entry, syn_seq, eflow, queue_, posted, spc, sev, wpc, wpkt,
                  wword, relay, flow_ts>>
  BY DEF KernelFrame, trackerVars, parkerVars, poolVars, socketVars, workerVars, relayVars
<1>o. \A w, g : On(w, g)' <=> On(w, g) BY <1>u DEF On, wflow
<1>r. Requests' = Requests BY <1>u DEF Requests
<1>3. \A g \in Flows : Busy(g)' => Busy(g)
  <2>1. \A g \in Flows : Reflected(g)' /\ relay'[g] = "none" => Busy(g)
    BY <1>u DEF Reflected, Busy
  <2>2. \A g \in Flows : InHand(g)' => Busy(g) BY <1>u DEF InHand, Busy
  <2>3. \A g \in Flows, x \in Workers : On(x, g)' => Busy(g) BY <1>o DEF Busy
  <2>4. \A g \in Flows, p \in Ports : Pending(p)' /\ eflow'[word'[p].idx] = g => Busy(g)
    BY <1>u DEF Pending, Busy
  <2>5. \A g \in Flows, r \in Requests' : eflow'[r.idx] = g => Busy(g) BY <1>r, <1>u DEF Busy
  <2>6. \A e \in Events' : e \in Events \/ Busy(e.flow) OBVIOUS
  <2> QED BY <2>1, <2>2, <2>3, <2>4, <2>5, <2>6, BusyShrinks
<1>4. Passive
  <2>1. \A g \in Flows : syn_sent[g] <= syn_sent'[g] /\ syn_sent'[g] <= now' + 1
    BY <1>n DEF TurnInv, Clock
  <2>5. \A p : Publishing(p)' <=> Publishing(p) BY <1>u DEF Publishing, sport
  <2>6. \A g : Served(g)' <=> Served(g) BY <1>u DEF Served, ClearOut, Handling
  <2>7. spc' # "idle" => sev'.ts <= now + 2 BY <1>u DEF TurnInv, Clock
  <2>8. \A e \in Events' : e \in Events \/ /\ Busy(e.flow) /\ e.kind # "connect"
                                           /\ e.ts <= now' + 2 /\ (e.kind = "echo" => now <= e.ts)
    OBVIOUS
  <2> QED BY <1>3, <1>u, <2>1, <2>5, <2>6, <2>7, <2>8 DEF Passive
<1>5. Turn' /\ Clock' /\ Dated' /\ Named' BY <1>4, <1>t, PassiveKept DEF TurnInv
<1>6. OneSyn' /\ HandlerKind' /\ Strand' /\ Clears'
  <2>1. \A g \in Flows : syn_sent[g] <= syn_sent'[g] BY <1>4 DEF Passive
  <2>2. \A e \in Events' : e.kind = "connect" => e \in Events OBVIOUS
  <2> QED BY <1>t, <1>o, <1>u, <2>1, <2>2, StrandFrames
<1>7. Leftovers' BY <1>t, <1>3, <1>r, <1>u, LeftoversApart
<1> QED BY <1>5, <1>6, <1>7 DEF TurnInv

\* Every step of the stack.
LEMMA KernelTurn ==
  ASSUME IInv, IInv', TurnInv, "core" \notin Lagging, TTL <= ReuseGap, KernelStep
  PROVE  TurnInv'
<1>t. TypeOK BY DEF IInv
<1>n. now \in Nat /\ PauseLen \in Nat /\ phase \in [Flows -> {"idle", "syn", "est", "closed", "aborted"}]
  BY <1>t, FlowAssumption DEF TypeOK, KernelTypeOK
<1>f. KernelFrame BY DEF KernelStep, KernelFrame
<1>1. ASSUME NEW f \in Flows, AppConnect(f), PortQuiet(PortOf[f]) PROVE TurnInv'
  BY <1>1, <1>f, ConnectTurn DEF PortQuiet
<1>2. ASSUME NEW f \in Flows, SynRetransmit(f), SynHandled(f) PROVE TurnInv'
  BY <1>2, <1>f, RetransmitTurn
<1>3. ASSUME NEW f \in Flows, Establish(f) PROVE TurnInv'
  <2>1. UNCHANGED <<now, wire, syn_sent, sockq, netq>> /\ phase[f] = "syn"
        /\ phase' = [phase EXCEPT ![f] = "est"]
    BY <1>3 DEF Establish
  <2>2. \A g \in Flows : /\ phase'[g] = "idle" => phase[g] = "idle"
                         /\ phase'[g] \in {"syn", "est"} => phase[g] \in {"syn", "est"}
                         /\ phase'[g] = "closed" => phase[g] \in {"est", "closed"}
    BY <1>n, <2>1
  <2>3. Events' = Events BY <2>1 DEF Events
  <2>4. now <= now' BY <1>n, <2>1
  <2> QED BY <1>f, <2>1, <2>2, <2>3, <2>4, KernelGoesKept
<1>4. ASSUME NEW f \in Flows, AppClose(f) PROVE TurnInv'
  <2>1. UNCHANGED <<wire, syn_sent, netq>> /\ phase[f] \in {"syn", "est"} /\ now' = now + 4
    BY <1>n, <1>4 DEF AppClose, CLOSE_TS
  <2>2. \A g \in Flows : /\ phase'[g] = "idle" => phase[g] = "idle"
                         /\ phase'[g] \in {"syn", "est"} => phase[g] \in {"syn", "est"}
                         /\ phase'[g] = "closed" => phase[g] \in {"est", "closed"}
    <3>1. /\ phase'[f] = IF phase[f] = "est" THEN "closed" ELSE "aborted"
          /\ \A g \in Flows \ {f} : phase'[g] = phase[g]
      BY <1>n, <1>4 DEF AppClose
    <3> QED BY <3>1
  <2>e. PICK e \in SockEvent : e.kind = "close" /\ e.flow = f /\ e.ts = now + 3
                               /\ sockq' = Append(sockq, e)
    <3>1. [kind |-> "close", flow |-> f, ts |-> now + 3] \in SockEvent BY <1>n DEF SockEvent
    <3> QED BY <1>4, <3>1 DEF AppClose, CLOSE_TS
  <2>3. Events' = Events \cup {e} BY <1>t, <2>e, EventsNext
  <2>4. Busy(f) BY <2>1 DEF Busy
  <2>5. now <= now' /\ e.ts <= now' + 2 BY <1>n, <2>1, <2>e
  <2>6. \A x \in Events' : x \in Events \/ (x.kind = "close" /\ Busy(x.flow) /\ x.ts <= now' + 2)
    BY <2>e, <2>3, <2>4, <2>5
  <2> QED BY <1>f, <2>1, <2>2, <2>5, <2>6, KernelGoesKept
<1>5. ASSUME NEW due, Pause(due) PROVE TurnInv'
  <2>1. UNCHANGED <<phase, wire, syn_sent, sockq, netq>> BY <1>5 DEF Pause
  <2>2. now <= now' BY <1>n, <1>5 DEF Pause
  <2>3. Events' = Events BY <2>1 DEF Events
  <2> QED BY <1>f, <2>1, <2>2, <2>3, KernelGoesKept
<1> QED BY <1>1, <1>2, <1>3, <1>4, <1>5 DEF KernelStep

-----------------------------------------------------------------------------
\* The relays.

\* A relay that is accepted serves the only user of its port: the entry is its
\* flow's, or its SYN had not gone to the acceptor.
LEMMA RelayTurn ==
  ASSUME IInv, IInv', TurnInv, RelayStep PROVE TurnInv'
<1>t. TypeOK /\ TypeOK' BY DEF IInv
<1>0. UNCHANGED <<kernelVars, trackerVars, parkerVars, spc, sev, sword, workerVars>>
  BY DEF RelayStep, RelayNext, RelayAccept, RelayRefuse, RelayEnd, socketVars
<1>u. UNCHANGED <<now, phase, wire, syn_sent, sockq, netq, word, connect_ts, entry, syn_seq, eflow,
                  queue_, spc, sev, wpc, wpkt, wword>>
  BY <1>0 DEF kernelVars, trackerVars, parkerVars, poolVars, workerVars
<1>o. \A w, g : On(w, g)' <=> On(w, g) BY <1>u DEF On, wflow
<1>r. Requests' = Requests /\ Events' = Events BY <1>u DEF Requests, Events
<1>1. PICK f \in Flows : RelayAccept(f) \/ RelayRefuse(f) \/ RelayEnd(f)
  BY DEF RelayStep, RelayNext
<1>2. /\ relay' = [relay EXCEPT ![f] = relay'[f]] /\ relay'[f] \in {"serving", "gone"}
      /\ relay \in [Flows -> {"none", "serving", "gone"}]
      /\ relay[f] \in {"none", "serving"} /\ (relay[f] = "none" => wire[f] = "proxied"
                                                 /\ phase[f] \in {"est", "closed"})
  BY <1>1, <1>t DEF RelayAccept, RelayRefuse, RelayEnd, TypeOK, RelayTypeOK
<1>g. \A g \in Flows \ {f} : relay'[g] = relay[g] BY <1>2
<1>b. relay[f] = "none" => Busy(f) BY <1>2 DEF Busy, Reflected
<1>3. \A g \in Flows : Busy(g)' => Busy(g)
  <2>1. \A g \in Flows : Reflected(g)' /\ relay'[g] = "none" => Busy(g)
    BY <1>u, <1>2, <1>g DEF Reflected, Busy
  <2>2. \A g \in Flows : InHand(g)' => Busy(g) BY <1>u DEF InHand, Busy
  <2>3. \A g \in Flows, x \in Workers : On(x, g)' => Busy(g) BY <1>o DEF Busy
  <2>4. \A g \in Flows, p \in Ports : Pending(p)' /\ eflow'[word'[p].idx] = g => Busy(g)
    BY <1>u DEF Pending, Busy
  <2>5. \A g \in Flows, r \in Requests' : eflow'[r.idx] = g => Busy(g) BY <1>r, <1>u DEF Busy
  <2> QED BY <1>u, <1>r, <2>1, <2>2, <2>3, <2>4, <2>5, BusyShrinks
<1>4. OneSyn' /\ HandlerKind' /\ Strand'
  BY <1>t, <1>o, <1>r, <1>u, StrandFrames DEF TypeOK, KernelTypeOK
<1>5. Leftovers'
  <2>1. now <= now' BY <1>t, <1>u DEF TypeOK, KernelTypeOK
  <2> QED BY <1>t, <1>3, <1>r, <1>u, <2>1, LeftoversApart
<1>p. \A p : Publishing(p)' <=> Publishing(p) BY <1>u DEF Publishing, sport
<1>6. Clears' /\ (~RelayAccept(f) => flow_ts' = flow_ts /\ \A g \in Flows : Served(g)' => Served(g))
  <2>1. CASE RelayAccept(f) \/ RelayRefuse(f)
    <3>1. posted' = posted /\ relay[f] = "none" BY <2>1 DEF RelayAccept, RelayRefuse, socketVars
    <3>2. \A g : ClearOut(g)' <=> ClearOut(g) BY <1>u, <3>1 DEF ClearOut, Handling
    <3>3. ~ClearOut(f) BY <3>1 DEF TurnInv, Clears
    <3>4. \A g \in Flows \ {f} : flow_ts'[g] = flow_ts[g]
      BY <2>1, <1>t DEF RelayAccept, RelayRefuse, TypeOK, RelayTypeOK
    <3>5. \A r \in posted : r.flow \in Flows \ {f}
      BY <1>t, <3>3 DEF ClearOut, TypeOK, SocketTypeOK, ClearReq
    <3>6. spc # "idle" /\ sev.kind = "clear" => sev.flow \in Flows \ {f}
      BY <1>t, <3>3, StrandEventType DEF ClearOut, Handling
    <3>7. Clears'
      <4>1. \A g \in Flows : ClearOut(g)' => relay'[g] = "gone"
        BY <1>g, <3>2, <3>3 DEF TurnInv, Clears
      <4>2. \A r \in posted' : r.ts = flow_ts'[r.flow] BY <3>1, <3>4, <3>5 DEF TurnInv, Clears
      <4>3. spc' # "idle" /\ sev'.kind = "clear" => sev'.ts = flow_ts'[sev'.flow]
        BY <1>u, <3>4, <3>6 DEF TurnInv, Clears
      <4> QED BY <4>1, <4>2, <4>3 DEF Clears
    <3>8. RelayRefuse(f) => flow_ts' = flow_ts /\ \A g \in Flows : Served(g)' => Served(g)
      <4> SUFFICES ASSUME RelayRefuse(f)
                   PROVE  flow_ts' = flow_ts /\ \A g \in Flows : Served(g)' => Served(g)
        OBVIOUS
      <4>1. flow_ts' = flow_ts /\ relay'[f] = "gone"
        BY <1>t DEF RelayRefuse, TypeOK, RelayTypeOK
      <4> QED BY <1>g, <3>2, <4>1 DEF Served
    <3> QED BY <2>1, <3>7, <3>8
  <2>2. CASE RelayEnd(f)
    <3>1. /\ posted' = posted \cup {[flow |-> f, ts |-> flow_ts[f]]} /\ flow_ts' = flow_ts
          /\ relay[f] = "serving" /\ relay'[f] = "gone"
      BY <2>2, <1>t DEF RelayEnd, TypeOK, RelayTypeOK
    <3>2. \A g \in Flows : ClearOut(g)' => ClearOut(g) \/ g = f
      BY <1>u, <3>1 DEF ClearOut, Handling
    <3>3. Clears'
      <4>1. \A g \in Flows : ClearOut(g)' => relay'[g] = "gone"
        BY <1>g, <3>1, <3>2 DEF TurnInv, Clears
      <4>2. \A r \in posted' : r.ts = flow_ts'[r.flow] BY <3>1 DEF TurnInv, Clears
      <4> QED BY <1>u, <3>1, <4>1, <4>2 DEF TurnInv, Clears
    <3>4. \A g \in Flows : Served(g)' => Served(g) BY <1>g, <3>1, <3>2 DEF Served
    <3> QED BY <3>1, <3>3, <3>4
  <2> QED BY <1>1, <2>1, <2>2
<1>n. now \in Nat /\ syn_sent \in [Flows -> Nat] BY <1>t DEF TypeOK, KernelTypeOK
<1>a. now <= now' /\ \A g \in Flows : syn_sent[g] <= syn_sent'[g] /\ syn_sent'[g] <= now' + 1
  BY <1>n, <1>u DEF TurnInv, Clock
<1>c. \A g \in Flows : /\ wire'[g] # "none" => wire[g] # "none" \/ Busy(g)
                       /\ relay'[g] # "none" => relay[g] # "none" \/ Busy(g)
                       /\ syn_seq'[PortOf[g]] = g => syn_seq[PortOf[g]] = g \/ Busy(g)
  BY <1>u, <1>b, <1>g
<1>7. CASE ~RelayAccept(f)
  <2>1. spc' # "idle" => sev'.ts <= now + 2 BY <1>u DEF TurnInv, Clock
  <2>2. Passive BY <1>7, <1>u, <1>r, <1>3, <1>6, <1>p, <1>a, <1>c, <2>1 DEF Passive
  <2>3. Turn' /\ Clock' /\ Dated' /\ Named' BY <1>t, <2>2, PassiveKept DEF TurnInv
  <2> QED BY <1>4, <1>5, <1>6, <2>3 DEF TurnInv
<1>8. CASE RelayAccept(f)
  <2>1. /\ relay[f] = "none" /\ posted' = posted /\ wire[f] = "proxied"
        /\ flow_ts' = [flow_ts EXCEPT ![f] = connect_ts[PortOf[f]]]
    BY <1>8 DEF RelayAccept, rport, socketVars
  <2>2. /\ flow_ts'[f] = connect_ts[PortOf[f]] /\ \A g \in Flows \ {f} : flow_ts'[g] = flow_ts[g]
        /\ flow_ts \in [Flows -> Nat] /\ PortOf[f] \in Ports
    BY <1>t, <2>1, FlowAssumption DEF TypeOK, RelayTypeOK
  <2>3. Turn' BY <1>3, <1>c, <1>u DEF TurnInv, Turn
  <2>4. Clock'
    <3>1. \A g \in Flows : flow_ts'[g] <= now + 2 BY <2>2 DEF TurnInv, Clock
    <3> QED BY <1>r, <1>u, <3>1 DEF TurnInv, Clock
  <2>5. Dated'
    <3>1. \A p \in Ports : DecidedBy(p) => DecidedBy(p)' BY <1>u DEF DecidedBy
    <3> QED BY <1>u, <1>p, <3>1 DEF TurnInv, Dated
  <2>6. Named'
    <3>1. Own(f)
      <4>1. Busy(f) BY <1>b, <2>1
      <4>2. Leftover(f) => wire[f] # "proxied" BY DEF TurnInv, Leftovers, Unproxied
      <4> QED BY <2>1, <4>1, <4>2 DEF Leftover
    <3>2. ASSUME NEW g \in Flows, g # f, Served(g)'
          PROVE  /\ connect_ts'[PortOf[g]] = flow_ts'[g] => Own(g)'
                 /\ \A h \in Flows : Busy(h)' /\ PortOf[h] = PortOf[g] /\ h # g
                                     => flow_ts'[g] < now'
                 /\ \A e \in Events' : e.kind # "close" /\ PortOf[e.flow] = PortOf[g]
                                       /\ e.ts = flow_ts'[g] => e.flow = g
                 /\ Publishing(PortOf[g])' /\ sev'.ts = flow_ts'[g] => sev'.flow = g
      <4>1. Served(g) BY <1>g, <1>u, <2>1, <3>2 DEF Served, ClearOut, Handling
      <4>2. flow_ts'[g] = flow_ts[g] BY <2>2, <3>2
      <4>3. Own(g)' <=> Own(g) BY <1>u DEF Own
      <4> QED BY <1>3, <1>p, <1>r, <1>u, <4>1, <4>2, <4>3 DEF TurnInv, Named
    <3>3. \A h \in Flows : Busy(h) /\ PortOf[h] = PortOf[f] => h = f
      BY <1>b, <2>1 DEF TurnInv, Turn
    <3>4. \A e \in Events' : PortOf[e.flow] = PortOf[f] => e.flow = f
      <4>1. \A e \in Events : e.flow \in Flows /\ Busy(e.flow) BY <1>t, EventsNext DEF Busy
      <4> QED BY <1>r, <3>3, <4>1
    <3>5. Publishing(PortOf[f])' => sev'.flow = f
      <4>1. Publishing(PortOf[f]) => sev.flow \in Flows /\ Busy(sev.flow) /\ sport = PortOf[f]
        BY <1>t, StrandEventType DEF Publishing, TurnInv, HandlerKind, Busy, InHand
      <4> QED BY <1>p, <1>u, <3>3, <4>1 DEF sport
    <3>6. Own(f)' /\ \A h \in Flows : Busy(h)' /\ PortOf[h] = PortOf[f] => h = f
      BY <1>3, <1>u, <3>1, <3>3 DEF Own
    <3> QED BY <3>2, <3>4, <3>5, <3>6 DEF Named
  <2> QED BY <1>4, <1>5, <1>6, <2>3, <2>4, <2>5, <2>6 DEF TurnInv
<1> QED BY <1>7, <1>8

-----------------------------------------------------------------------------
\* The strand.

\* The strand takes an event or a clear, goes on with it or returns, and at most
\* empties a slot: it publishes nothing.
LEMMA StrandGoesKept ==
  ASSUME IInv, IInv', TurnInv,
         UNCHANGED <<now, phase, wire, syn_sent, netq, connect_ts, entry, syn_seq, eflow, queue_,
                     workerVars, relayVars>>,
         Events' \subseteq Events, posted' \subseteq posted, HandlerKind', spc' # "pub_cas",
         \A p \in Ports : word'[p] = word[p] \/ word'[p].st = "empty",
         \A p \in Ports : word'[p].st = "proxied" /\ ~Publishing(p)' => ~Publishing(p),
         \A p \in Ports : Publishing(p)' =>
           \/ Publishing(p) /\ sev' = sev
           \/ sev' \in Events /\ sev'.kind # "close" /\ PortOf[sev'.flow] = p,
         spc' # "idle" =>
           \/ spc # "idle" /\ sev' = sev
           \/ sev' \in Events
           \/ \E r \in posted : sev' = [kind |-> "clear", flow |-> r.flow, ts |-> r.ts],
         spc' = "clear_cas" => connect_ts[sport'] = sev'.ts
  PROVE  TurnInv'
<1>t. TypeOK /\ TypeOK' BY DEF IInv
<1>u. UNCHANGED <<wpc, wpkt, wword, relay, flow_ts>> BY DEF workerVars, relayVars
<1>o. \A w, g : On(w, g)' <=> On(w, g) BY <1>u DEF On, wflow
<1>r. Requests' = Requests BY DEF Requests
<1>n. /\ now \in Nat /\ syn_sent \in [Flows -> Nat] /\ flow_ts \in [Flows -> Nat]
      /\ \A r \in posted : r.flow \in Flows
  BY <1>t DEF TypeOK, KernelTypeOK, RelayTypeOK, SocketTypeOK, ClearReq
<1>e. \A e \in Events : e \in SockEvent /\ e.kind # "clear" BY <1>t, EventsNext DEF SockEvent
<1>3. \A g \in Flows : Busy(g)' => Busy(g)
  <2>1. \A g \in Flows : Reflected(g)' /\ relay'[g] = "none" => Busy(g)
    BY <1>u DEF Reflected, Busy
  <2>2. \A g \in Flows : InHand(g)' => Busy(g) BY DEF InHand, Busy
  <2>3. \A g \in Flows, x \in Workers : On(x, g)' => Busy(g) BY <1>o DEF Busy
  <2>4. \A g \in Flows, p \in Ports : Pending(p)' /\ eflow'[word'[p].idx] = g => Busy(g)
    BY DEF Pending, Busy
  <2>5. \A g \in Flows, r \in Requests' : eflow'[r.idx] = g => Busy(g) BY <1>r DEF Busy
  <2> QED BY <2>1, <2>2, <2>3, <2>4, <2>5, BusyShrinks
<1>c. \A g \in Flows : ClearOut(g)' => ClearOut(g) BY <1>e DEF ClearOut, Handling
<1>s. spc' # "idle" => sev'.ts <= now + 2
  <2>1. \A r \in posted : r.ts <= now + 2 BY <1>n DEF TurnInv, Clears, Clock
  <2> QED BY <2>1 DEF TurnInv, Clock
<1>4. Passive
  <2>1. now <= now' /\ \A g \in Flows : syn_sent[g] <= syn_sent'[g] /\ syn_sent'[g] <= now' + 1
    BY <1>n DEF TurnInv, Clock
  <2>2. \A g \in Flows : Served(g)' => Served(g) BY <1>c, <1>u DEF Served
  <2>3. \A p \in Ports : word'[p].st = "proxied" => word[p].st = "proxied" OBVIOUS
  <2> QED BY <1>3, <1>s, <1>u, <2>1, <2>2, <2>3 DEF Passive
<1>5. Turn' /\ Clock' /\ Dated' /\ Named' BY <1>4, <1>t, PassiveKept DEF TurnInv
<1>6. OneSyn' BY <1>t, <1>o, StrandFrames
<1>7. Strand'
  <2>1. spc' # "idle" /\ sev'.kind = "connect" => sev'.ts <= syn_sent'[sev'.flow]
    BY DEF TurnInv, Strand
  <2>2. \A e \in Events' : e.kind = "connect" => e.ts <= syn_sent'[e.flow] BY DEF TurnInv, Strand
  <2>3. DOMAIN entry' = Ports BY DEF TurnInv, Strand
  <2> QED BY <2>1, <2>2, <2>3 DEF Strand
<1>8. Clears'
  <2>1. \A g \in Flows : ClearOut(g)' => relay'[g] = "gone" BY <1>c, <1>u DEF TurnInv, Clears
  <2>2. \A r \in posted' : r.ts = flow_ts'[r.flow] BY <1>u DEF TurnInv, Clears
  <2>3. spc' # "idle" /\ sev'.kind = "clear" => sev'.ts = flow_ts'[sev'.flow]
    BY <1>e, <1>u DEF TurnInv, Clears
  <2> QED BY <2>1, <2>2, <2>3 DEF Clears
<1>9. Leftovers'
  <2>1. now <= now' BY <1>n
  <2>2. \A g \in Flows : word'[PortOf[g]].st = "proxied" => word[PortOf[g]].st = "proxied"
    BY FlowAssumption
  <2> QED BY <1>t, <1>3, <1>r, <1>u, <2>1, <2>2, LeftoversApart
<1> QED BY <1>5, <1>6, <1>7, <1>8, <1>9 DEF TurnInv

\* publish() writes connect_ts and the entry of the slot: the flow it publishes is
\* the only user of the port, and a relay with that very time serves it.
LEMMA PublishAuxTurn ==
  ASSUME IInv, IInv', TurnInv, StrandStep, PublishLoad, ~late_rejected(sport, word[sport], sev.ts)
  PROVE  TurnInv'
<1>t. TypeOK /\ TypeOK' BY DEF IInv
<1>0. /\ spc = "pub_load" /\ spc' = "pub_cas" /\ sev' = sev /\ sport' = sport
      /\ sev.flow \in Flows /\ sev.ts \in Nat /\ sport \in Ports /\ sport = PortOf[sev.flow]
      /\ sev.kind \in {"connect", "echo"}
  BY <1>t, StrandEventType DEF PublishLoad, TurnInv, HandlerKind, sport
<1>u. UNCHANGED <<now, phase, wire, syn_sent, sockq, netq, word, syn_seq, eflow, queue_, posted,
                  wpc, wpkt, wword, relay, flow_ts>>
  BY DEF PublishLoad, StrandStep, kernelVars, parkerVars, poolVars, workerVars, relayVars
<1>n. /\ now \in Nat /\ connect_ts \in [Ports -> Nat] /\ DOMAIN entry = Ports
      /\ \A g \in Flows : PortOf[g] \in Ports
  BY <1>t, FlowAssumption DEF TypeOK, KernelTypeOK, TrackerTypeOK, TurnInv, Strand
<1>a. /\ connect_ts'[sport] = sev.ts /\ entry'[sport] = RemoteOf[sev.flow]
      /\ \A p \in Ports \ {sport} : connect_ts'[p] = connect_ts[p] /\ entry'[p] = entry[p]
      /\ DOMAIN entry' = Ports
  BY <1>0, <1>n DEF PublishLoad
<1>o. \A w, g : On(w, g)' <=> On(w, g) BY <1>u DEF On, wflow
<1>r. Requests' = Requests /\ Events' = Events BY <1>u DEF Requests, Events
<1>p. \A p : Publishing(p)' <=> Publishing(p) BY <1>0 DEF Publishing
<1>b. InHand(sev.flow) /\ Busy(sev.flow) BY <1>0 DEF InHand, Busy
<1>3. \A g \in Flows : Busy(g)' <=> Busy(g)
  <2>1. \A g : InHand(g)' <=> InHand(g) BY <1>0 DEF InHand
  <2>2. \A g : Reflected(g)' <=> Reflected(g) BY <1>u DEF Reflected
  <2>3. \A p : Pending(p)' <=> Pending(p) BY <1>u DEF Pending
  <2> QED BY <1>o, <1>r, <1>u, <2>1, <2>2, <2>3 DEF Busy
<1>c. \A g : (ClearOut(g)' <=> ClearOut(g)) /\ (Served(g)' <=> Served(g))
  BY <1>0, <1>u DEF ClearOut, Handling, Served
<1>4. Turn' BY <1>3, <1>u DEF TurnInv, Turn
<1>5. OneSyn' BY <1>t, <1>o, <1>u, StrandFrames
<1>6. HandlerKind' BY <1>0 DEF HandlerKind
<1>7. Clock'
  <2>1. \A p \in Ports : connect_ts'[p] <= now + 2
    <3>1. sev.ts <= now + 2 BY <1>0 DEF TurnInv, Clock
    <3> QED BY <1>a, <3>1 DEF TurnInv, Clock
  <2> QED BY <1>0, <1>r, <1>u, <2>1 DEF TurnInv, Clock
<1>8. Strand' BY <1>0, <1>a, <1>r, <1>u DEF TurnInv, Strand
<1>9. Dated'
  <2>1. \A p \in Ports \ {sport} : DecidedBy(p) => DecidedBy(p)' BY <1>a, <1>u DEF DecidedBy
  <2>2. \A p \in Ports : word[p].st = "proxied" /\ ~Publishing(p) => p # sport /\ DecidedBy(p)
    BY <1>0 DEF Publishing, TurnInv, Dated
  <2> QED BY <1>p, <1>u, <2>1, <2>2 DEF Dated
<1>10. Clears'
  <2>1. \A g \in Flows : ClearOut(g)' => relay'[g] = "gone" BY <1>c, <1>u DEF TurnInv, Clears
  <2>2. sev'.kind # "clear" BY <1>0
  <2> QED BY <1>u, <2>1, <2>2 DEF TurnInv, Clears
<1>11. Named'
  <2> SUFFICES ASSUME NEW f \in Flows, Served(f)'
               PROVE  /\ connect_ts'[PortOf[f]] = flow_ts'[f] => Own(f)'
                      /\ \A h \in Flows : Busy(h)' /\ PortOf[h] = PortOf[f] /\ h # f
                                          => flow_ts'[f] < now'
                      /\ \A x \in Events' : x.kind # "close" /\ PortOf[x.flow] = PortOf[f]
                                            /\ x.ts = flow_ts'[f] => x.flow = f
                      /\ Publishing(PortOf[f])' /\ sev'.ts = flow_ts'[f] => sev'.flow = f
    BY DEF Named
  <2>0. Served(f) BY <1>c
  <2>1. connect_ts'[PortOf[f]] = flow_ts'[f] => Own(f)'
    <3>1. CASE PortOf[f] = sport
      <4>1. Publishing(PortOf[f]) BY <1>0, <3>1 DEF Publishing
      <4> QED BY <1>a, <1>u, <2>0, <3>1, <4>1 DEF TurnInv, Named, Own
    <3>2. CASE PortOf[f] # sport BY <1>a, <1>n, <1>u, <2>0, <3>2 DEF TurnInv, Named, Own
    <3> QED BY <3>1, <3>2
  <2> QED BY <1>0, <1>3, <1>p, <1>r, <1>u, <2>0, <2>1 DEF TurnInv, Named
<1>12. Leftovers'
  <2> SUFFICES ASSUME NEW f \in Flows, Leftover(f)' PROVE Spared(f)' BY DEF Leftovers, Spared
  <2>1. Busy(f) BY <1>3 DEF Leftover
  <2>2. PortOf[f] # sport
    <3> SUFFICES ASSUME PortOf[f] = sport PROVE FALSE OBVIOUS
    <3>1. f = sev.flow BY <1>0, <1>b, <2>1 DEF TurnInv, Turn
    <3> QED BY <1>0, <1>a, <3>1 DEF Leftover, Own
  <2>3. connect_ts'[PortOf[f]] = connect_ts[PortOf[f]] /\ entry'[PortOf[f]] = entry[PortOf[f]]
    BY <1>a, <1>n, <2>2
  <2>4. Spared(f) BY <2>1, <2>3 DEF Leftover, Own, TurnInv, Leftovers, Spared
  <2>5. Unproxied(f)' BY <1>r, <1>u, <2>4 DEF Spared, Unproxied
  <2>6. Shown(f)' => Aged(f)' BY <1>o, <1>u, <2>3, <2>4 DEF Spared, Shown, Aged
  <2>7. Watched(f)' BY <1>o, <1>u, <2>4 DEF Spared, Watched
  <2>8. NotedOnce(f)' BY <1>o, <1>u, <2>4 DEF Spared, NotedOnce
  <2> QED BY <2>5, <2>6, <2>7, <2>8 DEF Spared
<1> QED BY <1>4, <1>5, <1>6, <1>7, <1>8, <1>9, <1>10, <1>11, <1>12 DEF TurnInv

\* publish() decides the slot: to proxy only for the CONNECT of the port's user,
\* which is no younger than that user's last SYN.
LEMMA PublishWonTurn ==
  ASSUME IInv, IInv', TurnInv, StrandStep, PublishCas, CasWins(sport, sword)
  PROVE  TurnInv'
<1>t. TypeOK /\ TypeOK' BY DEF IInv
<1>0. /\ spc = "pub_cas" /\ spc' = "idle" /\ word[sport] = sword
      /\ sev.flow \in Flows /\ sev.ts \in Nat /\ sport \in Ports /\ sport = PortOf[sev.flow]
      /\ sev.kind \in {"connect", "echo"} /\ decide(sev) \in {"proxied", "direct"}
  BY <1>t, StrandEventType DEF PublishCas, Return, CasWins, TurnInv, HandlerKind, sport
<1>u. UNCHANGED <<now, phase, wire, syn_sent, sockq, netq, connect_ts, entry, syn_seq, eflow,
                  posted, wpc, wpkt, wword, relay, flow_ts>>
  BY DEF PublishCas, StrandStep, kernelVars, poolVars, workerVars, relayVars
<1>n. /\ now \in Nat /\ syn_sent \in [Flows -> Nat] /\ word \in [Ports -> Word]
      /\ \A g \in Flows : PortOf[g] \in Ports
  BY <1>t, FlowAssumption DEF TypeOK, KernelTypeOK, TrackerTypeOK
<1>w. /\ word'[sport].st = decide(sev) /\ \A p \in Ports \ {sport} : word'[p] = word[p]
  BY <1>0, <1>n DEF PublishCas, SetWord, decided_word
<1>o. \A w, g : On(w, g)' <=> On(w, g) BY <1>u DEF On, wflow
<1>e. Events' = Events BY <1>u DEF Events
<1>b. InHand(sev.flow) /\ Busy(sev.flow) /\ Publishing(sport) BY <1>0 DEF InHand, Busy, Publishing
<1>q. \A r \in Requests' : \/ r \in Requests
                           \/ Pending(sport) /\ r.idx = word[sport].idx
  <2>1. CASE sword.st = "pending"
    <3>1. queue_' = Append(queue_, [idx |-> sword.idx, gen |-> sword.gen, port |-> sport,
                                    decision |-> decide(sev)])
      BY <1>0, <2>1 DEF PublishCas, handover, release
    <3>2. sword \in PendingWord
      BY <1>0, <1>n, <2>1, PendingFields DEF PendingWord, Word, decided_word
    <3>3. PICK x \in ReleaseReq : x.idx = sword.idx /\ queue_' = Append(queue_, x)
      <4>1. [idx |-> sword.idx, gen |-> sword.gen, port |-> sport, decision |-> decide(sev)]
              \in ReleaseReq
        BY <1>0, <3>2 DEF PendingWord, ReleaseReq
      <4> QED BY <3>1, <4>1
    <3>4. Requests' = Requests \cup {x} BY <1>t, <3>3, RequestsNext
    <3> QED BY <1>0, <2>1, <3>3, <3>4 DEF Pending
  <2>2. CASE sword.st # "pending"
    <3>1. queue_' = queue_ BY <1>0, <2>2 DEF PublishCas, handover
    <3> QED BY <3>1 DEF Requests
  <2> QED BY <2>1, <2>2
<1>3. \A g \in Flows : Busy(g)' => Busy(g)
  <2>1. \A g \in Flows : Reflected(g)' /\ relay'[g] = "none" => Busy(g)
    BY <1>u DEF Reflected, Busy
  <2>2. \A g \in Flows : InHand(g)' => Busy(g) BY <1>0 DEF InHand
  <2>3. \A g \in Flows, x \in Workers : On(x, g)' => Busy(g) BY <1>o DEF Busy
  <2>4. \A g \in Flows, p \in Ports : Pending(p)' /\ eflow'[word'[p].idx] = g => Busy(g)
    BY <1>0, <1>u, <1>w DEF Pending, Busy
  <2>5. \A g \in Flows, r \in Requests' : eflow'[r.idx] = g => Busy(g)
    BY <1>0, <1>q, <1>u DEF Busy
  <2> QED BY <1>e, <1>u, <2>1, <2>2, <2>3, <2>4, <2>5, BusyShrinks
<1>c. \A g : (ClearOut(g)' => ClearOut(g)) /\ (Served(g)' => Served(g))
  BY <1>0, <1>u DEF ClearOut, Handling, Served
<1>4. Turn' BY <1>3, <1>u DEF TurnInv, Turn
<1>5. OneSyn' BY <1>t, <1>o, <1>u, StrandFrames
<1>6. HandlerKind' BY <1>0 DEF HandlerKind
<1>7. Clock' BY <1>0, <1>e, <1>u DEF TurnInv, Clock
<1>8. Strand' BY <1>0, <1>e, <1>u DEF TurnInv, Strand
<1>9. Dated'
  <2>1. \A p \in Ports : DecidedBy(p) => DecidedBy(p)' BY <1>u DEF DecidedBy
  <2>2. decide(sev) = "proxied" => DecidedBy(sport)
    <3> SUFFICES ASSUME decide(sev) = "proxied" PROVE DecidedBy(sport) OBVIOUS
    <3>1. sev.kind = "connect" BY <1>0 DEF decide
    <3>2. connect_ts[sport] = sev.ts /\ sev.ts <= syn_sent[sev.flow]
      BY <1>0, <3>1 DEF TurnInv, Strand
    <3>3. phase[sev.flow] # "idle" BY <1>0, <1>b DEF TurnInv, Turn
    <3> QED BY <1>0, <3>2, <3>3 DEF DecidedBy
  <2>3. \A p \in Ports \ {sport} : ~Publishing(p) BY DEF Publishing
  <2>4. \A p \in Ports \ {sport} : word'[p].st = "proxied" => DecidedBy(p)
    BY <1>w, <2>3 DEF TurnInv, Dated
  <2> QED BY <1>w, <2>1, <2>2, <2>4 DEF Dated
<1>10. Clears' BY <1>0, <1>c, <1>u DEF TurnInv, Clears
<1>11. Named' BY <1>0, <1>3, <1>c, <1>e, <1>u DEF TurnInv, Named, Own, Publishing
<1>12. Leftovers'
  <2>1. now <= now' BY <1>n, <1>u
  <2>2. \A f \in Flows : Leftover(f) => PortOf[f] # sport
    <3> SUFFICES ASSUME NEW f \in Flows, Leftover(f), PortOf[f] = sport PROVE FALSE OBVIOUS
    <3>1. f = sev.flow BY <1>0, <1>b DEF Leftover, TurnInv, Turn
    <3> QED BY <1>0, <3>1 DEF Leftover, Own, TurnInv, Strand
  <2>3. \A f \in Flows, r \in Requests' :
          Leftover(f) /\ eflow'[r.idx] = f /\ r.decision = "proxied"
            => \E q \in Requests : eflow[q.idx] = f /\ q.decision = "proxied"
    <3>1. \A f \in Flows : Pending(sport) /\ eflow[word[sport].idx] = f => PortOf[f] = sport
      BY <1>0, PendingRef
    <3> QED BY <1>q, <1>u, <2>2, <3>1
  <2>4. \A f \in Flows : Leftover(f) /\ word'[PortOf[f]].st = "proxied"
                           => word[PortOf[f]].st = "proxied"
    BY <1>n, <1>w, <2>2
  <2> QED BY <1>t, <1>3, <1>u, <2>1, <2>3, <2>4, LeftoversApart
<1> QED BY <1>4, <1>5, <1>6, <1>7, <1>8, <1>9, <1>10, <1>11, <1>12 DEF TurnInv

\* Every step of the strand.
LEMMA StrandTurn ==
  ASSUME IInv, IInv', TurnInv, StrandStep PROVE TurnInv'
<1>t. TypeOK /\ TypeOK' BY DEF IInv
<1>f. UNCHANGED <<workerVars, relayVars>> BY DEF StrandStep
<1>s. spc # "idle" => sport \in Ports /\ PortOf[sev.flow] = sport /\ sev.flow \in Flows
  BY <1>t, StrandEventType DEF sport
<1>k. spc = "idle" => \A p : ~Publishing(p) BY DEF Publishing
<1>1. CASE OnConnect \/ OnClose
  <2>1. /\ spc = "idle" /\ sockq # <<>> /\ sockq' = Tail(sockq)
        /\ UNCHANGED <<now, phase, wire, syn_sent, netq, word, connect_ts, entry, syn_seq, eflow,
                       queue_, posted>>
    BY <1>1 DEF OnConnect, OnClose, TakeEvent, trackerVars, parkerVars, poolVars
  <2>2. Head(sockq) \in Events /\ Events' \subseteq Events BY <1>t, <2>1, EventsNext
  <2>3. \/ spc' = "idle"
        \/ spc' = "pub_load" /\ sev' = Head(sockq) /\ sev'.kind \in {"connect", "echo"}
        \/ spc' = "close_load" /\ sev' = Head(sockq) /\ sev'.kind = "close"
    BY <1>1, <2>1 DEF OnConnect, OnClose
  <2>4. \A p : Publishing(p)' =>
          sev' \in Events /\ sev'.kind # "close" /\ PortOf[sev'.flow] = p
    BY <2>2, <2>3 DEF Publishing, sport
  <2>5. HandlerKind' BY <2>3 DEF HandlerKind
  <2> QED BY <1>f, <1>k, <2>1, <2>2, <2>3, <2>4, <2>5, StrandGoesKept
<1>2. ASSUME NEW r \in posted, TakeClear(r) PROVE TurnInv'
  <2>1. /\ spc = "idle" /\ spc' = "clear_load" /\ posted' \subseteq posted
        /\ sev' = [kind |-> "clear", flow |-> r.flow, ts |-> r.ts]
        /\ UNCHANGED <<now, phase, wire, syn_sent, sockq, netq, word, connect_ts, entry, syn_seq,
                       eflow, queue_>>
    BY <1>2 DEF TakeClear, kernelVars, trackerVars, parkerVars, poolVars
  <2>2. Events' = Events BY <2>1 DEF Events
  <2>3. HandlerKind' /\ \A p : ~Publishing(p)' BY <2>1 DEF HandlerKind, Publishing
  <2> QED BY <1>f, <1>k, <2>1, <2>2, <2>3, StrandGoesKept
<1>3. CASE PublishLoad
  <2>1. CASE late_rejected(sport, word[sport], sev.ts)
    <3>1. /\ spc = "pub_load" /\ spc' = "idle" /\ word[sport].st = "abandoned"
          /\ UNCHANGED <<now, phase, wire, syn_sent, sockq, netq, word, connect_ts, entry, syn_seq,
                         eflow, queue_, posted>>
      BY <1>3, <2>1 DEF PublishLoad, Return, late_rejected, kernelVars, parkerVars, poolVars
    <3>2. Events' = Events BY <3>1 DEF Events
    <3>3. HandlerKind' /\ \A p : ~Publishing(p)' BY <3>1 DEF HandlerKind, Publishing
    <3>4. \A p \in Ports : word'[p].st = "proxied" => ~Publishing(p) BY <3>1 DEF Publishing
    <3> QED BY <1>f, <3>1, <3>2, <3>3, <3>4, StrandGoesKept
  <2>2. CASE ~late_rejected(sport, word[sport], sev.ts) BY <1>3, <2>2, PublishAuxTurn
  <2> QED BY <2>1, <2>2
<1>4. CASE PublishCas
  <2>1. CASE CasWins(sport, sword) BY <1>4, <2>1, PublishWonTurn
  <2>2. CASE ~CasWins(sport, sword)
    <3>1. /\ spc = "pub_cas" /\ spc' = "pub_load" /\ sev' = sev
          /\ UNCHANGED <<now, phase, wire, syn_sent, sockq, netq, word, connect_ts, entry, syn_seq,
                         eflow, queue_, posted>>
      BY <1>4, <2>2 DEF PublishCas, kernelVars, poolVars
    <3>2. Events' = Events BY <3>1 DEF Events
    <3>3. HandlerKind' BY <3>1 DEF TurnInv, HandlerKind
    <3>4. \A p : Publishing(p)' <=> Publishing(p) BY <3>1 DEF Publishing, sport
    <3> QED BY <1>f, <3>1, <3>2, <3>3, <3>4, StrandGoesKept
  <2> QED BY <2>1, <2>2
<1>5. CASE CloseLoad \/ CloseCas \/ ClearLoad \/ ClearCas
  <2>1. /\ spc \in {"close_load", "close_cas", "clear_load", "clear_cas"}
        /\ UNCHANGED <<now, phase, wire, syn_sent, sockq, netq, connect_ts, entry, syn_seq, eflow,
                       queue_, posted>>
    BY <1>5 DEF CloseLoad, CloseCas, ClearLoad, ClearCas, kernelVars, trackerVars, parkerVars,
                poolVars
  <2>2. \/ spc' = "idle"
        \/ /\ sev' = sev
           /\ \/ spc \in {"close_load", "close_cas"} /\ spc' \in {"close_load", "close_cas"}
              \/ spc = "clear_load" /\ spc' = "clear_cas" /\ connect_ts[sport] = sev.ts
              \/ spc = "clear_cas" /\ spc' = "clear_load"
    BY <1>5 DEF CloseLoad, CloseCas, ClearLoad, ClearCas, Return, clear_ignored
  <2>3. \A p \in Ports : word'[p] = word[p] \/ word'[p].st = "empty"
    <3>1. word' = word \/ SetWord(sport, EMPTY_WORD)
      BY <1>5 DEF CloseLoad, CloseCas, ClearLoad, ClearCas, trackerVars
    <3>2. word \in [Ports -> Word] BY <1>t DEF TypeOK, TrackerTypeOK
    <3>3. EMPTY_WORD.st = "empty" BY DEF EMPTY_WORD, decided_word
    <3> QED BY <3>1, <3>2, <3>3 DEF SetWord
  <2>4. Events' = Events BY <2>1 DEF Events
  <2>5. HandlerKind' BY <2>1, <2>2 DEF TurnInv, HandlerKind
  <2>6. \A p : ~Publishing(p) /\ ~Publishing(p)' BY <2>1, <2>2 DEF Publishing
  <2>7. spc' = "clear_cas" => connect_ts[sport'] = sev'.ts BY <2>1, <2>2 DEF sport
  <2> QED BY <1>f, <2>1, <2>2, <2>3, <2>4, <2>5, <2>6, <2>7, StrandGoesKept
<1> QED BY <1>1, <1>2, <1>3, <1>4, <1>5 DEF StrandStep, StrandNext

-----------------------------------------------------------------------------
\* Whose decision a clear clears.

\* The invariant is about these variables only.
LEMMA TurnFrame ==
  ASSUME IInv, IInv', TurnInv,
         UNCHANGED <<kernelVars, trackerVars, poolVars, queue_, socketVars, workerVars, relayVars>>
  PROVE  TurnInv'
<1>t. TypeOK /\ TypeOK' BY DEF IInv
<1>u. UNCHANGED <<now, phase, wire, syn_sent, sockq, netq, word, connect_ts, entry, syn_seq, eflow,
                  queue_, posted, spc, sev, wpc, wpkt, wword, relay, flow_ts>>
  BY DEF kernelVars, trackerVars, poolVars, socketVars, workerVars, relayVars
<1>1. /\ \A g \in Flows : Busy(g)' <=> Busy(g)
      /\ Events' = Events /\ Requests' = Requests /\ \A w, g : On(w, g)' <=> On(w, g)
  BY <1>u, BusyFrame
<1>n. now \in Nat /\ syn_sent \in [Flows -> Nat] BY <1>t DEF TypeOK, KernelTypeOK
<1>2. HandlerKind' /\ Strand' /\ Clears' /\ OneSyn' /\ \A g : ClearOut(g)' <=> ClearOut(g)
  BY <1>t, <1>n, <1>u, <1>1, StrandFrames
<1>3. Passive
  <2>1. now <= now' /\ \A g \in Flows : syn_sent[g] <= syn_sent'[g] /\ syn_sent'[g] <= now' + 1
    BY <1>n, <1>u DEF TurnInv, Clock
  <2>2. \A g \in Flows : Served(g)' => Served(g) BY <1>2, <1>u DEF Served
  <2>3. \A p : Publishing(p)' <=> Publishing(p) BY <1>u DEF Publishing, sport
  <2>4. spc' # "idle" => sev'.ts <= now + 2 BY <1>u DEF TurnInv, Clock
  <2> QED BY <1>1, <1>u, <2>1, <2>2, <2>3, <2>4 DEF Passive
<1>4. Turn' /\ Clock' /\ Dated' /\ Named' BY <1>t, <1>3, PassiveKept DEF TurnInv
<1>5. Leftovers'
  <2>1. now <= now' BY <1>n, <1>u
  <2> QED BY <1>t, <1>u, <1>1, <2>1, LeftoversApart
<1> QED BY <1>2, <1>4, <1>5 DEF TurnInv

\* Every step keeps the invariant.
LEMMA NextTurn ==
  ASSUME IInv, IInv', TurnInv, "core" \notin Lagging, TTL <= ReuseGap,
         Oversize = {} \/ MaxRetransmits = 0, [Next]_vars
  PROVE  TurnInv'
<1>1. CASE UNCHANGED vars
  BY <1>1, TurnFrame DEF vars, parkerVars
<1>2. CASE CloseSocketLayer \/ StopParker \/ CloseNetworkLayer
  BY <1>2, TurnFrame DEF CloseSocketLayer, StopParker, CloseNetworkLayer, SetLife
<1>3. CASE KernelStep BY <1>3, KernelTurn
<1>4. CASE StrandStep BY <1>4, StrandTurn
<1>5. ASSUME NEW w \in Workers, WorkerThread(w) PROVE TurnInv' BY <1>5, WorkerTurn
<1>6. CASE InjectorStep BY <1>6, InjectorTurn
<1>7. CASE RelayStep BY <1>7, RelayTurn
<1> QED BY <1>1, <1>2, <1>3, <1>4, <1>5, <1>6, <1>7 DEF Next, Quiescent

\* No flow has been opened yet and no relay serves one.
LEMMA InitTurn == ASSUME Init PROVE TurnInv
<1> USE DEF Init
<1>1. /\ now = 0 /\ phase = [f \in Flows |-> "idle"] /\ wire = [f \in Flows |-> "none"]
      /\ syn_sent = [f \in Flows |-> 0] /\ sockq = <<>> /\ netq = {}
      /\ word = [p \in Ports |-> EMPTY_WORD] /\ connect_ts = [p \in Ports |-> 0]
      /\ entry = [p \in Ports |-> None] /\ syn_seq = [p \in Ports |-> None]
      /\ queue_ = <<>> /\ posted = {} /\ spc = "idle" /\ wpc = [w \in Workers |-> "recv"]
      /\ relay = [f \in Flows |-> "none"] /\ flow_ts = [f \in Flows |-> 0]
  BY DEF KernelInit, TrackerInit, ParkerInit, SocketInit, NetworkInit, RelayInit
<1>2. /\ Events = {} /\ Requests = {}
      /\ \A w \in Workers : \A f : ~On(w, f)
      /\ \A p \in Ports : word[p].st = "empty"
      /\ \A f : ~ClearOut(f)
  BY <1>1 DEF Events, Requests, On, EMPTY_WORD, decided_word, ClearOut, Handling
<1>3. \A f \in Flows : ~Busy(f) BY <1>1, <1>2 DEF Busy, Reflected, InHand, Pending
<1>4. Turn BY <1>1, <1>3, FlowAssumption, TrackerAssumption DEF Turn
<1>5. OneSyn /\ HandlerKind BY <1>1, <1>2 DEF OneSyn, HandlerKind
<1>6. Clock BY <1>1, <1>2 DEF Clock
<1>7. Strand BY <1>1, <1>2 DEF Strand
<1>8. Dated BY <1>2 DEF Dated
<1>9. Clears BY <1>1, <1>2 DEF Clears
<1>10. Named BY <1>1, <1>2 DEF Named, Served
<1>11. Leftovers BY <1>3 DEF Leftovers, Leftover
<1> QED BY <1>4, <1>5, <1>6, <1>7, <1>8, <1>9, <1>10, <1>11 DEF TurnInv

\* The slot a clear is about to empty has its flow's time, so it is its flow's.
LEMMA ClearsByTime == ASSUME IInv, TurnInv PROVE ClearsOwnDecision
<1> SUFFICES ASSUME spc = "clear_cas" PROVE entry[sport] = RemoteOf[sev.flow]
  BY DEF ClearsOwnDecision
<1>1. sev.flow \in Flows BY StrandEventType DEF IInv
<1>2. sev.kind = "clear" /\ connect_ts[sport] = sev.ts BY DEF TurnInv, HandlerKind, Strand
<1>3. Served(sev.flow) BY <1>2 DEF Served, ClearOut, Handling
<1>4. sev.ts = flow_ts[sev.flow] BY <1>2 DEF TurnInv, Clears
<1> QED BY <1>1, <1>2, <1>3, <1>4 DEF TurnInv, Named, Own, sport

\* A relay that ends late clears the decision its own flow was served under and
\* never the one published since for the next flow of the port: for any number
\* of flows that share a port, workers and pool entries, relays that lag behind
\* any number of reuses, lost CONNECTs, echoes and a shutdown at any moment, as
\* long as the stack does not reuse a port within the TTL, nor while strand,
\* workers or injector are busy with its last flow, and an oversize SYN is never
\* retransmitted.
THEOREM ClearsOwnDecisionCorrect ==
  ASSUME "core" \notin Lagging, TTL <= ReuseGap, Oversize = {} \/ MaxRetransmits = 0
  PROVE  Spec => []ClearsOwnDecision
<1>1. Init => TurnInv BY InitTurn
<1>2. IInv /\ IInv' /\ TurnInv /\ [Next]_vars => TurnInv' BY NextTurn
<1>3. IInv /\ TurnInv => ClearsOwnDecision BY ClearsByTime
<1> QED BY <1>1, <1>2, <1>3, IInvCorrect, PTL DEF Spec
=============================================================================
