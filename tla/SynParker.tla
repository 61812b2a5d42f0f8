------------------------------ MODULE SynParker ------------------------------
(***************************************************************************)
(* core/syn_parker.hpp: the bounded pool of parked SYNs, the queue of      *)
(* decided SYNs the strand hands over, and the injector thread that sends  *)
(* them and sweeps the pool for SYNs nobody decided (the watchdog).        *)
(*                                                                         *)
(* The sweep reads an entry's age, the slot word and the entry again with  *)
(* nothing held, so it is four steps; release_parked is one step, because  *)
(* whoever won the slot's CAS is the only holder of the entry.             *)
(***************************************************************************)
EXTENDS PortTracker

CONSTANTS
  PoolGenMod,   \* width of an entry's own generation (2^32)
  Watchdog      \* syn_parker::watchdog_ticks_

ASSUME ParkerAssumption == PoolGenMod \in Nat \ {0} /\ Watchdog \in Nat

VARIABLES
  in_use,       \* in_use[i]: entry i is allocated
  gen,          \* gen[i]: bumped on every free
  park_qpc,     \* time of the last park in the entry
  syn_kernel_ts,\* kernel time of the SYN the entry holds
  eflow,        \* the SYN in the entry; its port is pool_entry::port
  queue_,       \* release requests, oldest first
  gen_mismatch, \* the counter of that name is not 0
  life,         \* shutdown: "up", "socket_closed", "draining", "sweeping",
                \* "stopped" (injector joined), "closed" (NETWORK handle closed)
  ipc,          \* injector: "idle", "load", "pin", "cas"
  iidx,         \* entry the sweep is at
  iword,        \* slot word the sweep loaded
  iport,        \* port pin_abandoned was called with
  itodo         \* entries the sweep has not reached

poolVars == <<in_use, gen, park_qpc, syn_kernel_ts, eflow>>
injectorVars == <<ipc, iidx, iword, iport, itodo>>
parkerVars == <<poolVars, queue_, gen_mismatch, life, injectorVars>>

ReleaseReq == [idx : PoolIdx, gen : 0 .. (WordGenMod - 1), port : Ports,
               decision : {"proxied", "direct"}]

ParkerTypeOK ==
  /\ in_use \in [PoolIdx -> BOOLEAN]
  /\ gen \in [PoolIdx -> 0 .. (PoolGenMod - 1)]
  /\ park_qpc \in [PoolIdx -> Nat]
  /\ syn_kernel_ts \in [PoolIdx -> Nat]
  /\ eflow \in [PoolIdx -> Flows \cup {None}]
  /\ queue_ \in Seq(ReleaseReq)
  /\ gen_mismatch \in BOOLEAN
  /\ life \in {"up", "socket_closed", "draining", "sweeping", "stopped", "closed"}
  /\ ipc \in {"idle", "load", "pin", "cas"}
  /\ iidx \in PoolIdx
  /\ iword \in Word
  /\ iport \in Ports \cup {None}
  /\ itodo \subseteq PoolIdx

ParkerInit ==
  /\ in_use = [i \in PoolIdx |-> FALSE]
  /\ gen = [i \in PoolIdx |-> 1 % PoolGenMod]
  /\ park_qpc = [i \in PoolIdx |-> 0]
  /\ syn_kernel_ts = [i \in PoolIdx |-> 0]
  /\ eflow = [i \in PoolIdx |-> None]
  /\ queue_ = <<>>
  /\ gen_mismatch = FALSE
  /\ life = "up"
  /\ ipc = "idle" /\ iidx = 0 /\ iword = EMPTY_WORD /\ iport = None
  /\ itodo = {}

\* pool_entry::port: written with the packet, and the default 0 (a port no
\* flow uses) in an entry that never held one.
HasPort(i) == eflow[i] # None
eport(i) == PortOf[eflow[i]]

\* Mutant: the entry is taken without an exchange on in_use.
Mut_alloc(i) == in_use' = [in_use EXCEPT ![i] = TRUE]

alloc(i) == ~in_use[i] /\ in_use' = [in_use EXCEPT ![i] = TRUE]
Exhausted == \A i \in PoolIdx : in_use[i]

free(i) ==
  /\ gen' = [gen EXCEPT ![i] = (@ + 1) % PoolGenMod]
  /\ in_use' = [in_use EXCEPT ![i] = FALSE]

\* release(): the strand hands a decided SYN to the injector.
release(w, p, decision) ==
  queue_' = Append(queue_, [idx |-> w.idx, gen |-> w.gen, port |-> p, decision |-> decision])

wire_path(decision) == IF decision = "proxied" THEN "proxied" ELSE "direct"

\* The entry was recycled under its owner: count it and touch nothing.
release_mismatch(i, g) ==
  /\ gen[i] # g
  /\ gen_mismatch' = TRUE
  /\ UNCHANGED <<kernelVars, poolVars>>

\* Mutant: the entry is freed and its SYN never sent.
Mut_release_send(i, g, decision) ==
  /\ gen[i] = g /\ free(i)
  /\ UNCHANGED <<kernelVars, park_qpc, syn_kernel_ts, eflow, gen_mismatch>>

\* Copy out, free the entry, then send.
release_send(i, g, decision) ==
  /\ gen[i] = g
  /\ free(i)
  /\ SendSyn(eflow[i], wire_path(decision))
  /\ UNCHANGED <<park_qpc, syn_kernel_ts, eflow, gen_mismatch>>

release_parked(i, g, decision) ==
  release_mismatch(i, g) \/ release_send(i, g, decision)

running == life \in {"up", "socket_closed"}
InjectorAlive == life \in {"up", "socket_closed", "draining", "sweeping"}

\* drain_queue(), one request.
DrainQueue ==
  /\ ipc = "idle" /\ itodo = {} /\ InjectorAlive /\ life # "sweeping" /\ queue_ # <<>>
  /\ LET r == Head(queue_) IN release_parked(r.idx, r.gen, r.decision)
  /\ queue_' = Tail(queue_)
  /\ UNCHANGED <<trackerVars, life, injectorVars>>

Due(i) == in_use[i] /\ now - park_qpc[i] >= Watchdog

\* sweep() follows the drain, every millisecond; a pass that would find no
\* entry older than T does nothing and is left out.
StartSweep ==
  /\ ipc = "idle" /\ itodo = {} /\ running /\ queue_ = <<>>
  /\ \E i \in PoolIdx : Due(i)
  /\ itodo' = PoolIdx
  /\ UNCHANGED <<kernelVars, trackerVars, poolVars, queue_, gen_mismatch, life,
                 ipc, iidx, iword, iport>>

\* The sweep reaches entry i: the periodic one goes on with an entry older than
\* T, the forced one of the shutdown with every allocated entry.  The code reads
\* its clock once a pass; reading it at every entry merges a pass with the next
\* one, a millisecond later.
Reaches(i) == ipc = "idle" /\ InjectorAlive /\ i \in itodo /\ \A j \in itodo : i <= j
Selected(i) == IF life = "sweeping" THEN in_use[i] ELSE Due(i)

SweepAge(i) ==
  /\ Reaches(i)
  /\ itodo' = itodo \ {i}
  /\ IF Selected(i) THEN ipc' = "load" /\ iidx' = i ELSE UNCHANGED <<ipc, iidx>>
  /\ UNCHANGED <<kernelVars, trackerVars, poolVars, queue_, gen_mismatch, life, iword, iport>>

\* On to the next entry: what was read of this one is forgotten.
SweepContinue == ipc' = "idle" /\ iidx' = 0 /\ iword' = EMPTY_WORD /\ iport' = None

\* sweep(): load the slot; go on only if it still says pending(this entry).
SweepLoad ==
  LET ours == /\ HasPort(iidx)
              /\ word[eport(iidx)].st = "pending"
              /\ word[eport(iidx)].idx = iidx
  IN /\ ipc = "load"
     /\ IF ours THEN /\ ipc' = "pin" /\ iword' = word[eport(iidx)]
                     /\ UNCHANGED <<iidx, iport>>
                ELSE SweepContinue
     /\ UNCHANGED <<kernelVars, trackerVars, poolVars, queue_, gen_mismatch, life, itodo>>

\* pin_abandoned(e.port, v.word, e.syn_kernel_ts): aux before the CAS.
SweepPin ==
  /\ ipc = "pin"
  /\ iport' = eport(iidx)
  /\ pinned_ts' = [pinned_ts EXCEPT ![eport(iidx)] = syn_kernel_ts[iidx]]
  /\ ipc' = "cas"
  /\ UNCHANGED <<kernelVars, word, connect_ts, entry, syn_seq, poolVars, queue_,
                 gen_mismatch, life, iidx, iword, itodo>>

SweepCasWon ==
  /\ ipc = "cas" /\ CasWins(iport, iword)
  /\ SetWord(iport, decided_word("abandoned"))
  /\ release_parked(iidx, iword.gen, "abandoned")
  /\ SweepContinue
  /\ UNCHANGED <<connect_ts, pinned_ts, entry, syn_seq, queue_, life, itodo>>

\* A decision won the race: the entry is the decision's.
SweepCasLost ==
  /\ ipc = "cas" /\ ~CasWins(iport, iword)
  /\ SweepContinue
  /\ UNCHANGED <<kernelVars, trackerVars, poolVars, queue_, gen_mismatch, life, itodo>>

\* injector_loop() left its loop: last drain done, then one forced sweep.
FinalSweep ==
  /\ life = "draining" /\ ipc = "idle" /\ itodo = {} /\ queue_ = <<>>
  /\ life' = "sweeping" /\ itodo' = PoolIdx
  /\ UNCHANGED <<kernelVars, trackerVars, poolVars, queue_, gen_mismatch,
                 ipc, iidx, iword, iport>>

InjectorExit ==
  /\ life = "sweeping" /\ ipc = "idle" /\ itodo = {}
  /\ life' = "stopped"
  /\ UNCHANGED <<kernelVars, trackerVars, poolVars, queue_, gen_mismatch, injectorVars>>

SweepStep == SweepLoad \/ SweepPin \/ SweepCasWon \/ SweepCasLost
InjectorNext ==
  \/ DrainQueue
  \/ StartSweep
  \/ \E i \in PoolIdx : SweepAge(i)
  \/ SweepStep
  \/ FinalSweep \/ InjectorExit
=============================================================================
