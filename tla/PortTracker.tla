----------------------------- MODULE PortTracker -----------------------------
(***************************************************************************)
(* core/port_tracker.hpp: one slot per local TCP port.  The word of a slot *)
(* packs {state | pool generation | pool index} into one atomic, so every  *)
(* transition is a CAS on the whole word; the auxiliary fields are plain   *)
(* memory, written before the CAS and read after a load.  A thread's load, *)
(* its auxiliary writes and its CAS are separate steps of the modules that *)
(* call these operations: what another thread does in between is the point.*)
(***************************************************************************)
EXTENDS WinKernel

CONSTANTS
  PoolSize,     \* entries of the SYN pool (syn_parker::pool_size_)
  WordGenMod,   \* the word keeps the generation modulo this (2^24)
  TTL,          \* PortTracker::ttl_ticks_
  None          \* no flow, no port, no remote endpoint

ASSUME TrackerAssumption ==
  /\ PoolSize \in Nat \ {0}
  /\ WordGenMod \in Nat \ {0}
  /\ TTL \in Nat
  /\ None \notin Flows

PoolIdx == 0 .. (PoolSize - 1)
NO_POOL_IDX == -1

SlotState == {"empty", "pending", "proxied", "direct", "abandoned"}

pack_word(st, gen, idx) == [st |-> st, gen |-> gen % WordGenMod, idx |-> idx]
decided_word(st) == [st |-> st, gen |-> 0, idx |-> NO_POOL_IDX]
EMPTY_WORD == decided_word("empty")

\* Only a pending word names a pool entry.
PendingWord == [st : {"pending"}, gen : 0 .. (WordGenMod - 1), idx : PoolIdx]
Word == PendingWord \cup {decided_word(st) : st \in SlotState \ {"pending"}}

VARIABLES
  word,         \* word[p]: TrackerSlot::word
  connect_ts,   \* kernel time of the CONNECT behind the decision (strand-owned)
  pinned_ts,    \* kernel time of the SYN released undecided (injector, workers)
  entry,        \* remote endpoint of the flow the decision is about
  syn_seq       \* ISN of the last SYN handled on the port (worker-owned)

trackerVars == <<word, connect_ts, pinned_ts, entry, syn_seq>>

TrackerTypeOK ==
  /\ word \in [Ports -> Word]
  /\ connect_ts \in [Ports -> Nat]
  /\ pinned_ts \in [Ports -> Nat]
  /\ syn_seq \in [Ports -> Flows \cup {None}]

TrackerInit ==
  /\ word = [p \in Ports |-> EMPTY_WORD]
  /\ connect_ts = [p \in Ports |-> 0]
  /\ pinned_ts = [p \in Ports |-> 0]
  /\ entry = [p \in Ports |-> None]
  /\ syn_seq = [p \in Ports |-> None]

\* Mutant: a plain store where the code has a CAS.
Mut_CasWins(p, expected) == TRUE

\* compare_exchange_strong on the word of port p.
CasWins(p, expected) == word[p] = expected
SetWord(p, w) == word' = [word EXCEPT ![p] = w]

\* NETWORK workers ---------------------------------------------------------

note_syn(p, f) == syn_seq' = [syn_seq EXCEPT ![p] = f]
\* Mutant: no ISN check.
Mut_is_retransmit(p, f) == FALSE
is_retransmit(p, f) == syn_seq[p] = f

\* The age of a decision is taken from pinned_ts for an abandoned slot and
\* from connect_ts for a decided one, read after (not with) the word.
fresh(p, st, ts) ==
  ts - (IF st = "abandoned" THEN pinned_ts[p] ELSE connect_ts[p]) <= TTL

\* Strand ------------------------------------------------------------------

\* The CONNECT our own re-injected SYN raised: same remote, young decision.
is_echo(p, ts, remote) ==
  /\ word[p].st \in {"proxied", "direct"}
  /\ ts - connect_ts[p] <= TTL
  /\ entry[p] = remote

\* Mutant: the late CONNECT of a released SYN is published.
Mut_late_rejected(p, w, ts) == FALSE

\* publish() on the word it loaded: the watchdog released this very flow.
late_rejected(p, w, ts) == w.st = "abandoned" /\ ts < pinned_ts[p]

\* on_close() and clear_if() on the word they loaded: nothing to clear.
close_ignored(p, w, ts) ==
  w.st \in {"empty", "proxied"} \/ connect_ts[p] > ts

\* Mutant: clear_if() does not compare the flow's timestamp.
Mut_clear_ignored(p, w, ts) == w.st = "empty"

clear_ignored(p, w, ts) ==
  w.st = "empty" \/ connect_ts[p] # ts
=============================================================================
