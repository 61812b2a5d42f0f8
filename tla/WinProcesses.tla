---------------------------- MODULE WinProcesses ----------------------------
(***************************************************************************)
(* The environment of the process tree: the processes Windows runs and the *)
(* ETW session that records them.  Nothing here is under src/: it is       *)
(* modelled from how process/etw_consumer.hpp, process/flat_tree.hpp and   *)
(* domain/process_tree_manager.cpp use it.                                 *)
(*                                                                         *)
(* A process is its ProcessSequenceNumber: PSNs are handed out in order    *)
(* and never again, PIDs are recycled as soon as their owner is gone.      *)
(* Creation times order as PSNs do.  The session holds its events in order *)
(* for the consumer to fetch, one or two seconds late; a full buffer drops *)
(* some, which the session counts.                                         *)
(***************************************************************************)
EXTENDS Integers, Sequences, FiniteSets

CONSTANTS
  MaxPsn,       \* processes that are ever started ...
  MaxEarly,     \* ... and how many of them before the ETW session opens
  Pids,         \* process ids
  NoPid,        \* 0: no process
  Unopenable,   \* processes OpenProcess refuses (protected ones)
  MaxLosses,    \* bound on the events the session drops
  Overlaps      \* what may happen within the delay of the ETW events (below)

ASSUME ProcessAssumption ==
  /\ MaxPsn \in Nat /\ MaxEarly \in Nat /\ MaxLosses \in Nat
  /\ NoPid \notin Pids
  /\ Unopenable \subseteq 1 .. MaxPsn
  /\ Overlaps \subseteq {"start", "parent", "orphan", "grace"}

PSN == 1 .. MaxPsn

\* ROOT_PSN_SENTINEL, and no process at all.
NONE == 0

VARIABLES
  born,         \* PSNs handed out so far
  pid_of,       \* pid_of[s]: the PID of s
  parent_of,    \* parent_of[s]: the PSN of its creator, or NONE
  running,      \* processes that have not exited
  session,      \* the ETW session of clew's name: "none", "residual" (of a process
                \* that died) or "open"
  etw,          \* its events on their way to clew's strand, oldest first
  rundown,      \* processes a CAPTURE_STATE request has still to enumerate
  EventsLost    \* events dropped

bornVars == <<born, pid_of, parent_of, running>>
processVars == <<bornVars, session, etw, rundown, EventsLost>>

\* A process event carries the identity the kernel recorded at creation.
EtwEvent == [kind : {"START", "STOP", "RUNDOWN"}, psn : PSN] \cup {[kind |-> "LOST", psn |-> NONE]}

ProcessesTypeOK ==
  /\ born \in 0 .. MaxPsn
  /\ pid_of \in [PSN -> Pids \cup {NoPid}]
  /\ parent_of \in [PSN -> 0 .. MaxPsn]
  /\ running \subseteq 1 .. born
  /\ session \in {"none", "residual", "open"}
  /\ etw \in Seq(EtwEvent)
  /\ rundown \subseteq PSN
  /\ EventsLost \in 0 .. MaxLosses

ProcessesInit ==
  /\ born = 0
  /\ pid_of = [s \in PSN |-> NoPid]
  /\ parent_of = [s \in PSN |-> NONE]
  /\ running = {}
  /\ session \in {"none", "residual"} /\ etw = <<>> /\ rundown = {} /\ EventsLost = 0

pidOf(s) == IF s = NONE THEN NoPid ELSE pid_of[s]
parent_pid_of(s) == pidOf(parent_of[s])

\* The running process that holds PID p.
owner(p) == IF \E s \in running : pid_of[s] = p
            THEN CHOOSE s \in running : pid_of[s] = p
            ELSE NONE

\* OpenProcess: the owner of p, if it can be opened.
opened(p) == IF owner(p) \in Unopenable THEN NONE ELSE owner(p)

\* True ancestry, as the processes were created.
ancestors[s \in 0 .. MaxPsn] ==
  IF s = NONE \/ parent_of[s] = NONE THEN {}
  ELSE {parent_of[s]} \cup ancestors[parent_of[s]]

\* The session records an event, or drops it and counts it.
Report(kind, s) ==
  \/ session # "open" /\ UNCHANGED <<etw, EventsLost>>
  \/ /\ session = "open" /\ etw' = Append(etw, [kind |-> kind, psn |-> s])
     /\ UNCHANGED EventsLost
  \/ /\ session = "open" /\ EventsLost < MaxLosses /\ EventsLost' = EventsLost + 1
     /\ UNCHANGED etw

\* CreateProcess by a running process, or by one older than any PSN.  A PID is
\* free when its owner is gone.
Spawn(s, p, parent) ==
  /\ s = born + 1 /\ owner(p) = NONE
  /\ session = "open" \/ s <= MaxEarly
  /\ parent = NONE \/ parent \in running
  /\ born' = s
  /\ pid_of' = [pid_of EXCEPT ![s] = p]
  /\ parent_of' = [parent_of EXCEPT ![s] = parent]
  /\ running' = running \cup {s}
  /\ Report("START", s)
  /\ UNCHANGED <<session, rundown>>

Exit(s) ==
  /\ s \in running
  /\ running' = running \ {s}
  /\ rundown' = rundown \ {s}
  /\ Report("STOP", s)
  /\ UNCHANGED <<born, pid_of, parent_of, session>>

\* The kernel enumerates the running processes in an order of its own.
EnumerateNext(s) ==
  /\ s \in rundown
  /\ rundown' = rundown \ {s}
  /\ Report("RUNDOWN", s)
  /\ UNCHANGED <<bornVars, session>>
=============================================================================
