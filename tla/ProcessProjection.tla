-------------------------- MODULE ProcessProjection --------------------------
(***************************************************************************)
(* projection/process_projection.cpp, as the preset builds it (with        *)
(* CLEW_PROJECTION_COALESCE): the snapshot of the process tree that is     *)
(* pushed to the frontend.  Everything runs on the strand, but the handler *)
(* of a cancelled or expired wait is one more task there, behind those     *)
(* that are queued already.  The tree is a version number.                 *)
(***************************************************************************)
EXTENDS Integers

CONSTANT MaxChanges     \* bound on the changes of the tree

ASSUME ProjectionAssumption == MaxChanges \in Nat

VARIABLES
  tree,              \* version of the process tree
  snapshot_,         \* version the snapshot was made of
  frontend_visible_,
  pending_flush_,
  coalesce_timer_,   \* a wait is outstanding
  expired,           \* handlers of waits that expired, queued on the strand
  aborted,           \* handlers of waits that were cancelled, queued on the strand
  replays            \* replays posted to the strand

timerVars == <<pending_flush_, coalesce_timer_, expired, aborted>>
projectionVars == <<tree, snapshot_, frontend_visible_, timerVars, replays>>

ProjectionInit ==
  /\ tree = 0 /\ snapshot_ = -1 /\ frontend_visible_ = TRUE
  /\ pending_flush_ = FALSE /\ coalesce_timer_ = FALSE
  /\ expired = 0 /\ aborted = 0 /\ replays = 0

\* cancel() and expires_after() abort the wait that is outstanding.
Abort == aborted' = aborted + (IF coalesce_timer_ THEN 1 ELSE 0)

cancel == Abort /\ coalesce_timer_' = FALSE /\ pending_flush_' = FALSE /\ UNCHANGED expired

\* Mutant: a replay pushes the snapshot there is.
Mut_refresh_snapshot(now) == UNCHANGED snapshot_

\* Each push of the client module pushes the snapshot that results.
refresh_snapshot(now) == snapshot_' = now

\* An ETW event: it arms the timer unless a flush is pending.
schedule_coalesced_push ==
  IF pending_flush_ THEN UNCHANGED timerVars
  ELSE Abort /\ coalesce_timer_' = TRUE /\ pending_flush_' = TRUE /\ UNCHANGED expired

Changed == tree < MaxChanges /\ tree' = tree + 1 /\ UNCHANGED <<frontend_visible_, replays>>

\* on_tree_changed(): a hidden frontend makes it return at once.
DropChange == Changed /\ ~frontend_visible_ /\ UNCHANGED <<snapshot_, timerVars>>

BatchedChange ==
  Changed /\ frontend_visible_ /\ schedule_coalesced_push /\ UNCHANGED snapshot_

ImmediateChange == Changed /\ frontend_visible_ /\ cancel /\ refresh_snapshot(tree')

\* The window of 100 ms is over.
Expire ==
  /\ coalesce_timer_ /\ coalesce_timer_' = FALSE /\ expired' = expired + 1
  /\ UNCHANGED <<tree, snapshot_, frontend_visible_, pending_flush_, aborted, replays>>

\* The handler of the wait, also after its timer has been armed again.
Flush ==
  /\ expired > 0 /\ expired' = expired - 1
  /\ pending_flush_' = FALSE /\ refresh_snapshot(tree)
  /\ UNCHANGED <<tree, frontend_visible_, coalesce_timer_, aborted, replays>>

FlushAborted ==
  /\ aborted > 0 /\ aborted' = aborted - 1 /\ pending_flush_' = FALSE
  /\ UNCHANGED <<tree, snapshot_, frontend_visible_, coalesce_timer_, expired, replays>>

\* replay_to_frontend() posts this one.
Replay ==
  /\ replays > 0 /\ replays' = replays - 1
  /\ cancel /\ refresh_snapshot(tree)
  /\ UNCHANGED <<tree, frontend_visible_>>
=============================================================================
