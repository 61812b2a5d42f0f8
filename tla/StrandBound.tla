----------------------------- MODULE StrandBound -----------------------------
(***************************************************************************)
(* domain/strand_bound.hpp and the io_context it posts to: query() and     *)
(* command() post a task to the strand and block the calling thread on the *)
(* future of its result.  Workers run the tasks of the strand one at a     *)
(* time for as long as the io_context is not stopped; a result may also be *)
(* an exception, which the future rethrows to the caller.                  *)
(***************************************************************************)
EXTENDS Integers, Sequences

CONSTANTS Callers, None

VARIABLES
  ioc_,       \* "created", "running" on the workers, or "stopped"
  strand_,    \* callers whose task is queued, oldest first
  task,       \* the caller whose task a worker is in; None
  waiting     \* callers blocked in fut.get()

strandVars == <<ioc_, strand_, task, waiting>>

StrandTypeOK ==
  /\ ioc_ \in {"created", "running", "stopped"}
  /\ strand_ \in Seq(Callers) /\ task \in Callers \cup {None} /\ waiting \subseteq Callers

StrandInit == ioc_ = "created" /\ strand_ = <<>> /\ task = None /\ waiting = {}

\* query() or command(), up to fut.get().
post(c) ==
  /\ strand_' = Append(strand_, c) /\ waiting' = waiting \cup {c}
  /\ UNCHANGED <<ioc_, task>>

RunTask ==
  /\ ioc_ = "running" /\ task = None /\ strand_ # <<>>
  /\ task' = Head(strand_) /\ strand_' = Tail(strand_) /\ UNCHANGED <<ioc_, waiting>>

FinishTask ==
  /\ task # None /\ waiting' = waiting \ {task} /\ task' = None
  /\ UNCHANGED <<ioc_, strand_>>
=============================================================================
