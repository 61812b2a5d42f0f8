---------------------------- MODULE EtwConsumer ----------------------------
(***************************************************************************)
(* process/etw_consumer.hpp: opens the ETW session and, on a thread of its *)
(* own, posts each event the session recorded to the strand.  Events reach *)
(* the strand in the order they were recorded, so one queue stands for the *)
(* buffers of the session and what is posted; a growth of the session's    *)
(* loss counter is noticed between two buffers, and posted like an event.  *)
(***************************************************************************)
EXTENDS WinProcesses, SequencesExt

VARIABLES
  running_,           \* the consumer started
  last_events_lost_,
  refused             \* the last CAPTURE_STATE was refused

consumerVars == <<running_, last_events_lost_, refused>>

ConsumerTypeOK ==
  running_ \in BOOLEAN /\ refused \in BOOLEAN /\ last_events_lost_ \in 0 .. EventsLost

ConsumerInit == running_ = FALSE /\ last_events_lost_ = 0 /\ refused = FALSE

stop_session == session' = "none"

\* start(): a session left behind is stopped first, by its name; one that cannot be
\* enabled or opened is not left behind.
start ==
  /\ \/ session' = "open" /\ running_' = TRUE
     \/ stop_session /\ running_' = FALSE
  /\ UNCHANGED <<bornVars, etw, rundown, EventsLost, last_events_lost_, refused>>

\* request_rundown(): CAPTURE_STATE; when it fails, nobody asks again.
request_rundown ==
  /\ \/ rundown' = running /\ refused' = FALSE
     \/ UNCHANGED rundown /\ refused' = TRUE
  /\ UNCHANGED <<bornVars, session, etw, EventsLost, running_, last_events_lost_>>

\* event_record_callback(), and the task it posts: one event of these kinds.
event_record_callback(kinds) ==
  /\ running_ /\ etw # <<>> /\ Head(etw).kind \in kinds /\ etw' = Tail(etw)
  /\ UNCHANGED <<bornVars, session, rundown, EventsLost, consumerVars>>

\* buffer_callback(): EventsLost counts from the start of the session.
buffer_callback ==
  /\ running_ /\ EventsLost > last_events_lost_
  /\ last_events_lost_' = EventsLost
  /\ etw' = Append(etw, [kind |-> "LOST", psn |-> NONE])
  /\ UNCHANGED <<bornVars, session, rundown, EventsLost, running_, refused>>

\* The START or RUNDOWN of a process is still on its way.
Undelivered(s) == \E e \in ToSet(etw) : e.kind # "STOP" /\ e.psn = s
=============================================================================
