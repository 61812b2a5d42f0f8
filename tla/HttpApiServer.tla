---------------------------- MODULE HttpApiServer ----------------------------
(***************************************************************************)
(* transport/http_api_server.cpp and the handlers it runs: a fixed pool of *)
(* threads, each of which handles one request from its arrival to its      *)
(* answer.  A request asks the strand, or changes the configuration and    *)
(* then has the observers carry the change to the strand, or shows the     *)
(* user a dialog (services/shell_service.cpp).  dispatch() turns an        *)
(* exception into an answer, so that every way out ends the request.       *)
(***************************************************************************)
EXTENDS ConfigFile, StrandBound

CONSTANTS Threads, Gui

ASSUME PoolAssumption == Callers = Threads /\ Savers = Threads \cup {Gui} /\ Gui \notin Threads

VARIABLES
  listening,   \* "no", "yes" or "failed" to bind, seen from the outside
  running_,
  handler,     \* handler[t]: "idle", "asking", "saving", "observing" or "dialog"
  acked        \* the latest change a client was told is saved

serverVars == <<listening, running_, handler, acked>>

Answered == [t \in Threads |-> "idle"]

ServerInit ==
  listening = "no" /\ running_ = FALSE /\ handler = Answered /\ acked = 0

Becomes(t, state) == handler' = [handler EXCEPT ![t] = state]
ServerSame == UNCHANGED <<listening, running_>>

\* Requests.
Ask(t) ==
  /\ listening = "yes" /\ handler[t] = "idle" /\ Becomes(t, "asking") /\ post(t)
  /\ ServerSame /\ UNCHANGED <<fileVars, acked>>

\* The mutex of the store: one thread at a time changes and saves.
Mutate(t) ==
  /\ listening = "yes" /\ handler[t] = "idle" /\ \A u \in Threads : handler[u] # "saving"
  /\ Change(t) /\ Becomes(t, "saving")
  /\ ServerSame /\ UNCHANGED <<strandVars, acked>>

Browse(t) ==
  /\ listening = "yes" /\ handler[t] = "idle" /\ Becomes(t, "dialog")
  /\ ServerSame /\ UNCHANGED <<fileVars, strandVars, acked>>

\* The end of save(): an error to the client, or on to the observers.
Saved(t) ==
  /\ handler[t] = "saving" /\ saving[t].pc \in {"saved", "failed"} /\ Returned(t)
  /\ \/ /\ saving[t].pc = "saved" /\ Becomes(t, "observing") /\ post(t)
        /\ acked' = (IF saving[t].v > acked THEN saving[t].v ELSE acked)
     \/ /\ saving[t].pc = "failed" /\ Becomes(t, "idle") /\ UNCHANGED <<strandVars, acked>>
  /\ ServerSame /\ UNCHANGED <<config, file, tmp, open, changes, overlapped>>

\* The future is ready: the query is answered, or the observers go on and it is too.
Answer(t) ==
  /\ handler[t] \in {"asking", "observing"} /\ t \notin waiting /\ Becomes(t, "idle")
  /\ ServerSame /\ UNCHANGED <<fileVars, strandVars, acked>>

DialogClosed(t) ==
  /\ handler[t] = "dialog" /\ Becomes(t, "idle")
  /\ ServerSame /\ UNCHANGED <<fileVars, strandVars, acked>>
=============================================================================
