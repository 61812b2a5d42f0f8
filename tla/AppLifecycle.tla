---------------------------- MODULE AppLifecycle ----------------------------
(***************************************************************************)
(* main.cpp and app.cpp: the main thread from the launch of the process to *)
(* its exit, with the HTTP server, the strand and the configuration file   *)
(* it starts and stops.  The process may die at any step and be launched   *)
(* again.  What the layers between do on the way down is the business of   *)
(* SynParking, UdpInterception and DnsManager.                             *)
(***************************************************************************)
EXTENDS HttpApiServer

CONSTANT MaxCrashes     \* bound on crashes

VARIABLES
  main,      \* where the main thread is
  threw,     \* run() was left by an exception
  crashes

mainVars == <<main, threw, crashes>>
vars == <<fileVars, strandVars, serverVars, mainVars>>

\* The order of shutdown().  Mutant: the io_context is stopped while requests still wait
\* for the strand.
Mut_after == [layers |-> "ioc", ioc |-> "join", join |-> "acceptor", acceptor |-> "api",
              api |-> "tree", tree |-> "off"]
after == [layers |-> "acceptor", acceptor |-> "api", api |-> "ioc", ioc |-> "join",
          join |-> "tree", tree |-> "off"]

Stopping == DOMAIN after

TypeOK ==
  /\ FileTypeOK /\ StrandTypeOK
  /\ listening \in {"no", "yes", "failed"} /\ running_ \in BOOLEAN /\ acked \in Content
  /\ handler \in [Threads -> {"idle", "asking", "saving", "observing", "dialog"}]
  /\ main \in {"off", "constructed", "serving", "workers", "loop"} \cup Stopping
  /\ threw \in BOOLEAN /\ crashes \in 0 .. MaxCrashes

Init ==
  /\ FileInit /\ StrandInit /\ ServerInit
  /\ main = "off" /\ threw = FALSE /\ crashes = 0
-----------------------------------------------------------------------------
\* Only one instance: the configuration is loaded, the redirect listener is bound.  When
\* that fails the constructor throws, and there is no app to shut down.
Launch ==
  /\ main = "off" /\ load /\ main' \in {"constructed", "off"} /\ threw' = FALSE
  /\ ioc_' = "created" /\ UNCHANGED <<strand_, task, waiting, serverVars, crashes>>

\* api_server_.start(): binding fails while start() sleeps, which throws, or later.
StartApi ==
  /\ main = "constructed"
  /\ \/ listening' = "yes" /\ running_' = TRUE /\ main' = "serving" /\ UNCHANGED threw
     \/ listening' = "failed" /\ running_' = FALSE /\ main' = "layers" /\ threw' = TRUE
     \/ listening' = "failed" /\ running_' = TRUE /\ main' = "serving" /\ UNCHANGED threw
  /\ UNCHANGED <<fileVars, strandVars, handler, acked, crashes>>

BindFailsLate ==
  /\ listening = "failed" /\ running_ /\ running_' = FALSE
  /\ UNCHANGED <<fileVars, strandVars, listening, handler, acked, mainVars>>

\* The initial dns_mgr_.apply(): an address the resolver cannot listen on is thrown.
ApplyDns ==
  /\ main = "serving"
  /\ \/ main' = "workers" /\ UNCHANGED threw
     \/ main' = "layers" /\ threw' = TRUE
  /\ UNCHANGED <<fileVars, strandVars, serverVars, crashes>>

StartWorkers ==
  /\ main = "workers" /\ main' = "loop" /\ ioc_' = "running"
  /\ UNCHANGED <<fileVars, strand_, task, waiting, serverVars, threw, crashes>>

\* WM_EXITSIZEMOVE: the new place of the window is saved, outside the mutex.
MoveResize ==
  /\ main = "loop" /\ saving[Gui].pc = "idle" /\ Change(Gui)
  /\ UNCHANGED <<strandVars, serverVars, mainVars>>

GuiSaved ==
  /\ saving[Gui].pc \in {"saved", "failed"} /\ Returned(Gui)
  /\ UNCHANGED <<config, file, tmp, open, changes, overlapped, strandVars, serverVars, mainVars>>

\* The message loop ends between two messages.
Quit ==
  /\ main = "loop" /\ saving[Gui].pc = "idle" /\ main' = "layers"
  /\ UNCHANGED <<fileVars, strandVars, serverVars, threw, crashes>>
-----------------------------------------------------------------------------
\* shutdown(), called by run() or by the destructor.
Passes(step) == main = step /\ main' = after[step] /\ UNCHANGED <<threw, crashes>>

\* dns_mgr_ down to wd_network_, and the acceptor.
CloseLayers ==
  /\ Passes("layers") \/ Passes("acceptor")
  /\ UNCHANGED <<fileVars, strandVars, serverVars>>

\* api_server_.stop(): no new requests, and the thread of the server is joined, which
\* waits for the pool.
StopListening ==
  /\ main = "api" /\ running_ /\ running_' = FALSE /\ listening' = "no"
  /\ UNCHANGED <<fileVars, strandVars, handler, acked, mainVars>>

ServerJoined ==
  /\ ~running_ /\ Passes("api") /\ handler = Answered /\ listening' = "no"
  /\ UNCHANGED <<fileVars, strandVars, running_, handler, acked>>

StopIoc ==
  /\ Passes("ioc") /\ ioc_' = "stopped"
  /\ UNCHANGED <<fileVars, strand_, task, waiting, serverVars>>

\* A worker finishes the task it is in.
JoinWorkers ==
  /\ Passes("join") /\ task = None /\ UNCHANGED <<fileVars, strandVars, serverVars>>

\* tree_mgr_.stop(); the tasks that are left go with the io_context.
Exit ==
  /\ Passes("tree") /\ strand_' = <<>>
  /\ UNCHANGED <<fileVars, ioc_, task, waiting, serverVars>>

Crash ==
  /\ main # "off" /\ crashes < MaxCrashes /\ crashes' = crashes + 1
  /\ main' = "off" /\ threw' = FALSE
  /\ open' = {} /\ saving' = NotSaving
  /\ strand_' = <<>> /\ task' = None /\ waiting' = {} /\ ioc_' = "stopped"
  /\ listening' = "no" /\ running_' = FALSE /\ handler' = Answered
  /\ UNCHANGED <<config, file, tmp, changes, overlapped, acked>>

Saving == \E s \in Savers : SaveStep(s) /\ UNCHANGED <<strandVars, serverVars, mainVars>>
Strand == (RunTask \/ FinishTask) /\ UNCHANGED <<fileVars, serverVars, mainVars>>
Requests == \E t \in Threads : (Ask(t) \/ Mutate(t) \/ Browse(t)) /\ UNCHANGED mainVars
Handling == \E t \in Threads : (Saved(t) \/ Answer(t)) /\ UNCHANGED mainVars
User == \E t \in Threads : DialogClosed(t) /\ UNCHANGED mainVars

Startup == Launch \/ StartApi \/ BindFailsLate \/ ApplyDns \/ StartWorkers
Shutdown ==
  CloseLayers \/ StopListening \/ ServerJoined \/ StopIoc \/ JoinWorkers \/ Exit

Next ==
  \/ Startup \/ Shutdown \/ Crash \/ MoveResize \/ GuiSaved \/ Quit
  \/ Saving \/ Strand \/ Requests \/ Handling \/ User

Spec == Init /\ [][Next]_vars

\* Threads run.  Nobody makes the user launch the program, quit it or close a dialog.
FairSpec ==
  /\ Spec
  /\ WF_vars(Shutdown) /\ WF_vars(Saving) /\ WF_vars(Strand) /\ WF_vars(Handling)
-----------------------------------------------------------------------------
\* What a client was told is saved is in the file, and the file is one that load() can
\* parse, wherever the process dies and whichever save fails (save(): "avoids leaving a
\* half-written config on disk"), unless the window saved at the same time as a request.
AckedSurvives ==
  ~overlapped => /\ file \notin {Partial, Torn}
                 /\ acked > 0 => file >= acked

\* A shutdown once begun ends with the process: no request waits for a task that nobody
\* runs, whatever was being handled.  Two things stand in its way: a dialog the user
\* leaves open, and a request that came while the start was failing for another reason
\* than the server's, before there were workers.
ShutdownCompletes ==
  []<>(main \in Stopping => \/ \E t \in Threads : handler[t] = "dialog"
                            \/ threw /\ waiting # {})
=============================================================================
