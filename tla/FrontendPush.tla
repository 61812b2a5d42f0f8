---------------------------- MODULE FrontendPush ----------------------------
(***************************************************************************)
(* The way of a change of the process tree to the user's eyes: the         *)
(* projection on the strand pushes snapshots, the window marshals them to  *)
(* the page, and tells the projection when it need not bother.  app.cpp    *)
(* wires the two with the callbacks on_visibility_change_ and on_ready_.   *)
(***************************************************************************)
EXTENDS ProcessProjection, WebviewApp

vars == <<projectionVars, windowVars>>

TypeOK ==
  /\ tree \in 0 .. MaxChanges /\ snapshot_ \in -1 .. tree /\ page_tree \in -1 .. tree
  /\ hwnd \in {"shown", "minimized", "hidden", "destroyed"}
  /\ wv.state \in {"not_started", "in_progress", "ready", "failed"}
  /\ wv.call \in {"none", "environment", "controller"}
  /\ tray.retries \in 0 .. TRAY_MAX_RETRIES
  /\ seeing \in Seq(BOOLEAN) /\ posted \in Seq(0 .. MaxChanges)

Init == ProjectionInit /\ WindowInit

\* set_visible() calls the projection back when the visibility changes.
on_visibility_change == frontend_visible_' = (IF currently_visible_' # currently_visible_
                                              THEN currently_visible_' ELSE frontend_visible_)

\* Steps of the UI thread that may change the visibility.
Sight ==
  /\ Minimize \/ Restore \/ CloseToTray \/ RestoreWindow \/ Relaunch
  /\ on_visibility_change
  /\ UNCHANGED <<tree, snapshot_, timerVars, replays>>

\* The frontend is ready: replay_to_frontend() posts a replay to the strand.
OnReady ==
  /\ WebMessageReceived /\ replays' = replays + 1
  /\ UNCHANGED <<tree, snapshot_, frontend_visible_, timerVars>>

\* Strand tasks that push the snapshot they have made.
Push ==
  /\ ImmediateChange \/ Flush \/ Replay
  /\ push(snapshot_')
  /\ UNCHANGED <<showVars, trayVars, wv, IsVisible, pageVars>>

Quiet == (DropChange \/ BatchedChange \/ Expire \/ FlushAborted) /\ UNCHANGED windowVars

Window ==
  /\ \/ Destroy \/ ShellStarts \/ ShellCrashes \/ TrayTimer \/ TaskbarCreated
     \/ EnvironmentCompleted \/ ControllerCompleted \/ WvRetryTimer
     \/ PageMounts \/ PageSees \/ PushToFrontend
  /\ UNCHANGED projectionVars

Next == Sight \/ OnReady \/ Push \/ Quiet \/ Window

Spec == Init /\ [][Next]_vars

\* The strand and the message loop handle whatever is queued, timers expire, and the
\* page loads and hears what it is sent.  The user, Explorer and the runtime need not do
\* anything; neither do processes.
FairSpec ==
  /\ Spec
  /\ WF_vars(OnReady) /\ WF_vars((Flush \/ Replay) /\ Push)
  /\ WF_vars((Expire \/ FlushAborted) /\ Quiet)
  /\ WF_vars((TrayTimer \/ TaskbarCreated) /\ Window)
  /\ WF_vars((PageMounts \/ PageSees) /\ Window) /\ WF_vars(PushToFrontend /\ Window)
-----------------------------------------------------------------------------
\* The gate of the projection agrees with what the WebView2 controller was told last,
\* whatever happened to the window while the controller was being created; a window
\* created hidden tells the projection nothing until it is first shown.
GateMatches ==
  Alive /\ wv.state = "ready" =>
    /\ IsVisible = currently_visible_
    /\ frontend_visible_ = currently_visible_

\* A window the user looks at has been marked visible and has a controller, or one in
\* the making, or has failed to get one, unless a second launch showed it.
ShowHasController ==
  hwnd = "shown" /\ ~blank => currently_visible_ /\ wv.state # "not_started"

\* Whoever looks at the page sees the latest tree in the end, although changes are
\* dropped while the window is away and pushes while the page is loading, and whatever
\* becomes of the pending flush.  A push that found the message queue full is not
\* repeated before the next change.
ShowsLatest ==
  []<>(hwnd = "shown" /\ currently_visible_ /\ page = "mounted" /\ ~lost => page_tree = tree)

\* A taskbar that is there gets the icon, after a late start of the shell as after a
\* crash of Explorer.
TrayComesBack == []<>(Alive /\ shell.up => icon)
=============================================================================
