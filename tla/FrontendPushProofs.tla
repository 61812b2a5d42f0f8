------------------------- MODULE FrontendPushProofs -------------------------
(***************************************************************************)
(* GateMatches and ShowHasController, for any number of changes, hides,    *)
(* crashes and retries.  What they rest on: the projection never believes  *)
(* the window less visible than it is, and agrees with it from the moment  *)
(* a controller was first asked for; a call or a retry is under way only   *)
(* after that moment; and a minimized window was in sight before.          *)
(***************************************************************************)
EXTENDS FrontendPush, TLAPS

Controllers == [state : {"not_started", "in_progress", "ready", "failed"},
                call : {"none", "environment", "controller"},
                retried : BOOLEAN, timer : BOOLEAN]

\* A call is under way only in "in_progress", a retry only once something has failed.
Linked(w) ==
  /\ w.call # "none" => w.state = "in_progress"
  /\ w.timer => w.state # "not_started"

Started == wv.state # "not_started"

Types ==
  /\ wv \in Controllers /\ Linked(wv)
  /\ hwnd \in {"shown", "minimized", "hidden", "destroyed"}
  /\ currently_visible_ \in BOOLEAN /\ frontend_visible_ \in BOOLEAN

Gate ==
  /\ currently_visible_ => frontend_visible_
  /\ Started => frontend_visible_ = currently_visible_
  /\ wv.state = "ready" => IsVisible = currently_visible_

Sighted ==
  /\ hwnd = "shown" /\ ~blank => currently_visible_
  /\ hwnd \in {"shown", "minimized"} /\ ~blank => Started

IInv == Types /\ Gate /\ Sighted
-----------------------------------------------------------------------------
\* What the operators on wv leave.
LEMMA FailureLeaves ==
  ASSUME NEW w \in Controllers, NEW r \in BOOLEAN
  PROVE  /\ on_webview_failure(w, r) \in Controllers
         /\ Linked(on_webview_failure(w, r))
         /\ on_webview_failure(w, r).state = "failed"
<1> DEFINE f == [w EXCEPT !.state = "failed", !.call = "none"]
<1>1. f \in Controllers /\ f.state = "failed" /\ f.call = "none" BY DEF Controllers
<1> HIDE DEF f
<1> DEFINE g == [f EXCEPT !.retried = TRUE, !.timer = TRUE]
<1>2. g \in Controllers /\ g.state = "failed" /\ g.call = "none" BY <1>1 DEF Controllers
<1>3. on_webview_failure(w, r) \in {f, g} BY DEF on_webview_failure, f
<1> HIDE DEF g
<1> QED BY <1>1, <1>2, <1>3 DEF Linked

LEMMA EnsureLeaves ==
  ASSUME NEW w \in Controllers, Linked(w), NEW x \in ensure_webview_initialized(w)
  PROVE  /\ x \in Controllers /\ Linked(x)
         /\ x.state # "not_started" /\ (x.state = "ready" => w.state = "ready")
<1>1. CASE w.state \in {"in_progress", "ready"} BY <1>1 DEF ensure_webview_initialized
<1>2. CASE w.state \notin {"in_progress", "ready"}
  <2> DEFINE s == [w EXCEPT !.state = "in_progress", !.call = "environment"]
  <2>1. s \in Controllers /\ s.state = "in_progress" BY DEF Controllers
  <2>2. x \in {s, on_webview_failure(s, TRUE), on_webview_failure(s, FALSE)}
    BY <1>2 DEF ensure_webview_initialized
  <2> HIDE DEF s
  <2>3. Linked(s) BY <2>1 DEF Linked
  <2> QED BY <2>1, <2>2, <2>3, FailureLeaves
<1> QED BY <1>1, <1>2

LEMMA Initially == Init => IInv
<1> SUFFICES ASSUME Init PROVE IInv OBVIOUS
<1> USE DEF Init, ProjectionInit, WindowInit
<1>1. NotStarted \in Controllers /\ Linked(NotStarted) /\ NotStarted.state = "not_started"
  BY DEF NotStarted, Controllers, Linked
<1>2. CASE hwnd = "hidden" /\ ~currently_visible_ /\ wv = NotStarted
  BY <1>1, <1>2 DEF IInv, Types, Gate, Sighted, Started
<1>3. CASE hwnd = "shown" /\ currently_visible_ /\ wv \in ensure_webview_initialized(NotStarted)
  <2>1. wv \in Controllers /\ Linked(wv) /\ wv.state \notin {"not_started", "ready"}
    BY <1>1, <1>3, EnsureLeaves
  <2>2. currently_visible_ = TRUE BY <1>3
  <2> QED BY <1>3, <2>1, <2>2 DEF IInv, Types, Gate, Sighted, Started
<1>4. PICK minimized \in BOOLEAN :
        /\ hwnd = (IF minimized THEN "hidden" ELSE "shown") /\ currently_visible_ = ~minimized
        /\ IF minimized THEN wv = NotStarted ELSE wv \in ensure_webview_initialized(NotStarted)
  OBVIOUS
<1> QED BY <1>2, <1>3, <1>4
-----------------------------------------------------------------------------
LEMMA KeptElsewhere ==
  ASSUME IInv, UNCHANGED <<showVars, wv, IsVisible, frontend_visible_>>
  PROVE  IInv'
BY DEF IInv, Types, Gate, Sighted, Started, Linked, showVars

\* set_visible() with its callback: the gate holds for the controller there was.
LEMMA SightMoves ==
  ASSUME IInv, NEW h \in {"shown", "minimized", "hidden"}, NEW v \in BOOLEAN,
         ToSight(h, v), on_visibility_change
  PROVE  /\ hwnd' = h /\ currently_visible_' = v /\ frontend_visible_' \in BOOLEAN
         /\ currently_visible_' => frontend_visible_'
         /\ Started => frontend_visible_' = currently_visible_'
         /\ wv.state = "ready" => IsVisible' = currently_visible_'
<1>1. CASE currently_visible_ = v
  BY <1>1 DEF ToSight, set_visible, on_visibility_change, IInv, Types, Gate, Started
<1>2. CASE currently_visible_ # v
  BY <1>2 DEF ToSight, set_visible, put_IsVisible, on_visibility_change, IInv, Types
<1> QED BY <1>1, <1>2

LEMMA KeptByHiding ==
  ASSUME IInv, NEW h \in {"minimized", "hidden"}, hwnd = "shown", ToSight(h, FALSE),
         on_visibility_change, UNCHANGED <<blank, wv>>
  PROVE  IInv'
BY SightMoves DEF IInv, Types, Gate, Sighted, Started, Linked

LEMMA KeptByRestore ==
  ASSUME IInv, Restore, on_visibility_change
  PROVE  IInv'
BY SightMoves DEF Restore, IInv, Types, Gate, Sighted, Started, Linked

LEMMA KeptByRestoreWindow ==
  ASSUME IInv, RestoreWindow, on_visibility_change
  PROVE  IInv'
<1>1. wv' \in Controllers /\ Linked(wv)' /\ Started' /\ (wv'.state = "ready" => wv.state = "ready")
  BY EnsureLeaves DEF RestoreWindow, shown, IInv, Types, Started, Linked
<1>2. /\ hwnd' = "shown" /\ currently_visible_' = TRUE /\ frontend_visible_' = TRUE
      /\ wv.state = "ready" => IsVisible' = TRUE
  BY SightMoves DEF RestoreWindow
<1> QED BY <1>1, <1>2 DEF IInv, Types, Gate, Sighted

LEMMA KeptByRelaunch ==
  ASSUME IInv, Relaunch, on_visibility_change
  PROVE  IInv'
<1>1. CASE Restore BY <1>1, KeptByRestore
<1>2. CASE ~Restore
  <2>1. /\ hwnd' = "shown" /\ blank' = TRUE
        /\ UNCHANGED <<currently_visible_, wv, IsVisible, frontend_visible_>>
    BY <1>2 DEF Relaunch, on_visibility_change
  <2> QED BY <2>1 DEF IInv, Types, Gate, Sighted, Started, Linked
<1> QED BY <1>1, <1>2

\* The window, the visibility and the projection stay; the controller is or was asked for.
LEMMA KeptByController ==
  ASSUME IInv, UNCHANGED <<showVars, frontend_visible_>>, Started,
         wv' \in Controllers, Linked(wv'), wv'.state # "not_started",
         wv'.state = "ready" => IsVisible' = currently_visible_
  PROVE  IInv'
BY DEF IInv, Types, Gate, Sighted, Started, Linked, showVars

LEMMA KeptByDestroy ==
  ASSUME IInv, Destroy, UNCHANGED frontend_visible_
  PROVE  IInv'
<1>1. wv' \in Controllers BY DEF Destroy, IInv, Types, Controllers
<1>2. wv'.state = wv.state /\ wv'.call = "none" /\ wv'.timer = FALSE
  BY DEF Destroy, IInv, Types, Controllers
<1> QED BY <1>1, <1>2 DEF Destroy, IInv, Types, Gate, Sighted, Started, Linked

LEMMA KeptByTaskbarCreated ==
  ASSUME IInv, TaskbarCreated, UNCHANGED frontend_visible_
  PROVE  IInv'
<1>1. CASE wv' = wv BY <1>1, KeptElsewhere DEF TaskbarCreated
<1>2. CASE wv.state = "failed" /\ wv' \in ensure_webview_initialized(wv)
  <2>1. wv' \in Controllers /\ Linked(wv') /\ wv'.state \notin {"not_started", "ready"}
    BY <1>2, EnsureLeaves DEF IInv, Types
  <2> QED BY <1>2, <2>1, KeptByController DEF TaskbarCreated, Started
<1> QED BY <1>1, <1>2 DEF TaskbarCreated

LEMMA KeptByEnvironmentCompleted ==
  ASSUME IInv, EnvironmentCompleted, UNCHANGED frontend_visible_
  PROVE  IInv'
<1>1. wv \in Controllers /\ wv.state = "in_progress" BY DEF EnvironmentCompleted, IInv, Types, Linked
<1>2. ASSUME NEW c \in {"none", "controller"}, wv' = [wv EXCEPT !.call = c]
      PROVE  wv' \in Controllers /\ Linked(wv') /\ wv'.state = "in_progress"
  BY <1>1, <1>2 DEF Controllers, Linked
<1>3. wv' \in Controllers /\ Linked(wv') /\ wv'.state \in {"in_progress", "failed"}
  BY <1>1, <1>2, FailureLeaves DEF EnvironmentCompleted
<1> QED BY <1>1, <1>3, KeptByController DEF EnvironmentCompleted, Started

LEMMA KeptByControllerCompleted ==
  ASSUME IInv, ControllerCompleted, UNCHANGED frontend_visible_
  PROVE  IInv'
<1>1. wv \in Controllers /\ wv.state = "in_progress" BY DEF ControllerCompleted, IInv, Types, Linked
<1>2. CASE wv' \in {on_webview_failure(wv, TRUE), on_webview_failure(wv, FALSE)}
  <2>1. wv' \in Controllers /\ Linked(wv') /\ wv'.state = "failed" BY <1>1, <1>2, FailureLeaves
  <2> QED BY <1>1, <2>1, KeptByController DEF ControllerCompleted, Started
<1>3. CASE /\ wv' = [wv EXCEPT !.state = "ready", !.call = "none", !.retried = FALSE]
           /\ IsVisible' = initial_visibility
  <2>1. wv' \in Controllers /\ wv'.state = "ready" /\ wv'.call = "none"
    BY <1>1, <1>3 DEF Controllers
  <2>2. Linked(wv') BY <2>1 DEF Linked
  <2> QED BY <1>1, <1>3, <2>1, <2>2, KeptByController
          DEF ControllerCompleted, Started, initial_visibility
<1> QED BY <1>2, <1>3 DEF ControllerCompleted

LEMMA KeptByWvRetryTimer ==
  ASSUME IInv, WvRetryTimer, UNCHANGED frontend_visible_
  PROVE  IInv'
<1> DEFINE w == [wv EXCEPT !.timer = FALSE]
<1>1. w \in Controllers BY DEF IInv, Types, Controllers
<1>2. w.state = wv.state /\ w.call = wv.call /\ w.timer = FALSE BY DEF IInv, Types, Controllers
<1>3. Linked(w) BY <1>2 DEF IInv, Types, Linked
<1>4. wv' \in ensure_webview_initialized(w) BY DEF WvRetryTimer
<1> HIDE DEF w
<1>5. /\ wv' \in Controllers /\ Linked(wv') /\ wv'.state # "not_started"
      /\ wv'.state = "ready" => wv.state = "ready"
  BY <1>1, <1>2, <1>3, <1>4, EnsureLeaves
<1>6. Started BY DEF WvRetryTimer, IInv, Types, Linked, Started
<1> QED BY <1>5, <1>6, KeptByController DEF WvRetryTimer, IInv, Gate
-----------------------------------------------------------------------------
LEMMA Inductive == IInv /\ [Next]_vars => IInv'
<1> SUFFICES ASSUME IInv, [Next]_vars PROVE IInv' OBVIOUS
<1>1. ASSUME Sight PROVE IInv'
  <2>1. CASE Minimize BY <1>1, <2>1, KeptByHiding DEF Sight, Minimize
  <2>2. CASE CloseToTray BY <1>1, <2>2, KeptByHiding DEF Sight, CloseToTray
  <2> QED BY <1>1, <2>1, <2>2, KeptByRestore, KeptByRestoreWindow, KeptByRelaunch DEF Sight
<1>2. ASSUME OnReady PROVE IInv'
  BY <1>2, KeptElsewhere DEF OnReady, WebMessageReceived
<1>3. ASSUME Push PROVE IInv'
  BY <1>3, KeptElsewhere DEF Push, ImmediateChange, Flush, Replay, Changed
<1>4. ASSUME Quiet PROVE IInv'
  BY <1>4, KeptElsewhere DEF Quiet, DropChange, BatchedChange, Expire, FlushAborted, Changed,
     windowVars
<1>5. ASSUME Window PROVE IInv'
  <2>1. UNCHANGED frontend_visible_ BY <1>5 DEF Window, projectionVars
  <2>2. CASE ShellStarts \/ ShellCrashes \/ TrayTimer \/ PageMounts \/ PageSees \/ PushToFrontend
    BY <2>1, <2>2, KeptElsewhere
       DEF ShellStarts, ShellCrashes, TrayTimer, PageMounts, PageSees, PushToFrontend
  <2> QED BY <1>5, <2>1, <2>2, KeptByDestroy, KeptByTaskbarCreated, KeptByEnvironmentCompleted,
            KeptByControllerCompleted, KeptByWvRetryTimer DEF Window
<1>6. ASSUME UNCHANGED vars PROVE IInv'
  BY <1>6, KeptElsewhere DEF vars, projectionVars, windowVars
<1> QED BY <1>1, <1>2, <1>3, <1>4, <1>5, <1>6 DEF Next

\* IInv is an inductive invariant of the window and its projection.
THEOREM IInvCorrect == Spec => []IInv
<1> QED BY Initially, Inductive, PTL DEF Spec

\* The gate of the projection agrees with what the controller was told last, however the
\* window was shown and hidden while webview_app created the controller.
THEOREM GateMatchesCorrect == Spec => []GateMatches
<1>1. IInv => GateMatches BY DEF IInv, Gate, Started, GateMatches
<1> QED BY <1>1, IInvCorrect, PTL

\* A window shown by restore_window(), by create() or by Windows is marked visible and
\* webview_app has asked for a controller.
THEOREM ShowHasControllerCorrect == Spec => []ShowHasController
<1>1. IInv => ShowHasController BY DEF IInv, Sighted, Started, ShowHasController
<1> QED BY <1>1, IInvCorrect, PTL
=============================================================================
