----------------------------- MODULE WebviewApp -----------------------------
(***************************************************************************)
(* ui/webview_app.hpp: the window, its tray icon and its WebView2          *)
(* controller, all on the UI thread, with Explorer, the WebView2 runtime   *)
(* and the page as the code meets them.  The controller is created by two  *)
(* asynchronous calls, each of which may fail; the page tells the host     *)
(* that it is ready when it has mounted and whenever it becomes visible.   *)
(* MessageBoxW, which lets the UI thread handle messages inside a          *)
(* completion callback, is left out.                                       *)
(***************************************************************************)
EXTENDS Integers, Sequences

CONSTANTS
  TRAY_MAX_RETRIES,
  MaxHides,        \* bound on how often the window is hidden or minimized
  MaxCrashes,      \* bound on crashes of Explorer
  close_to_tray_

ASSUME WindowAssumption ==
  TRAY_MAX_RETRIES \in Nat /\ MaxHides \in Nat /\ MaxCrashes \in Nat
  /\ close_to_tray_ \in BOOLEAN

VARIABLES
  hwnd,               \* "shown", "minimized", "hidden" or "destroyed"
  currently_visible_,
  blank,              \* a second launch has shown the window behind the host's back
  hides,
  shell,              \* Explorer: is the taskbar there, was it broadcast, crashes
  icon,               \* the taskbar has the icon
  tray,               \* tray_created_, tray_retry_count_ and the retry timer
  wv,                 \* wv_state_, the call under way, wv_retry_count_, the retry timer
  IsVisible,          \* of the controller
  page,               \* "none", "loading" or "mounted"
  page_sees,          \* document.visibilityState, as far as the page knows
  seeing,             \* changes of it on their way to the page
  ready,              \* ready messages on their way to the host
  posted,             \* WM_PUSH_TO_FRONTEND in the message queue: versions
  page_tree,          \* the version the page shows; -1: none
  lost                \* the last push found the message queue full

trayVars == <<shell, icon, tray>>
pageVars == <<page, page_sees, seeing, ready, page_tree>>
pushVars == <<posted, lost>>
showVars == <<hwnd, currently_visible_, blank, hides>>
windowVars == <<showVars, trayVars, wv, IsVisible, pageVars, pushVars>>

Alive == hwnd # "destroyed"
Uncreated == [created |-> FALSE, retries |-> 0, timer |-> FALSE]
NotStarted == [state |-> "not_started", call |-> "none", retried |-> FALSE, timer |-> FALSE]
-----------------------------------------------------------------------------
\* NIM_ADD, then NIM_MODIFY: both fail as long as the shell is not ready.
create_tray_icon(t) ==
  IF t.created THEN t
  ELSE IF shell.up THEN [Uncreated EXCEPT !.created = TRUE]
  ELSE IF t.retries < TRAY_MAX_RETRIES THEN [t EXCEPT !.retries = @ + 1, !.timer = TRUE]
  ELSE t

Register(t) ==
  /\ tray' = create_tray_icon(t)
  /\ icon' = (icon \/ (shell.up /\ ~t.created)) /\ UNCHANGED shell

\* on_webview_failure(): one retry by timer, unless it cannot help.
on_webview_failure(w, retryable) ==
  LET f == [w EXCEPT !.state = "failed", !.call = "none"]
  IN IF retryable /\ ~w.retried THEN [f EXCEPT !.retried = TRUE, !.timer = TRUE] ELSE f

\* What ensure_webview_initialized() may leave: the call that creates the environment
\* under way, or failed at once.
ensure_webview_initialized(w) ==
  IF w.state \in {"in_progress", "ready"} THEN {w}
  ELSE LET started == [w EXCEPT !.state = "in_progress", !.call = "environment"]
       IN {started, on_webview_failure(started, TRUE), on_webview_failure(started, FALSE)}

\* put_IsVisible() and the page that hears of it.
put_IsVisible(v) ==
  /\ IsVisible' = (IF wv.state = "ready" THEN v ELSE IsVisible)
  /\ seeing' = (IF page = "mounted" THEN Append(seeing, v) ELSE seeing)

set_visible(v) ==
  IF currently_visible_ = v THEN UNCHANGED <<currently_visible_, IsVisible, seeing>>
  ELSE currently_visible_' = v /\ put_IsVisible(v)

\* create(): the tray icon at once, the controller only if the window is shown.
WindowInit ==
  /\ \E minimized \in BOOLEAN, up \in BOOLEAN :
       /\ hwnd = (IF minimized THEN "hidden" ELSE "shown")
       /\ currently_visible_ = ~minimized
       /\ shell = [up |-> up, broadcast |-> FALSE, crashes |-> 0]
       /\ tray = create_tray_icon(Uncreated) /\ icon = up
       /\ IF minimized THEN wv = NotStarted
          ELSE wv \in ensure_webview_initialized(NotStarted)
  /\ blank = FALSE /\ hides = 0 /\ IsVisible = FALSE
  /\ page = "none" /\ page_sees = FALSE /\ seeing = <<>> /\ ready = 0
  /\ posted = <<>> /\ page_tree = -1 /\ lost = FALSE
-----------------------------------------------------------------------------
\* The user and the window.
ToSight(h, v) ==
  /\ Alive /\ hwnd' = h /\ set_visible(v)
  /\ UNCHANGED <<trayVars, page, page_sees, ready, page_tree, pushVars>>

\* WM_SIZE with SIZE_MINIMIZED, and with SIZE_RESTORED.
Minimize ==
  /\ hwnd = "shown" /\ hides < MaxHides /\ hides' = hides + 1
  /\ ToSight("minimized", FALSE) /\ UNCHANGED <<blank, wv>>

Restore ==
  /\ hwnd = "minimized" /\ ToSight("shown", TRUE)
  /\ UNCHANGED <<blank, hides, wv>>

\* WM_CLOSE with close_to_tray_.
CloseToTray ==
  /\ close_to_tray_ /\ hwnd = "shown" /\ hides < MaxHides /\ hides' = hides + 1
  /\ ToSight("hidden", FALSE) /\ UNCHANGED <<blank, wv>>

\* Mutant: the controller is left to somebody else.
Mut_shown(w) == {w}
shown(w) == ensure_webview_initialized(w)

\* restore_window(), from the tray icon or its menu.
RestoreWindow ==
  /\ icon /\ tray.created /\ ToSight("shown", TRUE)
  /\ wv' \in shown(wv) /\ blank' = FALSE /\ UNCHANGED hides

\* A second launch shows the window of the first from outside: a minimized one gets a
\* WM_SIZE, a hidden one is shown and nothing else.
Relaunch ==
  \/ Restore
  \/ /\ hwnd = "hidden" /\ hwnd' = "shown" /\ blank' = TRUE
     /\ UNCHANGED <<currently_visible_, hides, trayVars, wv, IsVisible, pageVars, pushVars>>

\* WM_CLOSE without close_to_tray_, or Exit in the tray menu.
Destroy ==
  /\ Alive /\ (close_to_tray_ \/ hwnd # "shown" => icon /\ tray.created)
  /\ hwnd' = "destroyed"
  /\ icon' = (icon /\ ~tray.created) /\ tray' = Uncreated
  /\ wv' = [wv EXCEPT !.timer = FALSE, !.call = "none"]
  /\ page' = "none" /\ seeing' = <<>> /\ ready' = 0 /\ posted' = <<>>
  /\ UNCHANGED <<currently_visible_, blank, hides, shell, IsVisible, page_sees, page_tree,
                 lost>>
-----------------------------------------------------------------------------
\* The tray icon and Explorer.
ShellStarts ==
  /\ ~shell.up /\ shell' = [shell EXCEPT !.up = TRUE, !.broadcast = Alive]
  /\ UNCHANGED <<showVars, icon, tray, wv, IsVisible, pageVars, pushVars>>

ShellCrashes ==
  /\ shell.up /\ shell.crashes < MaxCrashes
  /\ shell' = [shell EXCEPT !.up = FALSE, !.crashes = @ + 1] /\ icon' = FALSE
  /\ UNCHANGED <<showVars, tray, wv, IsVisible, pageVars, pushVars>>

TrayTimer ==
  /\ Alive /\ tray.timer /\ Register([tray EXCEPT !.timer = FALSE])
  /\ UNCHANGED <<showVars, wv, IsVisible, pageVars, pushVars>>

\* Mutant: the icon is taken to be still there.
Mut_forgotten(t) == t
forgotten(t) == [t EXCEPT !.created = FALSE, !.retries = 0]

TaskbarCreated ==
  /\ Alive /\ shell.broadcast
  /\ tray' = create_tray_icon(forgotten(tray))
  /\ icon' = (icon \/ (shell.up /\ ~forgotten(tray).created))
  /\ shell' = [shell EXCEPT !.broadcast = FALSE]
  /\ wv' \in (IF wv.state = "failed" THEN ensure_webview_initialized(wv) ELSE {wv})
  /\ UNCHANGED <<showVars, IsVisible, pageVars, pushVars>>
-----------------------------------------------------------------------------
\* The completion handlers.  A controller that the runtime refuses at once is reported
\* to nobody.
EnvironmentCompleted ==
  /\ Alive /\ wv.call = "environment"
  /\ wv' \in {on_webview_failure(wv, TRUE), on_webview_failure(wv, FALSE),
              [wv EXCEPT !.call = "controller"], [wv EXCEPT !.call = "none"]}
  /\ UNCHANGED <<showVars, trayVars, IsVisible, pageVars, pushVars>>

\* Mutant: the controller keeps the visibility it is created with.
Mut_initial_visibility == TRUE
initial_visibility == currently_visible_

ControllerCompleted ==
  /\ Alive /\ wv.call = "controller"
  /\ \/ /\ wv' \in {on_webview_failure(wv, TRUE), on_webview_failure(wv, FALSE)}
        /\ UNCHANGED <<IsVisible, page>>
     \/ /\ wv' = [wv EXCEPT !.state = "ready", !.call = "none", !.retried = FALSE]
        /\ IsVisible' = initial_visibility /\ page' = "loading"
  /\ UNCHANGED <<showVars, trayVars, page_sees, seeing, ready, page_tree, pushVars>>

WvRetryTimer ==
  /\ Alive /\ wv.timer
  /\ wv' \in ensure_webview_initialized([wv EXCEPT !.timer = FALSE])
  /\ UNCHANGED <<showVars, trayVars, IsVisible, pageVars, pushVars>>
-----------------------------------------------------------------------------
\* The page: notify.ts says ready once, App.vue whenever it becomes visible.
PageMounts ==
  /\ page = "loading" /\ page' = "mounted"
  /\ page_sees' = IsVisible /\ ready' = ready + 1
  /\ UNCHANGED <<showVars, trayVars, wv, IsVisible, seeing, page_tree, pushVars>>

PageSees ==
  /\ seeing # <<>> /\ seeing' = Tail(seeing) /\ page_sees' = Head(seeing)
  /\ ready' = ready + (IF Head(seeing) /\ ~page_sees THEN 1 ELSE 0)
  /\ UNCHANGED <<showVars, trayVars, wv, IsVisible, page, page_tree, pushVars>>

\* The ready message reaches the host, which asks for a replay.
WebMessageReceived ==
  /\ Alive /\ ready > 0 /\ ready' = ready - 1
  /\ UNCHANGED <<showVars, trayVars, wv, IsVisible, page, page_sees, seeing, page_tree, pushVars>>

\* push(), on any thread: PostMessageW may fail, and the payload is dropped.
push(v) ==
  \/ Alive /\ posted' = Append(posted, v) /\ lost' = FALSE
  \/ posted' = posted /\ lost' = TRUE

\* on_push_to_frontend(): without a page to hear it the message is dropped.
PushToFrontend ==
  /\ Alive /\ posted # <<>> /\ posted' = Tail(posted)
  /\ page_tree' = (IF page = "mounted" THEN Head(posted) ELSE page_tree)
  /\ UNCHANGED <<showVars, trayVars, wv, IsVisible, page, page_sees, seeing, ready, lost>>
=============================================================================
