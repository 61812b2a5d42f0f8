----------------------------- MODULE DnsManager -----------------------------
(***************************************************************************)
(* core/dns_manager.hpp with its callers in app.cpp: the config observers  *)
(* (on HTTP threads), the start and the shutdown of the application (on    *)
(* the main thread), and the next start after a crash.  A call is the      *)
(* sequence of steps its branch takes; the process may die between any     *)
(* two.  Nothing locks the manager: MaxConcurrent says how many calls may  *)
(* overlap.                                                                *)
(***************************************************************************)
EXTENDS SystemDns, Sequences

CONSTANTS
  Handlers,        \* HTTP threads
  Main,            \* the main thread
  Upstreams,       \* DNS servers to forward to
  Proxies,         \* endpoints of the first proxy group
  Modes,           \* DnsConfig::mode: "forwarder" and what else may be configured
  DefaultConfig,   \* DnsConfig{}
  None,            \* no forwarder, no proxy
  MaxConcurrent,   \* bound on the calls in progress
  MaxChanges,      \* bound on the changes of the configuration
  MaxCrashes       \* bound on the crashes

Threads == Handlers \cup {Main}

\* DnsConfig, with the proxy the observer picks (pick_proxy_endpoint).  Host and
\* port of an endpoint are compared together.
Configs == [enabled : BOOLEAN, mode : Modes, listen : Listens,
            upstream : Upstreams, proxy : Proxies]

ASSUME ManagerAssumption ==
  /\ IsFiniteSet(Handlers) /\ Main \notin Handlers
  /\ None \notin Proxies
  /\ DefaultConfig \in Configs /\ ~DefaultConfig.enabled
  /\ MaxConcurrent \in Nat \ {0} /\ MaxChanges \in Nat /\ MaxCrashes \in Nat

Forwarders == [listen : Listens, upstream : Upstreams, proxy : Proxies]
StepNames == {"recover", "start", "stop", "restore", "enumerate", "save", "point",
              "adopt", "check"}

VARIABLES
  config,      \* what is configured (ConfigStore has the detail)
  cfg,         \* current_cfg_
  proxy,       \* current_proxy_host_ and current_proxy_port_
  forwarder,   \* forwarder_: what it listens on and forwards to
  modified,    \* system_dns_modified_
  originals,   \* saved_states_
  call,        \* what every thread has still to do in the manager
  life,        \* where the application is in its life
  changes,     \* changes of the configuration so far
  crashes      \* crashes so far

managerVars == <<cfg, proxy, forwarder, modified, originals>>
lifeVars == <<life, changes, crashes>>
vars == <<dnsVars, config, managerVars, call, lifeVars>>

\* A call: the steps ahead, the configuration it applies, the interfaces it works
\* on (its local copy), those the loop it is in has done and those it has set.
Idle == [steps |-> <<>>, cfg |-> DefaultConfig, local |-> NoStates, done |-> {}, set |-> {}]

TypeOK ==
  /\ DnsTypeOK
  /\ config \in Configs /\ cfg \in Configs
  /\ proxy \in Proxies \cup {None}
  /\ forwarder \in Forwarders \cup {None}
  /\ modified \in BOOLEAN
  /\ originals \in Captures
  /\ \A t \in Threads :
       /\ call[t].steps \in Seq(StepNames) /\ call[t].cfg \in Configs
       /\ call[t].local \in Captures
       /\ call[t].done \subseteq Interfaces /\ call[t].set \subseteq call[t].done
  /\ life \in {"down", "recovering", "serving", "applying", "up", "stopping", "closing"}
  /\ changes \in 0 .. MaxChanges /\ crashes \in 0 .. MaxCrashes

\* The manager of a process that has just started.
FreshManager(c, p, f, m, o) ==
  c = DefaultConfig /\ p = None /\ f = None /\ m = FALSE /\ o = NoStates

Init ==
  /\ DnsInit
  /\ config \in Configs
  /\ FreshManager(cfg, proxy, forwarder, modified, originals)
  /\ call = [t \in Threads |-> Idle]
  /\ life = "down" /\ changes = 0 /\ crashes = 0

\* ---- the steps of each operation ------------------------------------------

Wanted(c) == c.enabled /\ c.mode = "forwarder"

\* Mutant: a change of the proxy does not restart the forwarder.
Mut_TargetChanged(c) == cfg.upstream # c.upstream \/ cfg.listen # c.listen

TargetChanged(c) ==
  cfg.upstream # c.upstream \/ cfg.listen # c.listen \/ proxy # c.proxy

\* Mutant: the user's setting is not put back before the new address is set.
Mut_BothOnSteps(c) ==
  CASE cfg.listen # c.listen -> <<"stop", "start", "enumerate", "save", "point", "adopt">>
    [] cfg.listen = c.listen /\ TargetChanged(c) -> <<"stop", "start", "adopt">>
    [] OTHER -> <<"adopt">>

\* A new listen address is a new target, too.
BothOnSteps(c) ==
  CASE cfg.listen # c.listen ->
         <<"stop", "start", "restore", "enumerate", "save", "point", "adopt">>
    [] cfg.listen = c.listen /\ TargetChanged(c) -> <<"stop", "start", "adopt">>
    [] OTHER -> <<"adopt">>

\* apply: the branch is chosen when the call begins.
ApplySteps(c) ==
  CASE ~cfg.enabled /\ ~Wanted(c) -> <<"adopt">>
    [] ~cfg.enabled /\ Wanted(c)  -> <<"start", "enumerate", "save", "point", "adopt">>
    [] cfg.enabled /\ ~Wanted(c)  -> <<"stop", "restore", "adopt">>
    [] cfg.enabled /\ Wanted(c)   -> BothOnSteps(c)

\* stop()
StopSteps == <<"stop", "check">>

Busy(t) == call[t].steps # <<>>
At(t, step) == Busy(t) /\ Head(call[t].steps) = step

Begun(steps, c) == [Idle EXCEPT !.steps = steps, !.cfg = c]
Room == Cardinality({t \in Threads : Busy(t)}) < MaxConcurrent

\* The call goes on with the steps given, or is over.
Goes(t, steps) ==
  call' = [call EXCEPT ![t] =
             IF steps = <<>> THEN Idle ELSE [@ EXCEPT !.steps = steps, !.done = {}, !.set = {}]]
Proceeds(t) == Goes(t, Tail(call[t].steps))

Visits(t, i) == call' = [call EXCEPT ![t].done = @ \cup {i}]

\* start_forwarder: the proxy is remembered only when the forwarder started.
StartForwarder(t) ==
  /\ At(t, "start")
  /\ LET c == call[t].cfg IN
     \E ok \in Outcomes("start") :
       /\ forwarder' = IF ok THEN [listen |-> c.listen, upstream |-> c.upstream, proxy |-> c.proxy]
                             ELSE None
       /\ proxy' = IF ok THEN c.proxy ELSE proxy
  /\ Proceeds(t)
  /\ UNCHANGED <<dnsVars, config, cfg, modified, originals, lifeVars>>

\* stop_forwarder, and the same lines of stop().
StopForwarder(t) ==
  /\ At(t, "stop")
  /\ forwarder' = None
  /\ Proceeds(t)
  /\ UNCHANGED <<dnsVars, config, cfg, proxy, modified, originals, lifeVars>>

\* set_system_dns without an active interface leaves everything alone.
Enumerate(t) ==
  /\ At(t, "enumerate")
  /\ \E states \in Captured :
       IF DOMAIN states = {}
       THEN /\ Goes(t, <<"adopt">>)
            /\ UNCHANGED originals
       ELSE /\ originals' = states
            /\ call' = [call EXCEPT ![t].steps = Tail(@), ![t].local = states]
  /\ UNCHANGED <<dnsVars, config, cfg, proxy, forwarder, modified, lifeVars>>

Save(t) ==
  /\ At(t, "save")
  /\ SaveState(originals)
  /\ Proceeds(t)
  /\ UNCHANGED <<dns, up, config, managerVars, lifeVars>>

\* The loop of set_system_dns over its copy of the interfaces.
Point(t) ==
  /\ At(t, "point")
  /\ \E i \in DOMAIN call[t].local \ call[t].done, ok \in Outcomes("set") :
       /\ SetInterfaceDns(i, call[t].cfg.listen, ok)
       /\ call' = [call EXCEPT ![t].done = @ \cup {i},
                               ![t].set = IF ok THEN @ \cup {i} ELSE @]
  /\ UNCHANGED <<up, file, config, managerVars, lifeVars>>

\* Its end: when no interface could be set the state file is deleted again.
PointDone(t) ==
  /\ At(t, "point") /\ call[t].done = DOMAIN call[t].local
  /\ modified' = (call[t].set # {})
  /\ IF call[t].set = {} THEN DeleteState /\ originals' = NoStates
                         ELSE UNCHANGED <<file, originals>>
  /\ Proceeds(t)
  /\ UNCHANGED <<dns, up, config, cfg, proxy, forwarder, lifeVars>>

\* The loop of restore_system_dns over saved_states_.
Restore(t) ==
  /\ At(t, "restore")
  /\ \E i \in DOMAIN originals \ call[t].done :
       RestoreInterfaceDns(i, originals[i]) /\ Visits(t, i)
  /\ UNCHANGED <<up, file, config, managerVars, lifeVars>>

\* Its end, whatever became of the interfaces.
RestoreDone(t) ==
  /\ At(t, "restore") /\ DOMAIN originals \subseteq call[t].done
  /\ DeleteState
  /\ originals' = NoStates /\ modified' = FALSE
  /\ Proceeds(t)
  /\ UNCHANGED <<dns, up, config, cfg, proxy, forwarder, lifeVars>>

\* The last statement of every branch of apply.
Adopt(t) ==
  /\ At(t, "adopt")
  /\ cfg' = call[t].cfg
  /\ Proceeds(t)
  /\ UNCHANGED <<dnsVars, config, proxy, forwarder, modified, originals, lifeVars>>

\* stop() restores system DNS only when it was modified.
CheckModified(t) ==
  /\ At(t, "check")
  /\ Goes(t, IF modified THEN <<"restore">> ELSE <<>>)
  /\ UNCHANGED <<dnsVars, config, managerVars, lifeVars>>

\* recover_crash_state: every interface of the file, then the file.
Recover(t) ==
  /\ At(t, "recover")
  /\ \E i \in DOMAIN call[t].local \ call[t].done :
       RestoreInterfaceDns(i, call[t].local[i]) /\ Visits(t, i)
  /\ UNCHANGED <<up, file, config, managerVars, lifeVars>>

\* Mutant: recovery ends with the first interface.
Mut_RecoverDone(t) ==
  /\ At(t, "recover") /\ call[t].done # {}
  /\ DeleteState
  /\ Proceeds(t)
  /\ UNCHANGED <<dns, up, config, managerVars, lifeVars>>

RecoverDone(t) ==
  /\ At(t, "recover") /\ call[t].done = DOMAIN call[t].local
  /\ DeleteState
  /\ Proceeds(t)
  /\ UNCHANGED <<dns, up, config, managerVars, lifeVars>>

Step(t) ==
  \/ StartForwarder(t) \/ StopForwarder(t) \/ Enumerate(t) \/ Save(t)
  \/ Point(t) \/ PointDone(t) \/ Restore(t) \/ RestoreDone(t) \/ Adopt(t)
  \/ CheckModified(t) \/ Recover(t) \/ RecoverDone(t)

\* ---- the life of the application ------------------------------------------

Begins(t, steps) == call' = [call EXCEPT ![t] = Begun(steps, config)]

\* app::app: the manager is new, and recovers what a crash has left.
Launch ==
  /\ life = "down"
  /\ life' = "recovering"
  /\ call' = [call EXCEPT ![Main] =
                IF file = NoStates THEN Idle
                ELSE [Begun(<<"recover">>, config) EXCEPT !.local = file]]
  /\ FreshManager(cfg', proxy', forwarder', modified', originals')
  /\ UNCHANGED <<dnsVars, config, changes, crashes>>

\* start_servers_and_workers: the HTTP server answers from here on.
Serve ==
  /\ life = "recovering" /\ ~Busy(Main)
  /\ life' = "serving"
  /\ UNCHANGED <<dnsVars, config, managerVars, call, changes, crashes>>

\* The initial apply.
ApplyInitial ==
  /\ life = "serving" /\ Room
  /\ life' = "applying"
  /\ Begins(Main, ApplySteps(config))
  /\ UNCHANGED <<dnsVars, config, managerVars, changes, crashes>>

Started ==
  /\ life = "applying" /\ ~Busy(Main)
  /\ life' = "up"
  /\ UNCHANGED <<dnsVars, config, managerVars, call, changes, crashes>>

\* The config observer of wire_observers: a request has changed the configuration.
Apply(h) ==
  /\ life \in {"serving", "applying", "up", "stopping"}
  /\ ~Busy(h) /\ Room /\ changes < MaxChanges
  /\ changes' = changes + 1
  /\ \E c \in Configs \ {config} :
       /\ config' = c
       /\ call' = [call EXCEPT ![h] = Begun(ApplySteps(c), c)]
  /\ UNCHANGED <<dnsVars, managerVars, life, crashes>>

\* app::shutdown: DNS first, while the HTTP server still answers.
Shutdown ==
  /\ life = "up" /\ Room
  /\ life' = "stopping"
  /\ Begins(Main, StopSteps)
  /\ UNCHANGED <<dnsVars, config, managerVars, changes, crashes>>

\* Mutant: nobody stops the manager a second time.
Mut_Close ==
  /\ life = "stopping" /\ \A t \in Threads : ~Busy(t)
  /\ life' = "closing"
  /\ UNCHANGED <<dnsVars, config, managerVars, call, changes, crashes>>

\* api_server_.stop() has waited for the HTTP threads; ~DnsManager stops again.
Close ==
  /\ life = "stopping" /\ \A t \in Threads : ~Busy(t)
  /\ life' = "closing"
  /\ Begins(Main, StopSteps)
  /\ UNCHANGED <<dnsVars, config, managerVars, changes, crashes>>

\* The process and all it has in memory are gone.
Gone ==
  /\ life' = "down"
  /\ call' = [t \in Threads |-> Idle]
  /\ FreshManager(cfg', proxy', forwarder', modified', originals')
  /\ UNCHANGED <<dnsVars, config, changes>>

Exit == life = "closing" /\ ~Busy(Main) /\ Gone /\ UNCHANGED crashes

\* The process is killed, or the machine loses power.
Crash ==
  /\ life # "down" /\ crashes < MaxCrashes
  /\ crashes' = crashes + 1
  /\ Gone

Next ==
  \/ \E t \in Threads : Step(t)
  \/ \E h \in Handlers : Apply(h)
  \/ Launch \/ Serve \/ ApplyInitial \/ Started \/ Shutdown \/ Close \/ Exit \/ Crash
  \/ LinkChange /\ UNCHANGED <<config, managerVars, call, lifeVars>>

Spec == Init /\ [][Next]_vars

\* The main thread runs on, and the user starts the application again some time.
FairSpec ==
  /\ Spec
  /\ WF_vars(Launch) /\ WF_vars(Serve)
  /\ \A t \in Threads : WF_vars(Step(t))

\* ---- properties -----------------------------------------------------------

\* The way back is on disk: the file restores the interface to the user's setting.
Safe == {i \in DOMAIN file : RestoredSetting(file[i]) = UserSetting[i]}

Promise == INSTANCE DnsPromise WITH taken <- Altered, safe <- Safe

\* The manager, crashes and all, does what DnsPromise says: no interface is set
\* before its setting is on disk (set_system_dns), and the file is not replaced or
\* deleted while an interface is still set (restore_system_dns, apply with a new
\* listen address, recover_crash_state, each cut short by a crash anywhere).
KeepsPromise == Promise!Spec

\* With nothing in progress, the forwarder, if it runs, is the one configured, and
\* an interface that was taken over points where it listens; with DNS off there is
\* neither.  apply works from differences to what it remembers (current_cfg_,
\* current_proxy_), a failed start included.
AgreesWithConfig ==
  life = "up" /\ (\A t \in Threads : ~Busy(t)) =>
    /\ forwarder # None =>
         /\ Wanted(config)
         /\ forwarder = [listen |-> config.listen, upstream |-> config.upstream,
                         proxy |-> config.proxy]
    /\ \A i \in Altered : Wanted(config) /\ dns[i] = config.listen

\* An orderly exit leaves the user's settings and no state file, even when a request
\* applied a configuration after app::shutdown had restored system DNS; and before the
\* application serves anything, what earlier crashes left is undone, a crash in the
\* middle of an earlier recovery included (recover_crash_state).
LeavesNothing == [][Exit \/ Serve => Altered = {} /\ file = NoStates]_vars

\* An interface a dead process has left taken over comes back to the user's setting
\* once the application is started again.
ComesBack == (life = "down" /\ Altered # {}) ~> (Altered = {})
=============================================================================
