---------------------------- MODULE ProcessTree ----------------------------
(***************************************************************************)
(* domain/process_tree_manager: every handler runs on the strand from its  *)
(* first line to its last, so it is one step; what interleaves is the      *)
(* order of the ETW events, the CONNECT events that resolve a PID on the   *)
(* spot, the timers and the user's commands.                               *)
(***************************************************************************)
EXTENDS RuleEngine, ConfigStore

CONSTANTS
  kMaxChainDepth, \* ancestors resolve_pid_now() walks up to
  MaxCommands     \* bound on the commands of the user

ASSUME ManagerAssumption ==
  /\ kMaxChainDepth \in Nat \ {0}
  /\ MaxCommands \in Nat

VARIABLES
  tree,         \* tree_
  rules,        \* rules_.auto_rules_
  orphans,      \* orphans_by_parent_psn_: pairs of a parent PSN and a position
  mgr,          \* "off", "starting" (session open, rundown not yet asked for), "on",
                \* or "blind" (no session)
  grace,        \* rundown_grace_timer_: "unset", "armed", "fired"
  lost_pending, \* lost_pending_
  spared,       \* ghost: processes the user has ever unhijacked
  commands      \* commands so far

managerVars == <<tree, rules, orphans, mgr, grace, lost_pending, spared, commands>>
vars == <<processVars, consumerVars, storeVars, managerVars>>

TypeOK ==
  /\ ProcessesTypeOK /\ ConsumerTypeOK
  /\ TreeType(tree, Groups)
  /\ RulesType(rules) /\ StoreTypeOK(ConfiguredRules)
  /\ orphans \subseteq PSN \X Nat
  /\ mgr \in {"off", "starting", "on", "blind"}
  /\ grace \in {"unset", "armed", "fired"}
  /\ lost_pending \in BOOLEAN
  /\ spared \subseteq PSN
  /\ commands \in 0 .. MaxCommands

InitialRules == [r \in Rules |-> [enabled |-> TRUE, excluded |-> {}, matched |-> {}]]

Init ==
  /\ ProcessesInit /\ ConsumerInit
  /\ tree = EmptyTree
  /\ rules = InitialRules /\ StoreInit(InitialRules)
  /\ orphans = {}
  /\ mgr = "off" /\ grace = "unset" /\ lost_pending = FALSE
  /\ spared = {} /\ commands = 0

\* Inserting a process -------------------------------------------------------

\* The handlers pass the manager's state along as one value.
state == [tree |-> tree, rules |-> rules, orphans |-> orphans]
Becomes(m) == tree' = m.tree /\ rules' = m.rules /\ orphans' = m.orphans

\* Mutant: whoever holds the parent's PID is taken for the parent.
Mut_link_by_pid(m, s, parent_pid, parent_psn) ==
  IF parent_psn = NONE THEN [m EXCEPT !.tree = mark_root(@, {s})]
  ELSE IF find_by_pid(m.tree, parent_pid) # NONE
       THEN [m EXCEPT !.tree = attach_child(@, find_by_pid(m.tree, parent_pid), {s})]
       ELSE [m EXCEPT !.orphans = @ \cup {<<parent_psn, Len(m.tree.entries)>>}]

\* link_or_orphan(): an orphan is remembered by its position in entries_.
link_or_orphan(m, s, parent_pid, parent_psn) ==
  IF parent_psn = NONE THEN [m EXCEPT !.tree = mark_root(@, {s})]
  ELSE IF find_by_pid_psn(m.tree, parent_pid, parent_psn)
       THEN [m EXCEPT !.tree = attach_child(@, parent_psn, {s})]
       ELSE [m EXCEPT !.orphans = @ \cup {<<parent_psn, Len(m.tree.entries)>>}]

\* The live entries at the positions the waiting orphans were left at.
waiting(m, pairs) ==
  {m.tree.entries[o[2]] : o \in {x \in pairs : x[2] \in DOMAIN m.tree.entries}} \ {NONE}

\* Mutant: the orphans are dropped without being attached.
Mut_drain_orphans_for(m, s) == [m EXCEPT !.orphans = {o \in @ : o[1] # s}]

\* drain_orphans_for()
drain_orphans_for(m, s) ==
  LET mine == {o \in m.orphans : o[1] = s}
  IN [m EXCEPT !.tree = attach_child(@, s, waiting(m, mine)), !.orphans = @ \ mine]

\* Mutant: the rules do not forget the PID's former owner.
Mut_forget_owner(m, p) == m.rules
\* The rules forget whoever held the PID before the entry is overwritten.
forget_owner(m, p) ==
  IF find_by_pid(m.tree, p) # NONE THEN on_process_exit(m.rules, p) ELSE m.rules

\* handle_start_or_rundown()
handle_start(m, s, parent_pid, parent_psn) ==
  IF find_by_pid_psn(m.tree, pid_of[s], s) THEN m
  ELSE LET added   == [m EXCEPT !.rules = forget_owner(m, pid_of[s]),
                                !.tree = add_entry(@, s, parent_pid, parent_psn)]
           linked  == drain_orphans_for(link_or_orphan(added, s, parent_pid, parent_psn), s)
           matched == on_process_start(linked.tree, linked.rules, s)
       IN [tree |-> matched.tree, rules |-> matched.rules, orphans |-> linked.orphans]

\* ETW events ----------------------------------------------------------------

HandleStart ==
  /\ event_record_callback({"START", "RUNDOWN"})
  /\ LET s == Head(etw).psn
     IN Becomes(handle_start(state, s, parent_pid_of(s), parent_of[s]))
  /\ UNCHANGED <<storeVars, mgr, grace, lost_pending, spared, commands>>

\* Mutant: a STOP is believed whatever the PSN.
Mut_handle_stop(m, s) ==
  LET known == find_by_pid(m.tree, pid_of[s])
  IN IF known # NONE
     THEN [m EXCEPT !.tree = tombstone(@, known), !.rules = on_process_exit(@, pid_of[s])]
     ELSE m

\* handle_stop(): a STOP whose PID has another owner by now is ignored.
handle_stop(m, s) ==
  IF find_by_pid_psn(m.tree, pid_of[s], s)
  THEN [m EXCEPT !.tree = tombstone(@, s), !.rules = on_process_exit(@, pid_of[s])]
  ELSE m

HandleStop ==
  /\ event_record_callback({"STOP"})
  /\ "orphan" \in Overlaps \/ orphans = {}   \* a process exits while an orphan waits
  /\ Becomes(handle_stop(state, Head(etw).psn))
  /\ UNCHANGED <<storeVars, mgr, grace, lost_pending, spared, commands>>

\* Mutant: a loss while processes are being enumerated is left to that rundown.
Mut_HandleLost ==
  /\ event_record_callback({"LOST"})
  /\ lost_pending' = (lost_pending \/ rundown = {})
  /\ UNCHANGED <<storeVars, tree, rules, orphans, mgr, grace, spared, commands>>

\* handle_lost(): arms the timer unless it is armed already.
HandleLost ==
  /\ event_record_callback({"LOST"})
  /\ lost_pending' = TRUE
  /\ UNCHANGED <<storeVars, tree, rules, orphans, mgr, grace, spared, commands>>

\* lost_debounce_timer_ fires: the running processes are enumerated again.
LostTimer ==
  /\ lost_pending /\ lost_pending' = FALSE
  /\ request_rundown
  /\ UNCHANGED <<storeVars, tree, rules, orphans, mgr, grace, spared, commands>>

\* Start-up ------------------------------------------------------------------

\* start(): the session opens or not, which is logged ...
Start ==
  /\ mgr = "off" /\ start /\ mgr' = (IF running_' THEN "starting" ELSE "blind")
  /\ UNCHANGED <<storeVars, tree, rules, orphans, grace, lost_pending, spared, commands>>

\* ... and the strand asks for the rundown and arms the grace timer.
RequestRundown ==
  /\ mgr = "starting" /\ mgr' = "on"
  /\ request_rundown /\ grace' = "armed"
  /\ UNCHANGED <<storeVars, tree, rules, orphans, lost_pending, spared, commands>>

\* rundown_grace_timer_ fires: whoever still waits becomes a root.  Its five
\* seconds outlast the enumeration and the delivery of what it reports.
GraceTimer ==
  /\ grace = "armed" /\ grace' = "fired"
  /\ rundown = {} /\ \A e \in ToSet(etw) : e.kind # "RUNDOWN"
  /\ "grace" \in Overlaps \/ \A o \in orphans : ~Undelivered(o[1])
  /\ Becomes([state EXCEPT !.tree = mark_root(@, waiting(state, orphans)), !.orphans = {}])
  /\ UNCHANGED <<processVars, consumerVars, storeVars, mgr, lost_pending, spared, commands>>

\* resolve_pid_now() ---------------------------------------------------------

\* The chain of processes to insert, the connecting one first: up through the
\* recorded parent PIDs to one the tree holds or nobody can open.
chain_from(t, first) ==
  LET extend(c) == LET p == parent_pid_of(Last(c))
                   IN IF p = NoPid \/ find_by_pid(t, p) # NONE \/ opened(p) = NONE
                      THEN c ELSE Append(c, opened(p))
      chain[n \in 1 .. kMaxChainDepth] ==
        IF n = 1 THEN <<first>>
        ELSE IF Len(chain[n - 1]) < n - 1 THEN chain[n - 1] ELSE extend(chain[n - 1])
  IN chain[kMaxChainDepth]

\* Mutant: the tree's entry for the parent PID is trusted as it is.
Mut_top_parent_psn(t, top) == find_by_pid(t, parent_pid_of(top))

\* The parent PSN of the topmost process: the one that holds the parent PID, or
\* the tree's entry for it if that is older than the child.
top_parent_psn(t, top) ==
  LET p == parent_pid_of(top) known == find_by_pid(t, p)
  IN IF p = NoPid THEN NONE
     ELSE IF opened(p) # NONE THEN opened(p)
     ELSE IF known <= top THEN known ELSE NONE

\* The k-th of the chain has the next one as its parent.
chain_parent(t, chain, k) ==
  IF k < Len(chain) THEN chain[k + 1] ELSE top_parent_psn(t, Last(chain))

\* The tree after each insertion, top-down.
inserted(m, chain) ==
  LET after[n \in 0 .. Len(chain)] ==
        IF n = 0 THEN m
        ELSE LET k == Len(chain) + 1 - n
             IN handle_start(after[n - 1], chain[k], parent_pid_of(chain[k]),
                             chain_parent(m.tree, chain, k))
  IN after

resolve(m, first) ==
  LET chain == chain_from(m.tree, first) IN inserted(m, chain)[Len(chain)]

\* The recorded parent PID leads to the parent or to nobody.
ParentKnown(s) ==
  LET p == parent_of[s] held == find_by_pid(tree, pidOf(p))
  IN \/ p \in running /\ (p \notin Unopenable \/ held = p)
     \/ owner(pidOf(p)) = NONE /\ held \in {NONE, p}

\* A CONNECT event of PID p: on_connect() resolves a PID it does not know or
\* that has changed hands.
Connect(p) ==
  /\ mgr # "off"
  /\ opened(p) # NONE /\ opened(p) # find_by_pid(tree, p)
  /\ "parent" \in Overlaps \/ \A s \in ToSet(chain_from(tree, opened(p))) : ParentKnown(s)
  /\ Becomes(resolve(state, opened(p)))
  /\ UNCHANGED <<processVars, consumerVars, storeVars, mgr, grace, lost_pending, spared, commands>>

\* Commands ------------------------------------------------------------------

Command == commands < MaxCommands /\ commands' = commands + 1

Hijack(p, tree_mode, g) ==
  /\ Command /\ find_by_pid(tree, p) # NONE
  /\ tree' = manual_hijack(tree, find_by_pid(tree, p), tree_mode, g)
  /\ UNCHANGED <<processVars, consumerVars, storeVars, rules, orphans, mgr, grace, lost_pending, spared>>

Unhijack(p, tree_mode) ==
  /\ Command /\ find_by_pid(tree, p) # NONE
  /\ LET s == find_by_pid(tree, p)
     IN /\ tree' = manual_unhijack(tree, s, tree_mode)
        /\ spared' = spared \cup command_scope(tree, s, tree_mode)
  /\ UNCHANGED <<processVars, consumerVars, storeVars, rules, orphans, mgr, grace, lost_pending>>

\* services/rule_service.cpp changes the rules of the configuration.
MutateRules(new) == Mutate(new) /\ UNCHANGED <<processVars, consumerVars, managerVars>>

UpdateRule(r) == MutateRules([config EXCEPT ![r].enabled = ~@])
ExcludePid(r, p) == MutateRules([config EXCEPT ![r].excluded = @ \cup {p}])
UnexcludePid(r, p) == MutateRules([config EXCEPT ![r].excluded = @ \ {p}])

\* The observer of app::wire_observers() has the strand load and apply the rules.
ApplyConfig(n) ==
  /\ mgr \in {"on", "blind"} /\ Notify(n)
  /\ LET applied == apply_auto_rules(tree, n.after)
     IN tree' = applied.tree /\ rules' = applied.rules
  /\ UNCHANGED <<processVars, consumerVars, orphans, mgr, grace, lost_pending, spared, commands>>

UserCommand ==
  \/ \E p \in Pids, mode \in BOOLEAN, g \in ManualGroups : Hijack(p, mode, g)
  \/ \E p \in Pids, mode \in BOOLEAN : Unhijack(p, mode)

RuleCommand ==
  \/ \E r \in Rules : UpdateRule(r)
  \/ \E r \in Rules, p \in Pids : ExcludePid(r, p) \/ UnexcludePid(r, p)
  \/ \E n \in snapshots : ApplyConfig(n)

\* Composition ---------------------------------------------------------------

\* "start": a PID changes hands before clew has heard of its former owner.
Recycles(p) == "start" \in Overlaps \/ \A o \in PSN : pid_of[o] = p => ~Undelivered(o)

KernelStep ==
  /\ \/ \E s \in PSN, p \in Pids, parent \in 0 .. MaxPsn : Recycles(p) /\ Spawn(s, p, parent)
     \/ \E s \in PSN : Exit(s) \/ EnumerateNext(s)
  /\ UNCHANGED <<consumerVars, storeVars, managerVars>>

ConsumerStep == buffer_callback /\ UNCHANGED <<storeVars, managerVars>>

HandleEvent == HandleStart \/ HandleStop \/ HandleLost
Timers == LostTimer \/ GraceTimer

Next ==
  \/ KernelStep \/ ConsumerStep
  \/ Start \/ RequestRundown
  \/ HandleEvent
  \/ Timers
  \/ \E p \in Pids : Connect(p)
  \/ UserCommand \/ RuleCommand

Spec == Init /\ [][Next]_vars

\* Properties ----------------------------------------------------------------

\* side_map_ and entries_ agree: whatever was overwritten, reparented, removed
\* and compacted, a PID leads to the one live entry of that PID, and every live
\* entry is reached (find_by_pid() is the hot path's only lookup).
SideMapExact ==
  /\ \A p \in Pids : tree.side_map[p] # NONE =>
       tree.side_map[p] \in alive(tree) /\ pid_of[tree.side_map[p]] = p
  /\ \A s \in alive(tree) : tree.side_map[pid_of[s]] = s
  /\ Cardinality(alive(tree)) + Cardinality(tombstones(tree)) = Len(tree.entries)

\* A link, whether attached, drained, reparented or rebuilt by a compaction, is
\* the one the entry's facts name, and leads to a live entry.
LinksMatchFacts ==
  \A s \in alive(tree) : tree.parent[s] # NONE =>
    /\ tree.parent[s] \in alive(tree)
    /\ tree.parent[s] = tree.parent_psn[s]
    /\ pid_of[tree.parent[s]] = tree.parent_pid[s]

\* The parent PSN of an entry is that of a process it descends from, never that
\* of a later or earlier owner of its parent's PID; so the links have no cycle.
ParentIsAncestor ==
  \A s \in alive(tree) : tree.parent_psn[s] \in {NONE} \cup ancestors[s]

\* Once every request has called the observers, the rules that are enabled are
\* those of the configuration last saved ("fans out observers with the new
\* snapshot", config_store.hpp).
RulesFollowConfig ==
  snapshots = {} => \A r \in Rules : rules[r].enabled = saved[r].enabled

MatchedBy(s) == {r \in Rules : pid_of[s] \in rules[r].matched}

\* What a process is marked with is what a manual hijack or else a rule that
\* says it matched the process gave it, through every exit, PID reuse, rule
\* change and inheritance; and the rules remember no PID the tree has lost.
\* manual_unhijack() does not give a process back to the rules that match it.
MarkHasReason ==
  /\ \A r \in Rules : rules[r].matched \subseteq pids(alive(tree))
  /\ \A s \in alive(tree) :
       LET m == tree.mark[s]
       IN /\ m.manual => m.group \in ManualGroups
          /\ ~m.manual /\ MatchedBy(s) = {} => m = Unmarked
          /\ ~m.manual /\ MatchedBy(s) # {} /\ s \notin spared =>
               m.auto /\ m.group \in {RuleGroup[r] : r \in MatchedBy(s)}

\* No event of another process removes a running process from the tree, and
\* only the user changes its manual hijack: add_entry() and handle_stop() tell
\* the owners of a PID apart by their PSN.
LiveUndisturbed ==
  [][\A s \in running \cap alive(tree) :
       /\ s \in alive(tree')
       /\ commands' # commands
            \/ /\ tree'.mark[s].manual = tree.mark[s].manual
               /\ tree.mark[s].manual => tree'.mark[s].group = tree.mark[s].group]_vars

\* When an entry leaves the tree, by its STOP or by the next owner of its PID and
\* whether or not the tree is compacted, its children hang below its parent.
ChildrenMoveUp ==
  [][\A s \in alive(tree) \ alive(tree'), c \in alive(tree') :
       c \in children(tree, s) /\ tree.parent[s] \in alive(tree')
         => tree'.parent[c] = tree.parent[s]]_vars

\* Nothing is on its way, and the kernel has granted the last rundown.
Quiescent ==
  /\ mgr = "on" /\ etw = <<>> /\ rundown = {}
  /\ EventsLost = last_events_lost_ /\ ~lost_pending /\ ~refused

\* Every event handled and nothing being enumerated, and no event lost: the tree
\* holds the running processes and no other, each below its parent if that runs,
\* in whichever order START, RUNDOWN, STOP and CONNECT told of them.
CaughtUp ==
  Quiescent /\ EventsLost = 0 =>
    /\ alive(tree) = running
    /\ \A s \in running : parent_of[s] \in running => tree.parent[s] = parent_of[s]

\* Events were lost, the debounce timer asked for a new rundown and that has been
\* delivered: no running process is missing.
Recovers == Quiescent => running \subseteq alive(tree)
=============================================================================
