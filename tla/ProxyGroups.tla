---------------------------- MODULE ProxyGroups ----------------------------
(***************************************************************************)
(* services/group_service.cpp with the parts of rule_service.cpp and       *)
(* process_tree_service.cpp that refer to groups, the observer of app.cpp  *)
(* that carries a change to the strand and to the group maps, and the      *)
(* relays that look a group up.  A request is a thread of the HTTP server  *)
(* going from step to step; the mutex of the store, the strand and the     *)
(* group maps are three different worlds to it.                            *)
(***************************************************************************)
EXTENDS ConfigStore

CONSTANTS
  Endpoints,     \* host and port of a proxy
  Default,       \* the one a group is created with; it may be updated
  Processes,     \* running processes, one connection each
  RuleMatches,   \* those the auto rule matches
  None           \* no group, no rule, nothing

ASSUME GroupsAssumption ==
  None \notin Nat /\ None \notin Endpoints /\ Default \in Endpoints
  /\ RuleMatches \subseteq Processes

Threads == 1 .. HttpThreads
\* No request creates more than one group.
Gids == 0 .. MaxMutations

VARIABLES
  req,         \* req[t]: the request on thread t
  rule_,       \* the group of the auto rule on the strand; None: no rule
  mark,        \* mark[p]: process_entry::group_id and flags
  groups_,     \* tcp_groups_ and udp_groups_
  flow,        \* flow[p]: the connection of p, the group it was decided for and how many
               \* changes there had been; then whether the group it went to existed then
  unsynced,    \* a save failed and none has succeeded since
  overlapped,  \* groups two requests were about at the same time, or whose
               \* migration failed half way, or that a
               \* replaced configuration no longer has
  broken       \* an unsynchronised access corrupted a group map

serviceVars == <<req, rule_, mark, groups_>>
ghostVars == <<unsynced, overlapped, broken>>
vars == <<storeVars, serviceVars, flow, ghostVars>>

\* A group; made tells groups with one id apart.  Their order in the file is left out.
Group == [id : Gids, ep : Endpoints, made : 0 .. MaxMutations]
Ids(c) == {x.id : x \in c.groups}

Idle == [pc |-> "idle", op |-> "none", about |-> {}, from |-> None, to |-> None, at |-> 0]
Unmarked == [group |-> None, manual |-> FALSE, auto |-> FALSE]
NoFlow == [st |-> "none", gid |-> None, since |-> 0, known |-> FALSE]

TypeOK ==
  /\ config.groups \subseteq Group /\ config.next \in Gids \cup {MaxMutations + 1}
  /\ config.rule \in Gids \cup {None} /\ rule_ \in Gids \cup {None}
  /\ DOMAIN req = Threads
  /\ \A t \in Threads : req[t].pc \in {"idle", "count", "write", "rules", "clear",
                                       "fill", "rewrite"}
  /\ mark \in [Processes -> [group : Gids \cup {None}, manual : BOOLEAN, auto : BOOLEAN]]
  /\ \A g \in DOMAIN groups_ : groups_[g] \in Group
  /\ unsynced \in BOOLEAN /\ broken \in BOOLEAN /\ overlapped \subseteq Gids

InitialConfig ==
  [groups |-> {[id |-> 0, ep |-> Default, made |-> 0]}, next |-> 1, rule |-> None]

MapOf(c) == [g \in Ids(c) |-> CHOOSE x \in c.groups : x.id = g]

Init ==
  /\ StoreInit(InitialConfig)
  /\ req = [t \in Threads |-> Idle] /\ rule_ = None
  /\ mark = [p \in Processes |-> Unmarked]
  /\ groups_ = MapOf(config) /\ flow = [p \in Processes |-> NoFlow]
  /\ unsynced = FALSE /\ overlapped = {} /\ broken = FALSE
-----------------------------------------------------------------------------
\* What the mutating requests do to the live configuration.
without(c, g) == [c EXCEPT !.groups = {x \in @ : x.id # g}]

\* Mutant: the first id that no group has.
Mut_next_id(c) == CHOOSE g \in 1 .. MaxMutations : g \notin Ids(c)
next_id(c) == c.next

create_group(c) ==
  [c EXCEPT !.groups = @ \cup {[id |-> next_id(c), ep |-> Default, made |-> mutations + 1]},
            !.next = next_id(c) + 1]

update_group(c, g, e) ==
  LET patched(x) == IF x.id = g THEN [x EXCEPT !.ep = e] ELSE x
  IN [c EXCEPT !.groups = {patched(x) : x \in @}]

set_rule(c, g) == [c EXCEPT !.rule = g]

migrate_group(c, from, to) ==
  without([c EXCEPT !.rule = IF @ = from THEN to ELSE @], from)

\* The change request r makes.
Change(c, r) ==
  CASE r.op = "create"  -> create_group(c)
    [] r.op = "update"  -> update_group(c, r.from, r.to)
    [] r.op = "rule"    -> set_rule(c, r.to)
    [] r.op = "delete"  -> without(c, r.from)
    [] r.op = "migrate" -> migrate_group(c, r.from, r.to)
-----------------------------------------------------------------------------
\* Requests between their check and their change (changes are bounded).
Checked == {t \in Threads : req[t].pc \in {"count", "write"}}

\* The groups some request is about already.
Colliding(gs) == gs \cap UNION {req[u].about : u \in Threads}

\* delete_group() and migrate_group() check a copy of the configuration first.
Begin(t, r) ==
  /\ req[t] = Idle /\ mutations + Cardinality(Checked) < MaxMutations
  /\ req' = [req EXCEPT ![t] = r]
  /\ overlapped' = overlapped \cup Colliding(r.about)
  /\ UNCHANGED <<storeVars, rule_, mark, groups_, flow, unsynced, broken>>

in_use(g) == config.rule = g

Delete(t) == \E g \in Ids(config) \ {0} :
  ~in_use(g) /\ Begin(t, [Idle EXCEPT !.pc = "count", !.op = "delete", !.from = g,
                                      !.about = {g}])

\* The client never asks to migrate a group to itself.
Migrate(t) == \E g \in Ids(config) \ {0}, h \in Ids(config) :
  g # h /\ Begin(t, [Idle EXCEPT !.pc = "write", !.op = "migrate", !.from = g, !.to = h,
                                 !.about = {g, h}])

\* Mutant: only processes no rule matched are counted.
Mut_hijacked(g) == {p \in Processes : mark[p].group = g /\ mark[p].manual /\ ~mark[p].auto}
hijacked(g) == {p \in Processes : mark[p].group = g /\ mark[p].manual}

\* The query of delete_group() on the strand: 409, or on to the deletion.
Count(t) ==
  /\ req[t].pc = "count"
  /\ req' = [req EXCEPT ![t] = IF hijacked(@.from) = {} THEN [@ EXCEPT !.pc = "write"]
                                ELSE Idle]
  /\ UNCHANGED <<storeVars, rule_, mark, groups_, flow, ghostVars>>

Filling == {t \in Threads : req[t].pc = "fill"}
\* Undefined behaviour: the maps, or the list of groups being copied, come out intact
\* or corrupt.
Race(racing) == broken' \in (IF racing THEN BOOLEAN ELSE {FALSE})

\* mutate(): a failed save ends the request, with its change in the live configuration.
Write(t, r) ==
  LET saved_ok == snapshots' # snapshots
  IN /\ Mutate(Change(config, r))
     /\ req' = [req EXCEPT ![t] = IF saved_ok THEN [r EXCEPT !.pc = "rules", !.at = mutations']
                                   ELSE Idle]
     /\ unsynced' = ~saved_ok
     /\ overlapped' = overlapped \cup Colliding(r.about \ req[t].about)
                        \cup (IF r.op = "migrate" /\ ~saved_ok THEN {r.from} ELSE {})
     /\ Race(Filling # {}) /\ UNCHANGED <<rule_, mark, groups_, flow>>

WriteChecked(t) == req[t].pc = "write" /\ Write(t, req[t])

\* The requests that change the configuration at once.
WriteDirectly(t, r) ==
  req[t] = Idle /\ mutations + Cardinality(Checked) < MaxMutations /\ Write(t, r)

Create(t) == WriteDirectly(t, [Idle EXCEPT !.op = "create"])

Update(t) == \E g \in Ids(config), e \in Endpoints :
  MapOf(config)[g].ep # e
    /\ WriteDirectly(t, [Idle EXCEPT !.op = "update", !.from = g, !.to = e])

\* create_rule, update_rule and delete_rule; the group is one the client was shown.
SetRule(t) == \E g \in Ids(config) \cup {None} :
  g # config.rule /\ WriteDirectly(t, [Idle EXCEPT !.op = "rule", !.to = g,
                                                   !.about = {g} \ {None}])

\* The user edits the whole configuration as text; nothing checks what it refers to.
ReplaceText(t) == \E g \in Ids(config) :
  /\ req[t] = Idle /\ mutations + Cardinality(Checked) < MaxMutations
  /\ Replace(without(config, g))
  /\ req' = [req EXCEPT ![t] = [Idle EXCEPT !.pc = "rules", !.op = "replace", !.at = mutations']]
  /\ unsynced' = FALSE /\ overlapped' = overlapped \cup {g}
  /\ Race(Filling # {}) /\ UNCHANGED <<rule_, mark, groups_, flow>>

\* The observer's command on the strand: apply_auto_rules_from_config().
apply_auto_rules(m, g) ==
  [p \in Processes |->
    LET left == IF ~m[p].auto THEN m[p]
                ELSE IF m[p].manual THEN [m[p] EXCEPT !.auto = FALSE] ELSE Unmarked
    IN IF g = None \/ p \notin RuleMatches \/ left.manual THEN left
       ELSE [left EXCEPT !.group = g, !.auto = TRUE]]

ApplyRules(t) == \E n \in snapshots :
  /\ req[t].pc = "rules" /\ n.at = req[t].at
  /\ rule_' = n.after.rule /\ mark' = apply_auto_rules(mark, n.after.rule)
  /\ req' = [req EXCEPT ![t].pc = "clear"]
  /\ UNCHANGED <<storeVars, groups_, flow, ghostVars>>

\* sync_groups(): both maps emptied, then filled from the live configuration, on the
\* thread of the request and under no lock.
ClearMaps(t) ==
  /\ req[t].pc = "clear"
  /\ groups_' = <<>> /\ Race(Filling # {})
  /\ req' = [req EXCEPT ![t].pc = "fill"]
  /\ UNCHANGED <<storeVars, rule_, mark, flow, unsynced, overlapped>>

\* Mutant: the maps are filled from the copy the observer was called with.
Mut_source(n) == n.after
source(n) == config

\* What filling the maps overwrites, and what it finds there and leaves alone.
filled(new, old) ==
  [g \in DOMAIN new \cup DOMAIN old |-> IF g \in DOMAIN new THEN new[g] ELSE old[g]]

FillMaps(t) == \E n \in snapshots :
  /\ req[t].pc = "fill" /\ n.at = req[t].at /\ Notify(n)
  /\ groups_' = filled(MapOf(source(n)), groups_) /\ Race(Filling # {t})
  /\ req' = [req EXCEPT ![t] = IF @.op = "migrate" THEN [@ EXCEPT !.pc = "rewrite"]
                                ELSE Idle]
  /\ UNCHANGED <<rule_, mark, flow, unsynced, overlapped>>

\* migrate_group() ends with a command that rewrites the hijacked processes.
Rewrite(t) ==
  /\ req[t].pc = "rewrite"
  /\ mark' = [p \in Processes |-> IF p \in hijacked(req[t].from)
                                  THEN [mark[p] EXCEPT !.group = req[t].to] ELSE mark[p]]
  /\ req' = [req EXCEPT ![t] = Idle]
  /\ UNCHANGED <<storeVars, rule_, groups_, flow, ghostVars>>

\* hijack(), unhijack() and batch_hijack() are one command on the strand.  The group is
\* not validated; it is one the client was shown.
Hijack(ps) == \E g \in Ids(config) :
  /\ mark' = [p \in Processes |-> IF p \notin ps THEN mark[p]
                                  ELSE [mark[p] EXCEPT !.group = g, !.manual = TRUE]]
  /\ mark' # mark
  /\ overlapped' = overlapped \cup Colliding({g})
  /\ UNCHANGED <<storeVars, req, rule_, groups_, flow, unsynced, broken>>

Unhijack(ps) ==
  /\ \E p \in ps : mark[p].manual
  /\ mark' = [p \in Processes |->
                IF p \notin ps THEN mark[p]
                ELSE IF mark[p].auto THEN [mark[p] EXCEPT !.manual = FALSE] ELSE Unmarked]
  /\ UNCHANGED <<storeVars, req, rule_, groups_, flow, ghostVars>>
-----------------------------------------------------------------------------
\* A connection of p is decided on the strand ...
Connect(p) ==
  LET g == mark[p].group
  IN /\ flow[p] = NoFlow /\ g # None
     /\ flow' = [flow EXCEPT ![p] =
                            [NoFlow EXCEPT !.st = "decided", !.gid = g, !.since = mutations]]
     /\ UNCHANGED <<storeVars, serviceVars, ghostVars>>

\* ... and its relay, or the UDP relay, looks the group up, on another thread than
\* the one that may be changing the maps.  Without the group it is refused.
LookUp(p) ==
  LET g == flow[p].gid
  IN /\ flow[p].st = "decided" /\ Race(Filling # {})
     /\ flow' = [flow EXCEPT ![p] =
          IF g \in DOMAIN groups_
          THEN [NoFlow EXCEPT !.st = "connected", !.known = groups_[g].made <= flow[p].since]
          ELSE NoFlow]
     /\ UNCHANGED <<storeVars, serviceVars, unsynced, overlapped>>

Ended(p) ==
  /\ flow[p].st = "connected"
  /\ flow' = [flow EXCEPT ![p] = NoFlow]
  /\ UNCHANGED <<storeVars, serviceVars, ghostVars>>

\* What happens after a map was corrupted is not modelled.
Next ==
  /\ ~broken
  /\ \/ \E t \in Threads :
          \/ Create(t) \/ Update(t) \/ SetRule(t) \/ ReplaceText(t)
          \/ Delete(t) \/ Migrate(t)
          \/ Count(t) \/ WriteChecked(t) \/ ApplyRules(t) \/ ClearMaps(t) \/ FillMaps(t)
          \/ Rewrite(t)
     \/ \E ps \in SUBSET Processes : Hijack(ps) \/ Unhijack(ps)
     \/ \E p \in Processes : Connect(p) \/ LookUp(p) \/ Ended(p)

Spec == Init /\ [][Next]_vars
-----------------------------------------------------------------------------
\* No request has still to bring a change to the maps.
Settled == ~unsynced /\ \A t \in Threads : req[t].pc \notin {"rules", "clear", "fill"}

\* sync_groups() reads the live configuration, so that two observers that run in the
\* opposite order of their saves leave the maps as configured all the same.
MapsFollowConfig == ~broken /\ Settled => groups_ = MapOf(config)

\* A request about group g is being handled.
BusyWith(g) == \E t \in Threads : g \in req[t].about

\* delete_group() and migrate_group() leave no reference to the group they erase,
\* neither in the rule nor with a hijacked process, unless another request about the
\* group overlapped with theirs or the save failed.
NoDangling ==
  \A g \in Gids \ (Ids(config) \cup overlapped) :
    ~BusyWith(g) => config.rule # g /\ hijacked(g) = {}

\* A connection decided for a group goes to that group's proxy or nowhere, however
\* long its relay takes to look the group up: never to a group created later.
OwnProxyOrNone ==
  \A p \in Processes : flow[p].st = "connected" => flow[p].known
=============================================================================
