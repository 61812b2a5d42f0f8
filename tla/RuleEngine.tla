----------------------------- MODULE RuleEngine -----------------------------
(***************************************************************************)
(* rules/rule_engine_v3.hpp as operators on the rules and a tree value.    *)
(* The rules are numbered in config order.  What a rule says of a process  *)
(* by name, command line and path is a constant; hack_tree is always true. *)
(* A rule remembers the processes it matched, and those excluded from it,  *)
(* by bare PID.                                                            *)
(***************************************************************************)
EXTENDS FlatTree

CONSTANTS
  Rules,        \* auto rules, 1 .. n in config order
  NameMatch,    \* NameMatch[r]: processes rule r matches by itself
  RuleGroup,    \* RuleGroup[r]: AutoRule::proxy_group_id
  ManualGroups  \* groups a user hijacks to

ASSUME RuleAssumption ==
  /\ IsFiniteSet(Rules) /\ Rules = 1 .. Cardinality(Rules)
  /\ NameMatch \in [Rules -> SUBSET PSN]

Groups == {RuleGroup[r] : r \in Rules} \cup ManualGroups

RulesType(rs) ==
  rs \in [Rules -> [enabled : BOOLEAN, excluded : SUBSET Pids, matched : SUBSET Pids]]

\* The rules of a configuration have matched nothing.
ConfiguredRules ==
  [Rules -> [enabled : BOOLEAN, excluded : SUBSET Pids, matched : {{}}]]

\* manual_hijack, manual_hijack_tree -----------------------------------------

\* The entries a manual command is about: one, or a whole subtree.
command_scope(t, s, tree_mode) == {s} \cup IF tree_mode THEN descendants(t, s) ELSE {}

manual_hijack(t, s, tree_mode, g) ==
  LET scope == command_scope(t, s, tree_mode)
  IN [t EXCEPT !.mark =
       [c \in PSN |-> IF c \in scope THEN [@[c] EXCEPT !.group = g, !.manual = TRUE]
                      ELSE @[c]]]

\* An entry the rules matched keeps its group, whichever it is by now.
manual_unhijack(t, s, tree_mode) ==
  LET scope == {c \in command_scope(t, s, tree_mode) : c = s \/ t.mark[c].manual}
  IN [t EXCEPT !.mark =
       [c \in PSN |-> IF c \notin scope THEN @[c]
                      ELSE IF @[c].auto THEN [@[c] EXCEPT !.manual = FALSE]
                      ELSE Unmarked]]

\* Auto rules ----------------------------------------------------------------

\* mark_proxied(): a manual hijack is not overwritten.
mark_proxied(t, scope, r) ==
  [t EXCEPT !.mark =
    [c \in PSN |-> IF c \notin scope \/ @[c].manual THEN @[c]
                   ELSE [@[c] EXCEPT !.group = RuleGroup[r], !.auto = TRUE]]]

pids(ss) == {pid_of[s] : s \in ss}

\* try_match_one(): by name, or by a parent PID the rule has matched.
eligible(rs, r, s) ==
  rs[r].enabled /\ pid_of[s] \notin rs[r].excluded \cup rs[r].matched
name_match(rs, r, s) == eligible(rs, r, s) /\ s \in NameMatch[r]
tree_match(t, rs, r, s) ==
  eligible(rs, r, s) /\ s \notin NameMatch[r] /\ t.parent_pid[s] \in rs[r].matched

\* expand_descendants(): the ones it takes.
expansion(t, rs, r, s) ==
  {c \in descendants(t, s) : pid_of[c] \notin rs[r].excluded \cup rs[r].matched}

\* try_inherit_manual()
inherit_manual(t, s) ==
  LET parent == find_by_pid(t, t.parent_pid[s])
  IN IF parent # NONE /\ t.mark[parent].manual
     THEN [t EXCEPT !.mark[s].group = t.mark[parent].group, !.mark[s].manual = TRUE]
     ELSE t

\* on_process_start(): the first rule that matches takes the process, and by
\* name also its descendants; without a rule a manual hijack is inherited.
on_process_start(t, rs, s) ==
  LET hits == {r \in Rules : name_match(rs, r, s) \/ tree_match(t, rs, r, s)}
      r == CHOOSE x \in hits : \A y \in hits : x <= y
      scope == {s} \cup IF name_match(rs, r, s) THEN expansion(t, rs, r, s) ELSE {}
  IN IF hits = {} THEN [tree |-> inherit_manual(t, s), rules |-> rs]
     ELSE [tree  |-> mark_proxied(t, scope, r),
           rules |-> [rs EXCEPT ![r].matched = @ \cup pids(scope)]]

\* on_process_exit()
on_process_exit(rs, p) ==
  [r \in Rules |-> [rs[r] EXCEPT !.matched = @ \ {p}, !.excluded = @ \ {p}]]

\* apply_single_rule() on a rule that has matched nothing yet: its name matches
\* and the descendants of those whose parent PID is not one.
full_match(t, rs, r) ==
  LET named == {s \in alive(t) : name_match(rs, r, s)}
      roots == {s \in named : t.parent_pid[s] \notin pids(named)}
  IN named \cup UNION {expansion(t, rs, r, s) : s \in roots}

\* What is left of the marks when every automatic one is dropped.
drop_auto(t) ==
  LET left(m) == IF ~m.auto THEN m
                 ELSE IF m.manual THEN [m EXCEPT !.auto = FALSE] ELSE Unmarked
  IN [t EXCEPT !.mark = [s \in PSN |-> left(@[s])]]

\* set_auto_rules(config) and apply_auto_rules(): every automatic mark is
\* dropped, then each rule marks what it matches, a later one over an earlier.
apply_auto_rules(t, config) ==
  LET hits[r \in Rules] == IF config[r].enabled THEN full_match(t, config, r) ELSE {}
      marked[n \in 0 .. Cardinality(Rules)] ==
        IF n = 0 THEN drop_auto(t) ELSE mark_proxied(marked[n - 1], hits[n], n)
  IN [tree  |-> marked[Cardinality(Rules)],
      rules |-> [r \in Rules |-> [config[r] EXCEPT !.matched = pids(hits[r])]]]
=============================================================================
