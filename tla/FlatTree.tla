------------------------------ MODULE FlatTree ------------------------------
(***************************************************************************)
(* process/flat_tree.hpp as operators on a tree value.  All of them run on *)
(* the strand, many in one handler, so a handler is a composition of them. *)
(*                                                                         *)
(* entries_ is the sequence of the PSNs in their array positions, NONE in  *)
(* the position of a tombstone; the position is what an index elsewhere    *)
(* refers to.  The other fields of an entry are kept by PSN.  The LC-RS    *)
(* child list of an entry is the set of entries whose parent_index names   *)
(* it: every primitive keeps the two together as long as the tree has no   *)
(* cycle.                                                                  *)
(***************************************************************************)
EXTENDS EtwConsumer

CONSTANT NO_PROXY   \* no proxy group

\* group_id and the flags of an entry.
Unmarked == [group |-> NO_PROXY, manual |-> FALSE, auto |-> FALSE]

EmptyTree ==
  [entries    |-> <<>>,
   side_map   |-> [p \in Pids |-> NONE],
   parent_pid |-> [s \in PSN |-> NoPid],
   parent_psn |-> [s \in PSN |-> NONE],
   parent     |-> [s \in PSN |-> NONE],      \* parent_index
   mark       |-> [s \in PSN |-> Unmarked]]

TreeType(t, groups) ==
  /\ t.entries \in Seq(0 .. MaxPsn)
  /\ t.side_map \in [Pids -> 0 .. MaxPsn]
  /\ t.parent_pid \in [PSN -> Pids \cup {NoPid}]
  /\ t.parent_psn \in [PSN -> 0 .. MaxPsn]
  /\ t.parent \in [PSN -> 0 .. MaxPsn]
  /\ t.mark \in [PSN -> [group : groups \cup {NO_PROXY}, manual : BOOLEAN, auto : BOOLEAN]]

alive(t) == {t.entries[k] : k \in DOMAIN t.entries} \ {NONE}
tombstones(t) == {k \in DOMAIN t.entries : t.entries[k] = NONE}

find_by_pid(t, p) == IF p = NoPid THEN NONE ELSE t.side_map[p]
find_by_pid_psn(t, p, s) == s # NONE /\ find_by_pid(t, p) = s

children(t, s) == {c \in alive(t) : t.parent[c] = s}

\* visit_descendants().
descendants(t, s) ==
  LET within[n \in 0 .. MaxPsn] ==
        IF n = 0 THEN children(t, s)
        ELSE LET nearer == within[n - 1]
             IN nearer \cup UNION {children(t, c) : c \in nearer}
  IN within[MaxPsn]

attach_child(t, parent, children_) ==
  [t EXCEPT !.parent = [c \in PSN |-> IF c \in children_ THEN parent ELSE @[c]]]
mark_root(t, children_) == attach_child(t, NONE, children_)

\* Mutant: reparented children keep the facts about their dead parent.
Mut_reparent_children(t, s) == attach_child(t, t.parent[s], children(t, s) \ {s})

\* reparent_children(): they go to the nearest live ancestor, which is the parent
\* (a dead entry is nobody's parent), and their facts with them.
reparent_children(t, s) ==
  LET up == t.parent[s]
      kids == children(t, s) \ {s}
      moved(field, new) == [c \in PSN |-> IF c \in kids THEN new ELSE field[c]]
  IN [t EXCEPT !.parent     = moved(@, up),
               !.parent_psn = moved(@, up),
               !.parent_pid = moved(@, pidOf(up))]

\* tombstone_entry(); the facts of a dead entry are blanked, nobody reads them.
tombstone_entry(t, s) ==
  [reparent_children(t, s) EXCEPT
     !.entries       = [k \in DOMAIN @ |-> IF @[k] = s THEN NONE ELSE @[k]],
     !.side_map      = [p \in Pids |-> IF @[p] = s THEN NONE ELSE @[p]],
     !.parent[s]     = NONE,
     !.parent_psn[s] = NONE,
     !.parent_pid[s] = NoPid,
     !.mark[s]       = Unmarked]

\* Mutant: the former owner of the PID stays.
Mut_add_entry(t, s, parent_pid, parent_psn) ==
  [t EXCEPT !.entries = Append(@, s),
            !.side_map[pid_of[s]] = s,
            !.parent_pid[s] = parent_pid,
            !.parent_psn[s] = parent_psn]

\* add_entry() of a (pid, psn) the tree does not hold: an entry of the same
\* PID and another PSN is tombstoned first, without compaction.
add_entry(t, s, parent_pid, parent_psn) ==
  LET old == find_by_pid(t, pid_of[s])
      cleared == IF old = NONE THEN t ELSE tombstone_entry(t, old)
  IN [cleared EXCEPT
        !.entries = Append(@, s),
        !.side_map[pid_of[s]] = s,
        !.parent_pid[s] = parent_pid,
        !.parent_psn[s] = parent_psn]

\* rebuild_lc_rs_links(): the parent an entry's facts name, if it is there.
fact_parent(t, s) ==
  IF s \in alive(t) /\ t.parent_psn[s] # s
       /\ find_by_pid_psn(t, t.parent_pid[s], t.parent_psn[s])
  THEN t.parent_psn[s] ELSE NONE

\* What erase_if() keeps of the first n positions.
moved_up(entries) ==
  LET kept[n \in 0 .. Len(entries)] ==
        IF n = 0 THEN <<>>
        ELSE IF entries[n] = NONE THEN kept[n - 1] ELSE Append(kept[n - 1], entries[n])
  IN kept

\* compact(): positions move up, side map and links are rebuilt.
compact(t) ==
  [t EXCEPT !.entries  = moved_up(@)[Len(@)],
            !.side_map = [p \in Pids |-> IF \E s \in alive(t) : pid_of[s] = p
                                         THEN CHOOSE s \in alive(t) : pid_of[s] = p
                                         ELSE NONE],
            !.parent   = [s \in PSN |-> fact_parent(t, s)]]

\* tombstone() and check_compact(): more tombstones than a fifth of the living.
tombstone(t, s) ==
  LET t1 == tombstone_entry(t, s)
  IN IF alive(t1) # {} /\ Cardinality(tombstones(t1)) > Cardinality(alive(t1)) \div 5
     THEN compact(t1) ELSE t1
=============================================================================
