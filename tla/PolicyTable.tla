---------------------------- MODULE PolicyTable ----------------------------
(***************************************************************************)
(* rules/policy_table.hpp and the part of rules/rule_engine_v3.hpp that    *)
(* builds the table: which destinations a proxied process still reaches    *)
(* directly.  The strand publishes an immutable table under a mutex and    *)
(* then counts the generation up; a worker keeps a copy and looks at the   *)
(* generation, without the mutex, to see whether it is still the one.      *)
(***************************************************************************)
EXTENDS UdpStack

CONSTANTS
  ExcludeRules,   \* ids of the auto rules
  Excludes,       \* configurations: global excludes, and each rule's or "absent"
  InitialExcludes,
  MaxReloads,     \* bound on the changes of the configuration
  UWorkers        \* NETWORK workers

ASSUME PolicyAssumption ==
  /\ \A e \in Excludes :
       /\ e.global \subseteq Dsts
       /\ \A r \in ExcludeRules : e.rule[r] = {None} \/ e.rule[r] \subseteq Dsts
  /\ InitialExcludes \in Excludes
  /\ IsFiniteSet(ExcludeRules)
  /\ MaxReloads \in Nat

GLOBAL_ONLY_POLICY == 0

\* A rule that is not configured.
Absent == {None}

VARIABLES
  excludes,      \* what the engine has loaded
  policy_ids,    \* policy_ids[r]: its runtime id, 0 before it has one
  tables,        \* the tables published so far; the last one is table_
  generation,    \* generation_
  wtable, wseen  \* PolicyReader of each worker: table_ and seen_generation_

policyVars == <<excludes, policy_ids, tables, generation, wtable, wseen>>
readerVars == <<wtable, wseen>>

next_policy_id(ids) == Cardinality({r \in ExcludeRules : ids[r] # 0}) + 1

\* Mutant: the id of a rule is its place among the rules of the configuration.
Mut_assign_policy_ids(ids, e) ==
  CHOOSE new \in [ExcludeRules -> 0 .. Cardinality(ExcludeRules)] :
    LET present == {r \in ExcludeRules : e.rule[r] # Absent}
    IN /\ {new[r] : r \in present} = 1 .. Cardinality(present)
       /\ \A r \in ExcludeRules \ present : new[r] = 0
\* assign_policy_id() of every rule of a configuration: ids are never reused.
assign_policy_ids(ids, e) ==
  LET fresh == {r \in ExcludeRules : e.rule[r] # Absent /\ ids[r] = 0}
  IN CHOOSE new \in [ExcludeRules -> 0 .. Cardinality(ExcludeRules)] :
       /\ \A r \in ExcludeRules \ fresh : new[r] = ids[r]
       /\ {new[r] : r \in fresh} =
            next_policy_id(ids) .. (next_policy_id(ids) + Cardinality(fresh) - 1)

\* build_policy_table(): the row of a rule that is gone has the global excludes.
build_policy_table(ids, e) ==
  [id \in 0 .. (next_policy_id(ids) - 1) |->
     e.global \cup UNION {e.rule[r] : r \in {x \in ExcludeRules :
                                             ids[x] = id /\ id # 0 /\ e.rule[x] # Absent}}]

\* PolicyTable::evaluate(): the destination is excluded.
evaluate(table, id, dst) ==
  dst \in table[IF id \in DOMAIN table THEN id ELSE GLOBAL_ONLY_POLICY]

PolicyTypeOK ==
  /\ excludes \in Excludes
  /\ policy_ids \in [ExcludeRules -> 0 .. Cardinality(ExcludeRules)]
  /\ Len(tables) \in 1 .. (MaxReloads + 1)
  /\ generation \in 0 .. MaxReloads
  /\ wseen \in [UWorkers -> 0 .. MaxReloads]

\* The state after the first publish, from which generations are counted here.
PolicyInit ==
  /\ excludes = InitialExcludes
  /\ policy_ids = assign_policy_ids([r \in ExcludeRules |-> 0], InitialExcludes)
  /\ tables = <<build_policy_table(policy_ids, InitialExcludes)>>
  /\ generation = 0
  /\ wtable = [w \in UWorkers |-> tables[1]] /\ wseen = [w \in UWorkers |-> 0]

\* publish() holds the mutex from the swap of the table to the new generation.
PublisherLocked == Len(tables) # generation + 1

\* The strand loads a configuration and swaps the table ...
SwapTable(e) ==
  /\ Len(tables) <= MaxReloads
  /\ excludes' = e
  /\ policy_ids' = assign_policy_ids(policy_ids, e)
  /\ tables' = Append(tables, build_policy_table(policy_ids', e))
  /\ UNCHANGED <<generation, readerVars>>

\* ... and releases the mutex with the next generation.
BumpGeneration ==
  /\ PublisherLocked /\ generation' = generation + 1
  /\ UNCHANGED <<excludes, policy_ids, tables, readerVars>>

\* evaluate() finds the generation it has seen.
Current(w) == generation = wseen[w]

\* Mutant: the generation is read before the mutex is taken.
Mut_snapshot(w) ==
  /\ wtable' = [wtable EXCEPT ![w] = tables[generation + 1]]
  /\ wseen' = [wseen EXCEPT ![w] = Len(tables) - 1]
\* refresh(): table and generation together, under the mutex.
snapshot(w) ==
  /\ ~PublisherLocked
  /\ wtable' = [wtable EXCEPT ![w] = tables[Len(tables)]]
  /\ wseen' = [wseen EXCEPT ![w] = generation]
=============================================================================
