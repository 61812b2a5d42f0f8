--------------------------- MODULE MCProcessTree ---------------------------
(***************************************************************************)
(* Instances of ProcessTree for TLC: one rule, which matches the first     *)
(* process by name; the processes are numbered in the order they start.    *)
(***************************************************************************)
EXTENDS ProcessTree

CONSTANT g

MCRules == 1 .. 1
MCNameMatch == [r \in Rules |-> {1}]
MCRuleGroup == [r \in Rules |-> r]
MCSymmetry == Permutations(Pids)
=============================================================================
