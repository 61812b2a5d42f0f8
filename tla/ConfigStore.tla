---------------------------- MODULE ConfigStore ----------------------------
(***************************************************************************)
(* config/config_store.hpp: the configuration behind its mutex, and the    *)
(* observers.  A request changes and saves the configuration under the     *)
(* mutex, copies it, and calls the observers with the copy once the mutex  *)
(* is free: between the two any other request may do either.  What is      *)
(* configured, and what the observers do with it, is the client module's.  *)
(***************************************************************************)
EXTENDS Integers, FiniteSets

CONSTANTS
  HttpThreads,    \* threads of the HTTP server
  MaxMutations    \* bound on the requests that change the configuration

ASSUME StoreAssumption == HttpThreads \in Nat \ {0} /\ MaxMutations \in Nat

VARIABLES
  config,       \* the live configuration
  saved,        \* the one on disk
  snapshots,    \* copies some request has still to call the observers with
  mutations     \* requests so far

storeVars == <<config, saved, snapshots, mutations>>

StoreTypeOK(Configs) ==
  /\ config \in Configs /\ saved \in Configs
  /\ \A n \in snapshots : n.at \in 1 .. MaxMutations /\ n.after \in Configs
  /\ mutations \in 0 .. MaxMutations

StoreInit(initial) ==
  /\ config = initial /\ saved = initial
  /\ snapshots = {} /\ mutations = 0

\* Mutant: the copy is taken before fn changes the configuration.
Mut_Mutate(new) ==
  /\ mutations < MaxMutations /\ Cardinality(snapshots) < HttpThreads
  /\ mutations' = mutations + 1
  /\ config' = new
  /\ saved' = new /\ snapshots' = snapshots \cup {[at |-> mutations', after |-> config]}

\* mutate() under the mutex: when the save fails the request ends with an error,
\* and what fn did stays in the live configuration.
Mutate(new) ==
  /\ mutations < MaxMutations /\ Cardinality(snapshots) < HttpThreads
  /\ mutations' = mutations + 1
  /\ config' = new
  /\ \/ saved' = new /\ snapshots' = snapshots \cup {[at |-> mutations', after |-> new]}
     \/ UNCHANGED <<saved, snapshots>>

\* replace_from_json(): whether the save failed is not looked at.
Replace(new) ==
  /\ mutations < MaxMutations /\ Cardinality(snapshots) < HttpThreads
  /\ mutations' = mutations + 1
  /\ config' = new /\ saved' \in {saved, new}
  /\ snapshots' = snapshots \cup {[at |-> mutations', after |-> new]}

\* The observers are called with the copy n.
Notify(n) ==
  /\ n \in snapshots
  /\ snapshots' = snapshots \ {n}
  /\ UNCHANGED <<config, saved, mutations>>
=============================================================================
