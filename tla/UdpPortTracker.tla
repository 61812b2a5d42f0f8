--------------------------- MODULE UdpPortTracker ---------------------------
(***************************************************************************)
(* udp/udp_port_tracker.hpp: a slot per local port, an entry of plain      *)
(* bytes and an atomic flag.  The strand fills the entry and raises the    *)
(* flag, or lowers it and empties the entry; nothing keeps a worker that   *)
(* has seen the flag from copying the entry while it is being written.     *)
(***************************************************************************)
EXTENDS PolicyTable

CONSTANTS
  UGroups,      \* proxy groups
  DefaultGroup  \* group 0

ASSUME TrackerAssumption == DefaultGroup \in UGroups

VARIABLES
  active,       \* active[p]: the flag
  entry,        \* entry[p]: the entry
  writing       \* the write the strand is in the middle of: port and new entry, or None

trackerVars == <<active, entry, writing>>

UdpTrackerEntry ==
  [group : UGroups, sock : Sockets \cup {None}, policy : 0 .. Cardinality(ExcludeRules)]

\* UdpTrackerEntry{}
EmptyEntry == [group |-> DefaultGroup, sock |-> None, policy |-> GLOBAL_ONLY_POLICY]

TrackerTypeOK ==
  /\ active \in [UPorts -> BOOLEAN]
  /\ entry \in [UPorts -> UdpTrackerEntry]
  /\ writing = None \/ (writing.port \in UPorts /\ writing.new \in UdpTrackerEntry)

TrackerInit ==
  /\ active = [p \in UPorts |-> FALSE]
  /\ entry = [p \in UPorts |-> EmptyEntry]
  /\ writing = None

\* put(): the entry is written, and the flag goes up once it is.
put(p, e) ==
  /\ writing' = [port |-> p, new |-> e, raise |-> TRUE]
  /\ UNCHANGED <<active, entry>>

\* Mutant: the flag stays up.
Mut_clear(p) ==
  /\ writing' = [port |-> p, new |-> EmptyEntry, raise |-> FALSE]
  /\ UNCHANGED <<active, entry>>
\* clear(): the flag goes down, and the entry is emptied.
clear(p) ==
  /\ active' = [active EXCEPT ![p] = FALSE]
  /\ writing' = [port |-> p, new |-> EmptyEntry, raise |-> FALSE]
  /\ UNCHANGED entry

FinishWrite ==
  /\ writing # None /\ writing' = None
  /\ entry' = [entry EXCEPT ![writing.port] = writing.new]
  /\ active' = [active EXCEPT ![writing.port] = @ \/ writing.raise]

\* What a copy of the entry may yield: while it is written, any mix of the two.
copies(p) ==
  IF writing = None \/ writing.port # p THEN {entry[p]}
  ELSE LET old == entry[p] new == writing.new
       IN [group : {old.group, new.group}, sock : {old.sock, new.sock},
           policy : {old.policy, new.policy}]
=============================================================================
