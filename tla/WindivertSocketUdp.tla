------------------------- MODULE WindivertSocketUdp -------------------------
(***************************************************************************)
(* udp/windivert_socket_udp.hpp: the strand takes the SOCKET events of the *)
(* UDP handle in order, and loads configurations in between.  Whether the  *)
(* process tree proxies the owner of a socket, and for which rule, is a    *)
(* constant of the socket; the rule may go and come back.                  *)
(***************************************************************************)
EXTENDS UdpPortTracker

CONSTANTS
  RuleOf,       \* RuleOf[u]: the rule that matched u's process, MANUAL or DIRECT
  GroupOf,      \* GroupOf[u]: its group
  MANUAL, DIRECT

ASSUME VerdictAssumption ==
  /\ RuleOf \in [Sockets -> ExcludeRules \cup {MANUAL, DIRECT}]
  /\ MANUAL \notin ExcludeRules /\ DIRECT \notin ExcludeRules /\ MANUAL # DIRECT
  /\ GroupOf \in [Sockets -> UGroups]

\* resolve_unknown_pid_() and should_proxy_protocol(): hijacked, or matched by a
\* rule that is configured.
should_proxy(u) ==
  RuleOf[u] = MANUAL \/ (RuleOf[u] \in ExcludeRules /\ excludes.rule[RuleOf[u]] # Absent)

\* The excludes of the rule, if u has one and it is configured.
rule_excludes(u, e) ==
  IF RuleOf[u] \in ExcludeRules /\ e.rule[RuleOf[u]] # Absent THEN e.rule[RuleOf[u]] ELSE {}

\* ip_exclude_reason() is not none.
ip_excluded(u, dst) == dst \in excludes.global \cup rule_excludes(u, excludes)

policy_id_for(u) ==
  IF RuleOf[u] \in ExcludeRules THEN policy_ids[RuleOf[u]] ELSE GLOBAL_ONLY_POLICY

tracker_entry(u) == [group |-> GroupOf[u], sock |-> u, policy |-> policy_id_for(u)]

StrandFree == writing = None /\ ~PublisherLocked

TakeSocketEvent(ev) ==
  /\ StrandFree /\ usockq # <<>> /\ Head(usockq).ev = ev
  /\ usockq' = Tail(usockq)
  /\ UNCHANGED <<ustate, peer, dgrams, fate, policyVars>>

OnBind ==
  /\ TakeSocketEvent("BIND")
  /\ LET u == Head(usockq).sock
     IN IF should_proxy(u) THEN put(PortOf[u], tracker_entry(u)) ELSE UNCHANGED trackerVars

\* A connected socket's one destination is judged here, once; the entry BIND left
\* is not written again.
OnConnect ==
  /\ TakeSocketEvent("CONNECT")
  /\ LET u == Head(usockq).sock p == PortOf[u]
     IN \/ should_proxy(u) /\ ip_excluded(u, Head(usockq).dst) /\ clear(p)
        \/ /\ should_proxy(u) /\ ~ip_excluded(u, Head(usockq).dst) /\ ~active[p]
           /\ put(p, tracker_entry(u))
        \/ /\ ~should_proxy(u) \/ (~ip_excluded(u, Head(usockq).dst) /\ active[p])
           /\ UNCHANGED trackerVars

OnClose == TakeSocketEvent("CLOSE") /\ clear(PortOf[Head(usockq).sock])

\* The strand is done with the slot it was writing.
EndWrite == FinishWrite /\ UNCHANGED <<stackVars, policyVars>>

\* The config observer: excludes, rules and the published table, in one turn.
Reload(e) == StrandFree /\ SwapTable(e) /\ UNCHANGED <<stackVars, trackerVars>>
Published == BumpGeneration /\ UNCHANGED <<stackVars, trackerVars>>

StrandNext ==
  \/ OnBind \/ OnConnect \/ OnClose \/ EndWrite
  \/ \E e \in Excludes \ {excludes} : Reload(e)
  \/ Published
=============================================================================
