----------------------------- MODULE SystemDns -----------------------------
(***************************************************************************)
(* core/system_dns.hpp: the DNS setting of the active interfaces, kept by  *)
(* Windows, and the file that remembers what it was.  A setting is either  *)
(* Automatic (the servers DHCP gives out) or a list of servers; a list is  *)
(* a model value here.                                                     *)
(***************************************************************************)
EXTENDS Integers, FiniteSets

CONSTANTS
  Interfaces,     \* interfaces with a gateway, by adapter GUID
  Servers,        \* server lists other than the ones the forwarder listens on
  Listens,        \* addresses the forwarder may listen on
  Automatic,      \* the setting of an interface that is left to DHCP
  DhcpServers,    \* the servers in effect on such an interface
  UserSetting,    \* what the user has set on every interface
  Unreliable      \* what may fail: "capture", "set", "restore", "save", "start"

Settings == {Automatic} \cup Servers \cup Listens

ASSUME DnsAssumption ==
  /\ Automatic \notin Servers \cup Listens
  /\ Servers \cap Listens = {}
  /\ DhcpServers \in Servers
  /\ UserSetting \in [Interfaces -> {Automatic} \cup Servers]
  /\ Unreliable \subseteq {"capture", "set", "restore", "save", "start"}

\* struct InterfaceDnsState: what was captured of one interface.
InterfaceDnsState == [automatic : BOOLEAN, servers : Servers \cup Listens]

\* What was captured of the interfaces in some set.
Captures == UNION {[S -> InterfaceDnsState] : S \in SUBSET Interfaces}
NoStates == [i \in {} |-> Automatic]

VARIABLES
  dns,     \* Windows: the setting of every interface
  up,      \* Windows: the interfaces that are up
  file     \* dns_state.json; NoStates when there is no file

dnsVars == <<dns, up, file>>

DnsTypeOK ==
  /\ dns \in [Interfaces -> Settings]
  /\ up \subseteq Interfaces
  /\ file \in Captures

DnsInit == dns = UserSetting /\ up = Interfaces /\ file = NoStates

\* Whether a call of some kind may succeed, or fail.
Outcomes(kind) == IF kind \in Unreliable THEN BOOLEAN ELSE {TRUE}

\* enumerate_active_interfaces: an interface that is down, or whose mode cannot
\* be read, is left out.  The servers are those in effect, given by DHCP or not.
Capture(i) ==
  [automatic |-> dns[i] = Automatic,
   servers   |-> IF dns[i] = Automatic THEN DhcpServers ELSE dns[i]]

Captured ==
  {[i \in S |-> Capture(i)] : S \in IF "capture" \in Unreliable THEN SUBSET up ELSE {up}}

\* dns_servers_for_restore: an empty list hands the interface back to DHCP.
RestoredSetting(st) == IF st.automatic THEN Automatic ELSE st.servers

\* set_interface_dns, which may fail and then changes nothing.
SetInterfaceDns(i, setting, ok) ==
  dns' = IF ok THEN [dns EXCEPT ![i] = setting] ELSE dns

\* restore_interface_dns
RestoreInterfaceDns(i, st) ==
  \E ok \in Outcomes("restore") : SetInterfaceDns(i, RestoredSetting(st), ok)

\* save_state: written beside the file and renamed, so that a crash or a failure
\* leaves the file there was.
SaveState(states) ==
  \E ok \in Outcomes("save") : file' = IF ok THEN states ELSE file

DeleteState == file' = NoStates

\* An interface goes up or down; its setting stays.
LinkChange ==
  /\ \E i \in Interfaces : up' = (up \ {i}) \cup ({i} \ up)
  /\ UNCHANGED <<dns, file>>

\* The interfaces that do not have the user's setting.
Altered == {i \in Interfaces : dns[i] # UserSetting[i]}
=============================================================================
