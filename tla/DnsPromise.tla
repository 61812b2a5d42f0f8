----------------------------- MODULE DnsPromise -----------------------------
(***************************************************************************)
(* What the DNS manager promises about the user's DNS settings: an         *)
(* interface is taken over only while the way back is on disk, and that is *)
(* given up only when no interface is taken over any more.  Nothing is     *)
(* said about crashes: the promise is what makes them harmless.            *)
(***************************************************************************)
EXTENDS FiniteSets

CONSTANT Interfaces

VARIABLES
  taken,    \* interfaces that have lost the user's setting
  safe      \* interfaces whose setting is on disk

promiseVars == <<taken, safe>>

Init == taken = {} /\ safe = {}

Record == taken = {} /\ safe' \in SUBSET Interfaces /\ UNCHANGED taken
Take == \E i \in safe : taken' = taken \cup {i} /\ UNCHANGED safe
GiveBack == \E i \in taken : taken' = taken \ {i} /\ UNCHANGED safe

Next == Record \/ Take \/ GiveBack

Spec == Init /\ [][Next]_promiseVars
=============================================================================
