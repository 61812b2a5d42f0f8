----------------------------- MODULE ConfigFile -----------------------------
(***************************************************************************)
(* config/config_manager.hpp: the configuration in memory and its file.    *)
(* save() is taken apart into the steps between which the process may die  *)
(* or another saver may come: the requests save under the mutex of the     *)
(* store, the window (app.cpp, on_move_resize) without it.  A content is   *)
(* the number of changes it holds.                                         *)
(***************************************************************************)
EXTENDS Integers

CONSTANTS
  Savers,       \* threads that may save
  MaxChanges    \* bound on the changes made

ASSUME FileAssumption == MaxChanges \in Nat

VARIABLES
  config,       \* v2_config_
  file,         \* config_path_: a content, Absent, Partial or Torn
  tmp,          \* config_path_ with .tmp, likewise
  open,         \* savers that have tmp open
  saving,       \* saving[s]: how far save() is, and the content it serialized
  changes,
  overlapped    \* two saves were under way at the same time

fileVars == <<config, file, tmp, open, saving, changes, overlapped>>

Content == 0 .. MaxChanges
Absent == -1
Partial == -2    \* cut short
Torn == -3       \* the pieces of two contents
OnDisk == Content \cup {Absent, Partial, Torn}
Done == {"idle", "saved", "failed"}
NotSaving == [s \in Savers |-> [pc |-> "idle", v |-> 0]]

FileTypeOK ==
  /\ config \in Content /\ changes \in 0 .. MaxChanges
  /\ file \in OnDisk /\ tmp \in OnDisk
  /\ open \subseteq Savers /\ overlapped \in BOOLEAN
  /\ saving \in [Savers -> [pc : Done \cup {"serialized", "opened", "written"}, v : Content]]

FileInit ==
  /\ config = 0 /\ file = Absent /\ tmp = Absent /\ open = {}
  /\ saving = NotSaving /\ changes = 0 /\ overlapped = FALSE

\* load(): a missing file is created with the defaults; one that does not parse leaves
\* the defaults in memory, for the next save to write.
load ==
  /\ config' = (IF file \in Content THEN file ELSE 0)
  /\ \/ file # Absent /\ UNCHANGED <<file, tmp>>
     \/ file = Absent /\ file' = 0 /\ tmp' = Absent
     \/ file = Absent /\ file' = Absent /\ tmp' \in {Absent, Partial}
  /\ UNCHANGED <<open, saving, changes, overlapped>>

At(s, pc) == saving' = [saving EXCEPT ![s].pc = pc]
Untouched == UNCHANGED <<config, changes, overlapped>>

\* A change, and the serialization save() begins with.
Change(s) ==
  /\ changes < MaxChanges /\ changes' = changes + 1 /\ config' = config + 1
  /\ saving' = [saving EXCEPT ![s] = [pc |-> "serialized", v |-> config']]
  /\ overlapped' = (overlapped \/ \E u \in Savers \ {s} : saving[u].pc \notin Done)
  /\ UNCHANGED <<file, tmp, open>>

\* Truncates whatever another saver has written there.
Open(s) ==
  /\ saving[s].pc = "serialized"
  /\ \/ tmp' = Partial /\ open' = open \cup {s} /\ At(s, "opened")
     \/ UNCHANGED <<tmp, open>> /\ At(s, "failed")
  /\ UNCHANGED file /\ Untouched

\* From the start of the file: the end of a longer content may stay behind.
Write(s) ==
  /\ saving[s].pc = "opened" /\ open' = open \ {s}
  /\ \/ /\ tmp' \in (IF tmp = Partial THEN {saving[s].v} ELSE {saving[s].v, Torn})
        /\ At(s, "written")
     \/ tmp' = (IF tmp = Partial THEN Partial ELSE Torn) /\ At(s, "failed")
  /\ UNCHANGED file /\ Untouched

\* Mutant: the result of the rename is not looked at.
Mut_Rename(s) ==
  /\ saving[s].pc = "written" /\ At(s, "saved")
  /\ \/ file' = tmp /\ tmp' = Absent
     \/ UNCHANGED file /\ tmp' = Absent
  /\ UNCHANGED open /\ Untouched

\* A file that is open cannot be renamed, nor removed.
Rename(s) ==
  /\ saving[s].pc = "written"
  /\ \/ open = {} /\ tmp # Absent /\ file' = tmp /\ tmp' = Absent /\ At(s, "saved")
     \/ UNCHANGED file /\ tmp' = (IF open = {} THEN Absent ELSE tmp) /\ At(s, "failed")
  /\ UNCHANGED open /\ Untouched

SaveStep(s) == Open(s) \/ Write(s) \/ Rename(s)

\* The caller has what save() returned.
Returned(s) == saving' = [saving EXCEPT ![s] = NotSaving[s]]
=============================================================================
