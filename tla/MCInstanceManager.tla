------------------------- MODULE MCInstanceManager -------------------------
(***************************************************************************)
(* Instances of InstanceManager for TLC. A scenario says which requests    *)
(* arrive: "lifecycle" has crashes, Close and everything but settings;     *)
(* "settings" the saving of a draft against enabling and imports;          *)
(* "pending" the saving of global settings against enabling and deletion.  *)
(***************************************************************************)
EXTENDS InstanceManager

VARIABLE scenario

MCInit ==
  /\ Init
  /\ \A i \in Id : disk[i].conf = global
  /\ scenario \in {"lifecycle", "settings", "pending"}

\* Only requests and the choice of a value are restricted, never whether something begun goes on.
Within(s) ==
  /\ s = "lifecycle" =>
       /\ writer' = Idle
       \* imports bring the settings that are there
       /\ \A i \in Id : disk'[i].conf = disk[i].conf
  /\ s # "lifecycle" =>
       /\ server'.creating = None
       /\ server'.crashes = 0
       /\ ~server'.closing
       \* one lost runtime at a time
       /\ \A i \in Id : inst[i].live > 1 /\ inst[i].op = Free => inst'[i].op.by # "cancel"
  /\ s = "settings" => \A i \in Id : ~disk'[i].row.deleting /\ inst'[i].op.by \notin {"prepare", "memories"}
  /\ s = "pending" => \A i \in Id : writer'.of # i /\ inst'[i].op.by \notin {"import", "memories"}

MCNext == Next /\ Within(scenario) /\ UNCHANGED scenario

MCSpec == MCInit /\ [][MCNext]_<<vars, scenario>> /\ Fairness
=============================================================================
