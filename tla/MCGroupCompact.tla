--------------------------- MODULE MCGroupCompact ---------------------------
(* Two scenarios of GroupCompact in one state space: drops of messages with *)
(* storage failures, and resets of either kind.  A drop that starts while a *)
(* reset is between its two critical sections is left out of the second.    *)
EXTENDS GroupCompact, TLC

CONSTANTS m1, m2

VARIABLE scenario

MCId == {m1, m2}
Symmetry == Permutations({m1, m2})

Within(s) ==
  IF s = "drops"
  THEN reset.kind = "none"
  ELSE /\ seq <= 2 /\ ~stopped
       /\ reset.pc # "idle" => \A m \in Id : revoke[m].pc \in {"idle", "returned"}

MCInit == Init /\ scenario \in {"drops", "resets"}

MCNext == Next /\ UNCHANGED scenario /\ Within(scenario)'

MCSpec == MCInit /\ [][MCNext]_<<vars, scenario>>

(* Group compaction loses no message, repeats none and takes none that its  *)
(* own turn has not confirmed; once a drop has returned nothing of the      *)
(* message is distilled, and no step brings back what a drop or a reset     *)
(* took away (CommitGroupCompact, PromoteGroupCompactSlot,                  *)
(* DropGroupCompactSlotChecked, ResetSession).                              *)
GroupKeepsMessages == [](MessagesAccounted /\ RevocationHolds) /\ NothingComesBack
=============================================================================
