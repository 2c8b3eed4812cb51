------------------------- MODULE InstanceCopyProofs -------------------------
(***************************************************************************)
(* CopyIsAtomic for every set of configuration files, and every number of  *)
(* copies and of faults.                                                   *)
(***************************************************************************)
EXTENDS InstanceCopy, TLAPS

(* What holds of the directory as it is, and as a loss of power may leave  *)
(* it.                                                                     *)
Sound(d) ==
    /\ d.phase # "committing" => \A f, g \in File : d.files[f] = d.files[g]
    /\ d.phase = "applied" => \A f \in File : d.files[f] = d.ver
    /\ d.phase # "committing" /\ windows /\ ~deleting => \A f \in File : d.files[f] \in creds
    /\ d.phase = "committing" => stage = File /\ (windows => staged)
    /\ staged => d.phase # "none"

(* What holds at each step of the operation in progress.                   *)
StepInv ==
    /\ op.at = "promote" => dir.phase = "committing" /\ op.todo = File
    /\ op.at = "install" => /\ dir.phase = "committing" /\ (windows => dir.ver \in creds)
                            /\ \A f \in File \ op.todo : dir.files[f] = dir.ver
    /\ op.at = "mark" => /\ dir.phase \in {"committing", "applied"}
                         /\ windows /\ ~deleting => dir.ver \in creds
                         /\ \A f \in File : dir.files[f] = dir.ver
    /\ op.at \in {"cleanup", "unstage"} => dir.phase = "applied" /\ past = {dir}
    /\ op.at = "unstage" => ~staged
    /\ op.at = "erase" => ~staged /\ \A d \in past : d.phase # "committing"
    /\ op.at = "abort" => dir.phase = "preparing"
    /\ op.at \in {"plan", "build", "delete", "remove"} => dir.phase = "none"
    /\ op.at \in {"delete", "remove"} => op.next = "delete"
    /\ op.at = "remove" => deleting
    /\ op.at \in {"stage", "commit"} => dir.phase = "preparing"
    /\ op.at = "commit" => stage = File /\ staged = windows
    /\ op.at # "idle" /\ op.next \in {"plan", "build"} => ~deleting
    /\ op.at \in {"plan", "stage", "commit", "build"} => ~deleting

(* The directory is one of those a loss of power may leave; on Windows it  *)
(* is the only one; without Windows no credentials are staged; and no      *)
(* commit hides behind a journal that does not know of it.                 *)
DirInv ==
    /\ dir \in past
    /\ windows => past = {dir}
    /\ ~windows => ~staged
    /\ dir.phase \in {"none", "preparing"} => \A d \in past : d.phase # "committing"

RuntimeInv == (\A v, w \in runtime : v = w) /\ (deleting => runtime = {})

CopyInv == CopyTypeOK /\ DirInv /\ (\A d \in past : Sound(d)) /\ RuntimeInv /\ StepInv

-----------------------------------------------------------------------------

(* Each step of the recovery keeps the invariant.                          *)
LEMMA RecoverStep == CopyInv /\ Recover => CopyInv'
<1> SUFFICES ASSUME CopyInv, Recover PROVE CopyInv'
  OBVIOUS
<1> USE CopyAssumption DEF CopyAssumption, CopyInv, Recover, At, Works, disk, registry
<1>1. CASE dir.phase = "none"
  <2>1. op' \in Operation /\ op'.at = op.next /\ op'.next = op.next /\ op'.todo = File
    BY <1>1 DEF CopyTypeOK, Operation, Step, Recover, readCopyTransaction
  <2>2. CopyTypeOK'
    BY <1>1, <2>1 DEF CopyTypeOK, Dir, Version, Phase
  <2>3. DirInv'
    BY <1>1, <2>1 DEF DirInv, CopyTypeOK, StepInv
  <2>4. (\A d \in past : Sound(d))'
    BY <1>1, <2>1 DEF DirInv, CopyTypeOK, StepInv, Sound
  <2>5. RuntimeInv'
    BY <1>1, <2>1 DEF RuntimeInv, DirInv, CopyTypeOK, StepInv, Sound
  <2>6. StepInv'
    BY <1>1, <2>1 DEF DirInv, CopyTypeOK, StepInv, Sound, Operation
  <2> QED
    BY <2>2, <2>3, <2>4, <2>5, <2>6
<1>2. CASE dir.phase = "preparing"
  <2>1. op' \in Operation /\ op'.at = "abort" /\ op'.next = op.next /\ op'.todo = File
    BY <1>2 DEF CopyTypeOK, Operation, Step, Recover, readCopyTransaction
  <2>2. CopyTypeOK'
    BY <1>2, <2>1 DEF CopyTypeOK, Dir, Version, Phase
  <2>3. DirInv'
    BY <1>2, <2>1 DEF DirInv, CopyTypeOK, StepInv
  <2>4. (\A d \in past : Sound(d))'
    BY <1>2, <2>1 DEF DirInv, CopyTypeOK, StepInv, Sound
  <2>5. RuntimeInv'
    BY <1>2, <2>1 DEF RuntimeInv, DirInv, CopyTypeOK, StepInv, Sound
  <2>6. StepInv'
    BY <1>2, <2>1 DEF DirInv, CopyTypeOK, StepInv, Sound, Operation
  <2> QED
    BY <2>2, <2>3, <2>4, <2>5, <2>6
<1>3. CASE dir.phase = "committing"
  <2>1. op' \in Operation /\ op'.at = "promote" /\ op'.next = op.next /\ op'.todo = File
    BY <1>3 DEF CopyTypeOK, Operation, Step, Recover, readCopyTransaction
  <2>2. CopyTypeOK'
    BY <1>3, <2>1 DEF CopyTypeOK, Dir, Version, Phase
  <2>3. DirInv'
    BY <1>3, <2>1 DEF DirInv, CopyTypeOK, StepInv
  <2>4. (\A d \in past : Sound(d))'
    BY <1>3, <2>1 DEF DirInv, CopyTypeOK, StepInv, Sound
  <2>5. RuntimeInv'
    BY <1>3, <2>1 DEF RuntimeInv, DirInv, CopyTypeOK, StepInv, Sound
  <2>6. StepInv'
    BY <1>3, <2>1 DEF DirInv, CopyTypeOK, StepInv, Sound, Operation
  <2> QED
    BY <2>2, <2>3, <2>4, <2>5, <2>6
<1>4. CASE dir.phase = "applied"
  <2>1. op' \in Operation /\ op'.at = "mark" /\ op'.next = op.next /\ op'.todo = File
    BY <1>4 DEF CopyTypeOK, Operation, Step, Recover, readCopyTransaction
  <2>2. CopyTypeOK'
    BY <1>4, <2>1 DEF CopyTypeOK, Dir, Version, Phase
  <2>3. DirInv'
    BY <1>4, <2>1 DEF DirInv, CopyTypeOK, StepInv
  <2>4. (\A d \in past : Sound(d))'
    BY <1>4, <2>1 DEF DirInv, CopyTypeOK, StepInv, Sound
  <2>5. RuntimeInv'
    BY <1>4, <2>1 DEF RuntimeInv, DirInv, CopyTypeOK, StepInv, Sound
  <2>6. StepInv'
    BY <1>4, <2>1 DEF DirInv, CopyTypeOK, StepInv, Sound, Operation
  <2> QED
    BY <2>2, <2>3, <2>4, <2>5, <2>6
<1> QED
  BY <1>1, <1>2, <1>3, <1>4 DEF Recover, CopyInv, CopyTypeOK, Dir, Phase

LEMMA CommitCredentialPromotionsStep == CopyInv /\ CommitCredentialPromotions => CopyInv'
<1> SUFFICES ASSUME CopyInv, CommitCredentialPromotions PROVE CopyInv'
  OBVIOUS
<1> USE CopyAssumption DEF CopyAssumption, CopyInv, CommitCredentialPromotions, At, Works, Fails, registry
<1>1. CASE Fails /\ Return /\ UNCHANGED creds
  <2>1. op' \in Operation /\ op'.at = "idle" /\ op'.next = "idle" /\ op'.todo = {}
    BY <1>1 DEF CopyTypeOK, Operation, Step, Return, Idle
  <2>2. CopyTypeOK'
    BY <1>1, <2>1 DEF CopyTypeOK, Dir, Version, Phase
  <2>3. DirInv'
    BY <1>1, <2>1 DEF DirInv, CopyTypeOK, StepInv
  <2>4. (\A d \in past : Sound(d))'
    BY <1>1, <2>1 DEF DirInv, CopyTypeOK, StepInv, Sound
  <2>5. RuntimeInv'
    BY <1>1, <2>1 DEF RuntimeInv, DirInv, CopyTypeOK, StepInv, Sound
  <2>6. StepInv'
    BY <1>1, <2>1 DEF DirInv, CopyTypeOK, StepInv, Sound, Operation
  <2> QED
    BY <2>2, <2>3, <2>4, <2>5, <2>6
<1>2. CASE /\ Works /\ stage = File /\ (windows => staged) /\ Goto("install")
             /\ creds' = IF windows THEN creds \cup {dir.ver} ELSE creds
  <2>1. op' \in Operation /\ op'.at = "install" /\ op'.next = op.next /\ op'.todo = op.todo
    BY <1>2 DEF CopyTypeOK, Operation, Step, Goto
  <2>2. CopyTypeOK'
    BY <1>2, <2>1 DEF CopyTypeOK, Dir, Version, Phase
  <2>3. DirInv'
    BY <1>2, <2>1 DEF DirInv, CopyTypeOK, StepInv
  <2>4. (\A d \in past : Sound(d))'
    BY <1>2, <2>1 DEF DirInv, CopyTypeOK, StepInv, Sound
  <2>5. RuntimeInv'
    BY <1>2, <2>1 DEF RuntimeInv, DirInv, CopyTypeOK, StepInv, Sound
  <2>6. StepInv'
    BY <1>2, <2>1 DEF DirInv, CopyTypeOK, StepInv, Sound, Operation
  <2> QED
    BY <2>2, <2>3, <2>4, <2>5, <2>6
<1>3. CASE Works /\ ~(stage = File /\ (windows => staged)) /\ Return /\ UNCHANGED creds
  <2>1. op' \in Operation /\ op'.at = "idle" /\ op'.next = "idle" /\ op'.todo = {}
    BY <1>3 DEF CopyTypeOK, Operation, Step, Return, Idle
  <2>2. CopyTypeOK'
    BY <1>3, <2>1 DEF CopyTypeOK, Dir, Version, Phase
  <2>3. DirInv'
    BY <1>3, <2>1 DEF DirInv, CopyTypeOK, StepInv
  <2>4. (\A d \in past : Sound(d))'
    BY <1>3, <2>1 DEF DirInv, CopyTypeOK, StepInv, Sound
  <2>5. RuntimeInv'
    BY <1>3, <2>1 DEF RuntimeInv, DirInv, CopyTypeOK, StepInv, Sound
  <2>6. StepInv'
    BY <1>3, <2>1 DEF DirInv, CopyTypeOK, StepInv, Sound, Operation
  <2> QED
    BY <2>2, <2>3, <2>4, <2>5, <2>6
<1> QED
  BY <1>1, <1>2, <1>3 DEF CommitCredentialPromotions

LEMMA DeleteOldCredentialsStep == CopyInv /\ DeleteOldCredentials => CopyInv'
<1> SUFFICES ASSUME CopyInv, DeleteOldCredentials PROVE CopyInv'
  OBVIOUS
<1> USE CopyAssumption DEF CopyAssumption, CopyInv, DeleteOldCredentials, At, Works, Fails, registry
<1>1. CASE Fails /\ Return /\ UNCHANGED creds
  <2>1. op' \in Operation /\ op'.at = "idle" /\ op'.next = "idle" /\ op'.todo = {}
    BY <1>1 DEF CopyTypeOK, Operation, Step, Return, Idle
  <2>2. CopyTypeOK'
    BY <1>1, <2>1 DEF CopyTypeOK, Dir, Version, Phase
  <2>3. DirInv'
    BY <1>1, <2>1 DEF DirInv, CopyTypeOK, StepInv
  <2>4. (\A d \in past : Sound(d))'
    BY <1>1, <2>1 DEF DirInv, CopyTypeOK, StepInv, Sound
  <2>5. RuntimeInv'
    BY <1>1, <2>1 DEF RuntimeInv, DirInv, CopyTypeOK, StepInv, Sound
  <2>6. StepInv'
    BY <1>1, <2>1 DEF DirInv, CopyTypeOK, StepInv, Sound, Operation
  <2> QED
    BY <2>2, <2>3, <2>4, <2>5, <2>6
<1>2. CASE Works /\ creds' = creds \cap {dir.ver} /\ UNCHANGED op
  <2>1. op' \in Operation /\ op' = op
    BY <1>2 DEF CopyTypeOK, Operation, Step
  <2>2. CopyTypeOK'
    BY <1>2, <2>1 DEF CopyTypeOK, Dir, Version, Phase
  <2>3. DirInv'
    BY <1>2, <2>1 DEF DirInv, CopyTypeOK, StepInv
  <2>4. (\A d \in past : Sound(d))'
    BY <1>2, <2>1 DEF DirInv, CopyTypeOK, StepInv, Sound
  <2>5. RuntimeInv'
    BY <1>2, <2>1 DEF RuntimeInv, DirInv, CopyTypeOK, StepInv, Sound
  <2>6. StepInv'
    BY <1>2, <2>1 DEF DirInv, CopyTypeOK, StepInv, Sound, Operation
  <2> QED
    BY <2>2, <2>3, <2>4, <2>5, <2>6
<1> QED
  BY <1>1, <1>2 DEF DeleteOldCredentials

LEMMA InstallFileStep == ASSUME CopyInv, NEW f \in File, InstallFile(f) PROVE CopyInv'
<1> USE CopyAssumption DEF CopyAssumption, CopyInv, InstallFile, At, Works, Fails, Return, Idle, Renamed, WriteAtomicDurable, registry
<1>1. CopyTypeOK'
  BY DEF CopyTypeOK, Dir, Version, Phase, Step, Operation
<1>2. DirInv'
  BY DEF DirInv, CopyTypeOK, Dir, StepInv
<1>3. (\A d \in past : Sound(d))'
  BY DEF DirInv, CopyTypeOK, Dir, StepInv, Sound
<1>4. RuntimeInv'
  BY DEF RuntimeInv, DirInv, CopyTypeOK, Dir, StepInv, Sound
<1>5. StepInv'
  BY DEF DirInv, CopyTypeOK, Dir, StepInv, Sound, Operation
<1> QED
  BY <1>1, <1>2, <1>3, <1>4, <1>5 DEF CopyInv

LEMMA InstalledStep == CopyInv /\ Installed => CopyInv'
<1> SUFFICES ASSUME CopyInv, Installed PROVE CopyInv'
  OBVIOUS
<1> USE CopyAssumption DEF CopyAssumption, CopyInv, Installed, AllInstalled, At, Works, Goto, disk, registry
<1>1. CopyTypeOK'
  BY DEF CopyTypeOK, Dir, Version, Phase, Step, Operation
<1>2. DirInv'
  BY DEF DirInv, CopyTypeOK, Dir, StepInv
<1>3. (\A d \in past : Sound(d))'
  BY DEF DirInv, CopyTypeOK, Dir, StepInv, Sound
<1>4. RuntimeInv'
  BY DEF RuntimeInv, DirInv, CopyTypeOK, Dir, StepInv, Sound
<1>5. StepInv'
  BY DEF DirInv, CopyTypeOK, Dir, StepInv, Sound, Operation
<1> QED
  BY <1>1, <1>2, <1>3, <1>4, <1>5 DEF CopyInv

LEMMA MarkAppliedStep == CopyInv /\ MarkApplied => CopyInv'
<1> SUFFICES ASSUME CopyInv, MarkApplied PROVE CopyInv'
  OBVIOUS
<1> USE CopyAssumption DEF CopyAssumption, CopyInv, MarkApplied, At, Works, Fails, Renamed, WriteAtomicDurable, registry
<1> DEFINE d0 == Journal("applied", dir.ver)
<1>j. d0 \in Dir /\ d0.files = dir.files /\ d0.phase = "applied" /\ d0.ver = dir.ver
  BY DEF CopyInv, CopyTypeOK, Dir, Version, Phase, Journal
<1>1. CASE Works /\ WriteAtomicDurable(d0) /\ Goto("cleanup")
  <2>1. op' \in Operation /\ op'.at = "cleanup" /\ op'.next = op.next /\ op'.todo = op.todo
    BY <1>1 DEF CopyTypeOK, Operation, Step, Goto
  <2> HIDE DEF d0
  <2>2. CopyTypeOK'
    BY <1>1, <1>j, <2>1 DEF CopyTypeOK, Dir, Version, Phase
  <2>3. DirInv'
    BY <1>1, <1>j, <2>1 DEF DirInv, CopyTypeOK, StepInv
  <2>4. (\A d \in past : Sound(d))'
    BY <1>1, <1>j, <2>1 DEF DirInv, CopyTypeOK, StepInv, Sound
  <2>5. RuntimeInv'
    BY <1>1, <1>j, <2>1 DEF RuntimeInv, DirInv, CopyTypeOK, StepInv, Sound
  <2>6. StepInv'
    BY <1>1, <1>j, <2>1 DEF DirInv, CopyTypeOK, StepInv, Sound, Operation
  <2> QED
    BY <2>2, <2>3, <2>4, <2>5, <2>6
<1>2. CASE Fails /\ Renamed(d0) /\ Return
  <2>1. op' \in Operation /\ op'.at = "idle" /\ op'.next = "idle" /\ op'.todo = {}
    BY <1>2 DEF CopyTypeOK, Operation, Step, Return, Idle
  <2> HIDE DEF d0
  <2>2. CopyTypeOK'
    BY <1>2, <1>j, <2>1 DEF CopyTypeOK, Dir, Version, Phase
  <2>3. DirInv'
    BY <1>2, <1>j, <2>1 DEF DirInv, CopyTypeOK, StepInv
  <2>4. (\A d \in past : Sound(d))'
    BY <1>2, <1>j, <2>1 DEF DirInv, CopyTypeOK, StepInv, Sound
  <2>5. RuntimeInv'
    BY <1>2, <1>j, <2>1 DEF RuntimeInv, DirInv, CopyTypeOK, StepInv, Sound
  <2>6. StepInv'
    BY <1>2, <1>j, <2>1 DEF DirInv, CopyTypeOK, StepInv, Sound, Operation
  <2> QED
    BY <2>2, <2>3, <2>4, <2>5, <2>6
<1>3. CASE Fails /\ Return /\ UNCHANGED <<dir, past>>
  <2>1. op' \in Operation /\ op'.at = "idle" /\ op'.next = "idle" /\ op'.todo = {}
    BY <1>3 DEF CopyTypeOK, Operation, Step, Return, Idle
  <2> HIDE DEF d0
  <2>2. CopyTypeOK'
    BY <1>3, <1>j, <2>1 DEF CopyTypeOK, Dir, Version, Phase
  <2>3. DirInv'
    BY <1>3, <1>j, <2>1 DEF DirInv, CopyTypeOK, StepInv
  <2>4. (\A d \in past : Sound(d))'
    BY <1>3, <1>j, <2>1 DEF DirInv, CopyTypeOK, StepInv, Sound
  <2>5. RuntimeInv'
    BY <1>3, <1>j, <2>1 DEF RuntimeInv, DirInv, CopyTypeOK, StepInv, Sound
  <2>6. StepInv'
    BY <1>3, <1>j, <2>1 DEF DirInv, CopyTypeOK, StepInv, Sound, Operation
  <2> QED
    BY <2>2, <2>3, <2>4, <2>5, <2>6
<1> QED
  BY <1>1, <1>2, <1>3 DEF MarkApplied

LEMMA CleanupCredentialPromotionsStep == CopyInv /\ CleanupCredentialPromotions => CopyInv'
<1> SUFFICES ASSUME CopyInv, CleanupCredentialPromotions PROVE CopyInv'
  OBVIOUS
<1> USE CopyAssumption DEF CopyAssumption, CopyInv, CleanupCredentialPromotions, At, Works, Fails, registry
<1>1. CASE Works /\ staged' = FALSE /\ Goto("unstage")
  <2>1. op' \in Operation /\ op'.at = "unstage" /\ op'.next = op.next /\ op'.todo = op.todo
    BY <1>1 DEF CopyTypeOK, Operation, Step, Goto
  <2>2. CopyTypeOK'
    BY <1>1, <2>1 DEF CopyTypeOK, Dir, Version, Phase
  <2>3. DirInv'
    BY <1>1, <2>1 DEF DirInv, CopyTypeOK, StepInv
  <2>4. (\A d \in past : Sound(d))'
    BY <1>1, <2>1 DEF DirInv, CopyTypeOK, StepInv, Sound
  <2>5. RuntimeInv'
    BY <1>1, <2>1 DEF RuntimeInv, DirInv, CopyTypeOK, StepInv, Sound
  <2>6. StepInv'
    BY <1>1, <2>1 DEF DirInv, CopyTypeOK, StepInv, Sound, Operation
  <2> QED
    BY <2>2, <2>3, <2>4, <2>5, <2>6
<1>2. CASE Fails /\ Return /\ UNCHANGED staged
  <2>1. op' \in Operation /\ op'.at = "idle" /\ op'.next = "idle" /\ op'.todo = {}
    BY <1>2 DEF CopyTypeOK, Operation, Step, Return, Idle
  <2>2. CopyTypeOK'
    BY <1>2, <2>1 DEF CopyTypeOK, Dir, Version, Phase
  <2>3. DirInv'
    BY <1>2, <2>1 DEF DirInv, CopyTypeOK, StepInv
  <2>4. (\A d \in past : Sound(d))'
    BY <1>2, <2>1 DEF DirInv, CopyTypeOK, StepInv, Sound
  <2>5. RuntimeInv'
    BY <1>2, <2>1 DEF RuntimeInv, DirInv, CopyTypeOK, StepInv, Sound
  <2>6. StepInv'
    BY <1>2, <2>1 DEF DirInv, CopyTypeOK, StepInv, Sound, Operation
  <2> QED
    BY <2>2, <2>3, <2>4, <2>5, <2>6
<1> QED
  BY <1>1, <1>2 DEF CleanupCredentialPromotions

LEMMA RemoveCopyStageStep == CopyInv /\ removeCopyStage => CopyInv'
<1> SUFFICES ASSUME CopyInv, removeCopyStage PROVE CopyInv'
  OBVIOUS
<1> USE CopyAssumption DEF CopyAssumption, CopyInv, removeCopyStage, At, Works, Fails, Return, Goto, Idle, registry
<1>1. CopyTypeOK'
  BY DEF CopyTypeOK, Dir, Version, Phase, Step, Operation
<1>2. DirInv'
  BY DEF DirInv, CopyTypeOK, Dir, StepInv
<1>3. (\A d \in past : Sound(d))'
  BY DEF DirInv, CopyTypeOK, Dir, StepInv, Sound
<1>4. RuntimeInv'
  BY DEF RuntimeInv, DirInv, CopyTypeOK, Dir, StepInv, Sound
<1>5. StepInv'
  BY DEF DirInv, CopyTypeOK, Dir, StepInv, Sound, Operation
<1> QED
  BY <1>1, <1>2, <1>3, <1>4, <1>5 DEF CopyInv

LEMMA RemoveJournalStep == CopyInv /\ RemoveJournal => CopyInv'
<1> SUFFICES ASSUME CopyInv, RemoveJournal PROVE CopyInv'
  OBVIOUS
<1> USE CopyAssumption DEF CopyAssumption, CopyInv, RemoveJournal, At, Works, Fails, Renamed, registry
<1> DEFINE d0 == Journal("none", 0)
<1>z. 0 \in Version
  BY DEF Version
<1>j. d0 \in Dir /\ d0.files = dir.files /\ d0.phase = "none" /\ d0.ver = 0
  BY <1>z DEF CopyInv, CopyTypeOK, Dir, Phase, Journal
<1>1. CASE Works /\ Renamed(d0) /\ Goto(op.next)
  <2>1. op' \in Operation /\ op'.at = op.next /\ op'.next = op.next /\ op'.todo = op.todo
    BY <1>1 DEF CopyTypeOK, Operation, Step, Goto
  <2> HIDE DEF d0
  <2>2. CopyTypeOK'
    BY <1>1, <1>j, <2>1 DEF CopyTypeOK, Dir, Version, Phase
  <2>3. DirInv'
    BY <1>1, <1>j, <2>1 DEF DirInv, CopyTypeOK, StepInv
  <2>4. (\A d \in past : Sound(d))'
    BY <1>1, <1>j, <2>1 DEF DirInv, CopyTypeOK, StepInv, Sound
  <2>5. RuntimeInv'
    BY <1>1, <1>j, <2>1 DEF RuntimeInv, DirInv, CopyTypeOK, StepInv, Sound
  <2>6. StepInv'
    BY <1>1, <1>j, <2>1 DEF DirInv, CopyTypeOK, StepInv, Sound, Operation
  <2> QED
    BY <2>2, <2>3, <2>4, <2>5, <2>6
<1>2. CASE Fails /\ Return /\ UNCHANGED <<dir, past>>
  <2>1. op' \in Operation /\ op'.at = "idle" /\ op'.next = "idle" /\ op'.todo = {}
    BY <1>2 DEF CopyTypeOK, Operation, Step, Return, Idle
  <2> HIDE DEF d0
  <2>2. CopyTypeOK'
    BY <1>2, <1>j, <2>1 DEF CopyTypeOK, Dir, Version, Phase
  <2>3. DirInv'
    BY <1>2, <1>j, <2>1 DEF DirInv, CopyTypeOK, StepInv
  <2>4. (\A d \in past : Sound(d))'
    BY <1>2, <1>j, <2>1 DEF DirInv, CopyTypeOK, StepInv, Sound
  <2>5. RuntimeInv'
    BY <1>2, <1>j, <2>1 DEF RuntimeInv, DirInv, CopyTypeOK, StepInv, Sound
  <2>6. StepInv'
    BY <1>2, <1>j, <2>1 DEF DirInv, CopyTypeOK, StepInv, Sound, Operation
  <2> QED
    BY <2>2, <2>3, <2>4, <2>5, <2>6
<1> QED
  BY <1>1, <1>2 DEF RemoveJournal

LEMMA AbortCopyTransactionStep == CopyInv /\ abortCopyTransaction => CopyInv'
<1> SUFFICES ASSUME CopyInv, abortCopyTransaction PROVE CopyInv'
  OBVIOUS
<1> USE CopyAssumption DEF CopyAssumption, CopyInv, abortCopyTransaction, At, Works, Fails, registry
<1>1. CASE Works /\ staged' = FALSE /\ stage' = {} /\ Goto("erase")
  <2>1. op' \in Operation /\ op'.at = "erase" /\ op'.next = op.next /\ op'.todo = op.todo
    BY <1>1 DEF CopyTypeOK, Operation, Step, Goto
  <2>2. CopyTypeOK'
    BY <1>1, <2>1 DEF CopyTypeOK, Dir, Version, Phase
  <2>3. DirInv'
    BY <1>1, <2>1 DEF DirInv, CopyTypeOK, StepInv
  <2>4. (\A d \in past : Sound(d))'
    BY <1>1, <2>1 DEF DirInv, CopyTypeOK, StepInv, Sound
  <2>5. RuntimeInv'
    BY <1>1, <2>1 DEF RuntimeInv, DirInv, CopyTypeOK, StepInv, Sound
  <2>6. StepInv'
    BY <1>1, <2>1 DEF DirInv, CopyTypeOK, StepInv, Sound, Operation
  <2> QED
    BY <2>2, <2>3, <2>4, <2>5, <2>6
<1>2. CASE Fails /\ staged' \in {FALSE, staged} /\ stage' \in SUBSET stage /\ Return
  <2>1. op' \in Operation /\ op'.at = "idle" /\ op'.next = "idle" /\ op'.todo = {}
    BY <1>2 DEF CopyTypeOK, Operation, Step, Return, Idle
  <2>2. (dir \in Dir /\ past \subseteq Dir)'
    BY <1>2, <2>1 DEF CopyTypeOK, Version, Phase, Dir
  <2>3. (stage \subseteq File /\ creds \subseteq Version /\ runtime \subseteq Version)'
    BY <1>2, <2>1 DEF CopyTypeOK, Dir, Version
  <2>4. (staged \in BOOLEAN /\ windows \in BOOLEAN /\ deleting \in BOOLEAN /\ gone \in BOOLEAN)'
    BY <1>2, <2>1 DEF CopyTypeOK
  <2>5. (copies \in Version /\ faults \in 0..MaxFault)'
    BY <1>2, <2>1 DEF CopyTypeOK, Version
  <2>6. (windows => past = {dir})'
    BY <1>2, <2>1 DEF DirInv, CopyTypeOK
  <2>7. (~windows => ~staged)'
    BY <1>2, <2>1 DEF DirInv, CopyTypeOK
  <2>8. (dir \in past /\ (dir.phase \in {"none", "preparing"} => \A d \in past : d.phase # "committing"))'
    BY <1>2, <2>1 DEF DirInv, CopyTypeOK, StepInv
  <2>9. (\A d \in past : Sound(d))'
    BY <1>2, <2>1 DEF DirInv, CopyTypeOK, StepInv, Sound
  <2>10. RuntimeInv'
    BY <1>2, <2>1 DEF RuntimeInv, DirInv, CopyTypeOK, StepInv, Sound
  <2>11. StepInv'
    BY <1>2, <2>1 DEF DirInv, CopyTypeOK, StepInv, Sound, Operation
  <2> QED
    BY <2>1, <2>2, <2>3, <2>4, <2>5, <2>6, <2>7, <2>8, <2>9, <2>10, <2>11 DEF DirInv, CopyTypeOK
<1> QED
  BY <1>1, <1>2 DEF abortCopyTransaction

(* Each step of a copy does.                                               *)
LEMMA BeginCopyStep == CopyInv /\ BeginCopy => CopyInv'
<1> SUFFICES ASSUME CopyInv, BeginCopy PROVE CopyInv'
  OBVIOUS
<1> USE CopyAssumption DEF CopyAssumption, CopyInv, BeginCopy, Begin, Idle, disk, registry
<1>1. CopyTypeOK'
  BY DEF CopyTypeOK, Dir, Version, Phase, Step, Operation
<1>2. DirInv'
  BY DEF DirInv, CopyTypeOK, Dir, StepInv
<1>3. (\A d \in past : Sound(d))'
  BY DEF DirInv, CopyTypeOK, Dir, StepInv, Sound
<1>4. RuntimeInv'
  BY DEF RuntimeInv, DirInv, CopyTypeOK, Dir, StepInv, Sound
<1>5. StepInv'
  BY SMTT(20) DEF DirInv, CopyTypeOK, Dir, StepInv, Sound, Operation
<1> QED
  BY <1>1, <1>2, <1>3, <1>4, <1>5 DEF CopyInv

LEMMA PlanCopyStep == CopyInv /\ PlanCopy => CopyInv'
<1> SUFFICES ASSUME CopyInv, PlanCopy PROVE CopyInv'
  OBVIOUS
<1> USE CopyAssumption DEF CopyAssumption, CopyInv, PlanCopy, At, Works, Fails, Built, Renamed, WriteAtomicDurable, registry
<1> DEFINE d0 == Journal("preparing", copies)
<1>j. d0 \in Dir /\ d0.files = dir.files /\ d0.phase = "preparing" /\ d0.ver = copies
  BY DEF CopyInv, CopyTypeOK, Dir, Version, Phase, Journal
<1>b. Built \subseteq Version
  BY DEF CopyInv, CopyTypeOK, Dir, Built
<1>1. CASE Works /\ writeCopyTransaction("preparing", copies) /\ Goto("stage")
  <2>1. op' \in Operation /\ op'.at = "stage" /\ op'.next = op.next /\ op'.todo = op.todo
    BY <1>1 DEF CopyTypeOK, Operation, Step, Goto
  <2>w. WriteAtomicDurable(d0)
    BY <1>1 DEF writeCopyTransaction
  <2> HIDE DEF d0
  <2>2. CopyTypeOK'
    BY <1>1, <1>j, <1>b, <2>w, <2>1 DEF CopyTypeOK, Dir, Version, Phase
  <2>3. DirInv'
    BY <1>1, <1>j, <1>b, <2>w, <2>1 DEF DirInv, CopyTypeOK, StepInv
  <2>4. (\A d \in past : Sound(d))'
    BY <1>1, <1>j, <1>b, <2>w, <2>1 DEF DirInv, CopyTypeOK, StepInv, Sound
  <2>5. RuntimeInv'
    BY <1>1, <1>j, <1>b, <2>w, <2>1 DEF RuntimeInv, DirInv, CopyTypeOK, StepInv, Sound
  <2>6. StepInv'
    BY <1>1, <1>j, <1>b, <2>w, <2>1, SMTT(20) DEF DirInv, CopyTypeOK, StepInv, Sound, Operation
  <2> QED
    BY <2>2, <2>3, <2>4, <2>5, <2>6
<1>2. CASE Fails /\ Renamed(d0) /\ Abort
  <2>1. op' \in Operation /\ op'.at = "abort" /\ op'.next = "idle" /\ op'.todo = op.todo
    BY <1>2 DEF CopyTypeOK, Operation, Step, Abort
  <2> HIDE DEF d0
  <2>2. (dir \in Dir /\ past \subseteq Dir)'
    BY <1>2, <1>j, <1>b, <2>1, SMTT(20) DEF CopyTypeOK, Version, Phase, Dir
  <2>3. (stage \subseteq File /\ creds \subseteq Version /\ runtime \subseteq Version)'
    BY <1>2, <1>j, <1>b, <2>1 DEF CopyTypeOK, Dir, Version
  <2>4. (staged \in BOOLEAN /\ windows \in BOOLEAN /\ deleting \in BOOLEAN /\ gone \in BOOLEAN)'
    BY <1>2, <1>j, <1>b, <2>1 DEF CopyTypeOK
  <2>5. (copies \in Version /\ faults \in 0..MaxFault)'
    BY <1>2, <1>j, <1>b, <2>1 DEF CopyTypeOK, Version
  <2>6. (windows => past = {dir})'
    BY <1>2, <1>j, <1>b, <2>1 DEF DirInv, CopyTypeOK
  <2>7. (~windows => ~staged)'
    BY <1>2, <1>j, <1>b, <2>1 DEF DirInv, CopyTypeOK
  <2>8. (dir \in past /\ (dir.phase \in {"none", "preparing"} => \A d \in past : d.phase # "committing"))'
    BY <1>2, <1>j, <1>b, <2>1 DEF DirInv, CopyTypeOK, StepInv
  <2>9. (\A d \in past : Sound(d))'
    BY <1>2, <1>j, <1>b, <2>1 DEF DirInv, CopyTypeOK, StepInv, Sound
  <2>10. RuntimeInv'
    BY <1>2, <1>j, <1>b, <2>1 DEF RuntimeInv, DirInv, CopyTypeOK, StepInv, Sound
  <2>11. StepInv'
    BY <1>2, <1>j, <1>b, <2>1, SMTT(20) DEF DirInv, CopyTypeOK, StepInv, Sound, Operation
  <2> QED
    BY <2>1, <2>2, <2>3, <2>4, <2>5, <2>6, <2>7, <2>8, <2>9, <2>10, <2>11 DEF DirInv, CopyTypeOK
<1>3. CASE Fails /\ Return /\ UNCHANGED <<dir, past>>
  <2>1. op' \in Operation /\ op'.at = "idle" /\ op'.next = "idle" /\ op'.todo = {}
    BY <1>3 DEF CopyTypeOK, Operation, Step, Return, Idle
  <2> HIDE DEF d0
  <2>2. (dir \in Dir /\ past \subseteq Dir)'
    BY <1>3, <1>j, <1>b, <2>1 DEF CopyTypeOK, Version, Phase, Dir
  <2>3. (stage \subseteq File /\ creds \subseteq Version /\ runtime \subseteq Version)'
    BY <1>3, <1>j, <1>b, <2>1 DEF CopyTypeOK, Dir, Version
  <2>4. (staged \in BOOLEAN /\ windows \in BOOLEAN /\ deleting \in BOOLEAN /\ gone \in BOOLEAN)'
    BY <1>3, <1>j, <1>b, <2>1 DEF CopyTypeOK
  <2>5. (copies \in Version /\ faults \in 0..MaxFault)'
    BY <1>3, <1>j, <1>b, <2>1 DEF CopyTypeOK, Version
  <2>6. (windows => past = {dir})'
    BY <1>3, <1>j, <1>b, <2>1 DEF DirInv, CopyTypeOK
  <2>7. (~windows => ~staged)'
    BY <1>3, <1>j, <1>b, <2>1 DEF DirInv, CopyTypeOK
  <2>8. (dir \in past /\ (dir.phase \in {"none", "preparing"} => \A d \in past : d.phase # "committing"))'
    BY <1>3, <1>j, <1>b, <2>1 DEF DirInv, CopyTypeOK, StepInv
  <2>9. (\A d \in past : Sound(d))'
    BY <1>3, <1>j, <1>b, <2>1 DEF DirInv, CopyTypeOK, StepInv, Sound
  <2>10. RuntimeInv'
    BY <1>3, <1>j, <1>b, <2>1 DEF RuntimeInv, DirInv, CopyTypeOK, StepInv, Sound
  <2>11. StepInv'
    BY <1>3, <1>j, <1>b, <2>1 DEF DirInv, CopyTypeOK, StepInv, Sound, Operation
  <2> QED
    BY <2>1, <2>2, <2>3, <2>4, <2>5, <2>6, <2>7, <2>8, <2>9, <2>10, <2>11 DEF DirInv, CopyTypeOK
<1> QED
  BY <1>1, <1>2, <1>3 DEF PlanCopy

LEMMA StageFileStep == ASSUME CopyInv, NEW f \in File, StageFile(f) PROVE CopyInv'
<1> USE CopyAssumption DEF CopyAssumption, CopyInv, StageFile, At, Works, Fails, registry
<1>1. CASE Works /\ stage' = stage \cup {f} /\ UNCHANGED op
  <2>1. op' \in Operation /\ op' = op
    BY <1>1 DEF CopyTypeOK, Operation, Step
  <2>2. CopyTypeOK'
    BY <1>1, <2>1 DEF CopyTypeOK, Dir, Version, Phase
  <2>3. DirInv'
    BY <1>1, <2>1 DEF DirInv, CopyTypeOK, StepInv
  <2>4. (\A d \in past : Sound(d))'
    BY <1>1, <2>1 DEF DirInv, CopyTypeOK, StepInv, Sound
  <2>5. RuntimeInv'
    BY <1>1, <2>1 DEF RuntimeInv, DirInv, CopyTypeOK, StepInv, Sound
  <2>6. StepInv'
    BY <1>1, <2>1 DEF DirInv, CopyTypeOK, StepInv, Sound, Operation
  <2> QED
    BY <2>2, <2>3, <2>4, <2>5, <2>6
<1>2. CASE Fails /\ Abort /\ UNCHANGED stage
  <2>1. op' \in Operation /\ op'.at = "abort" /\ op'.next = "idle" /\ op'.todo = op.todo
    BY <1>2 DEF CopyTypeOK, Operation, Step, Abort
  <2>2. CopyTypeOK'
    BY <1>2, <2>1 DEF CopyTypeOK, Dir, Version, Phase
  <2>3. DirInv'
    BY <1>2, <2>1 DEF DirInv, CopyTypeOK, StepInv
  <2>4. (\A d \in past : Sound(d))'
    BY <1>2, <2>1 DEF DirInv, CopyTypeOK, StepInv, Sound
  <2>5. RuntimeInv'
    BY <1>2, <2>1 DEF RuntimeInv, DirInv, CopyTypeOK, StepInv, Sound
  <2>6. StepInv'
    BY <1>2, <2>1 DEF DirInv, CopyTypeOK, StepInv, Sound, Operation
  <2> QED
    BY <2>2, <2>3, <2>4, <2>5, <2>6
<1> QED
  BY <1>1, <1>2 DEF StageFile

LEMMA StageCredentialPromotionsStep == CopyInv /\ StageCredentialPromotions => CopyInv'
<1> SUFFICES ASSUME CopyInv, StageCredentialPromotions PROVE CopyInv'
  OBVIOUS
<1> USE CopyAssumption DEF CopyAssumption, CopyInv, StageCredentialPromotions, At, Works, Fails, registry
<1>1. CASE Works /\ staged' = windows /\ Goto("commit")
  <2>1. op' \in Operation /\ op'.at = "commit" /\ op'.next = op.next /\ op'.todo = op.todo
    BY <1>1 DEF CopyTypeOK, Operation, Step, Goto
  <2>2. CopyTypeOK'
    BY <1>1, <2>1 DEF CopyTypeOK, Dir, Version, Phase
  <2>3. DirInv'
    BY <1>1, <2>1 DEF DirInv, CopyTypeOK, StepInv
  <2>4. (\A d \in past : Sound(d))'
    BY <1>1, <2>1 DEF DirInv, CopyTypeOK, StepInv, Sound
  <2>5. RuntimeInv'
    BY <1>1, <2>1 DEF RuntimeInv, DirInv, CopyTypeOK, StepInv, Sound
  <2>6. StepInv'
    BY <1>1, <2>1 DEF DirInv, CopyTypeOK, StepInv, Sound, Operation
  <2> QED
    BY <2>2, <2>3, <2>4, <2>5, <2>6
<1>2. CASE Fails /\ staged' \in {FALSE, windows} /\ Abort
  <2>1. op' \in Operation /\ op'.at = "abort" /\ op'.next = "idle" /\ op'.todo = op.todo
    BY <1>2 DEF CopyTypeOK, Operation, Step, Abort
  <2>2. (dir \in Dir /\ past \subseteq Dir)'
    BY <1>2, <2>1 DEF CopyTypeOK, Version, Phase, Dir
  <2>3. (stage \subseteq File /\ creds \subseteq Version /\ runtime \subseteq Version)'
    BY <1>2, <2>1 DEF CopyTypeOK, Dir, Version
  <2>4. (staged \in BOOLEAN /\ windows \in BOOLEAN /\ deleting \in BOOLEAN /\ gone \in BOOLEAN)'
    BY <1>2, <2>1 DEF CopyTypeOK
  <2>5. (copies \in Version /\ faults \in 0..MaxFault)'
    BY <1>2, <2>1 DEF CopyTypeOK, Version
  <2>6. (windows => past = {dir})'
    BY <1>2, <2>1 DEF DirInv, CopyTypeOK
  <2>7. (~windows => ~staged)'
    BY <1>2, <2>1 DEF DirInv, CopyTypeOK
  <2>8. (dir \in past /\ (dir.phase \in {"none", "preparing"} => \A d \in past : d.phase # "committing"))'
    BY <1>2, <2>1 DEF DirInv, CopyTypeOK, StepInv
  <2>9. (\A d \in past : Sound(d))'
    BY <1>2, <2>1 DEF DirInv, CopyTypeOK, StepInv, Sound
  <2>10. RuntimeInv'
    BY <1>2, <2>1 DEF RuntimeInv, DirInv, CopyTypeOK, StepInv, Sound
  <2>11. StepInv'
    BY <1>2, <2>1 DEF DirInv, CopyTypeOK, StepInv, Sound, Operation
  <2> QED
    BY <2>1, <2>2, <2>3, <2>4, <2>5, <2>6, <2>7, <2>8, <2>9, <2>10, <2>11 DEF DirInv, CopyTypeOK
<1> QED
  BY <1>1, <1>2 DEF StageCredentialPromotions

LEMMA CommitCopyStep == CopyInv /\ CommitCopy => CopyInv'
<1> SUFFICES ASSUME CopyInv, CommitCopy PROVE CopyInv'
  OBVIOUS
<1> USE CopyAssumption DEF CopyAssumption, CopyInv, CommitCopy, At, Works, Fails, Renamed, WriteAtomicDurable, registry
<1> DEFINE d0 == Journal("committing", dir.ver)
<1>j. d0 \in Dir /\ d0.files = dir.files /\ d0.phase = "committing" /\ d0.ver = dir.ver
  BY DEF CopyInv, CopyTypeOK, Dir, Version, Phase, Journal
<1>1. CASE Fails /\ Abort /\ UNCHANGED <<dir, past, runtime>>
  <2>1. op' \in Operation /\ op'.at = "abort" /\ op'.next = "idle" /\ op'.todo = op.todo
    BY <1>1 DEF CopyTypeOK, Operation, Step, Abort
  <2> HIDE DEF d0
  <2>2. CopyTypeOK'
    BY <1>1, <1>j, <2>1 DEF CopyTypeOK, Dir, Version, Phase
  <2>3. DirInv'
    BY <1>1, <1>j, <2>1 DEF DirInv, CopyTypeOK, StepInv
  <2>4. (\A d \in past : Sound(d))'
    BY <1>1, <1>j, <2>1 DEF DirInv, CopyTypeOK, StepInv, Sound
  <2>5. RuntimeInv'
    BY <1>1, <1>j, <2>1 DEF RuntimeInv, DirInv, CopyTypeOK, StepInv, Sound
  <2>6. StepInv'
    BY <1>1, <1>j, <2>1 DEF DirInv, CopyTypeOK, StepInv, Sound, Operation
  <2> QED
    BY <2>2, <2>3, <2>4, <2>5, <2>6
<1>2. CASE Fails /\ Renamed(d0) /\ KeepsUnsynced /\ runtime' = {}
  <2>1. op' \in Operation /\ op'.at = "idle" /\ op'.next = "idle" /\ op'.todo = {}
    BY <1>2 DEF CopyTypeOK, Operation, Step, KeepsUnsynced, Return, Idle
  <2> HIDE DEF d0
  <2>2. CopyTypeOK'
    BY <1>2, <1>j, <2>1 DEF CopyTypeOK, Dir, Version, Phase
  <2>3. DirInv'
    BY <1>2, <1>j, <2>1 DEF DirInv, CopyTypeOK, StepInv
  <2>4. (\A d \in past : Sound(d))'
    BY <1>2, <1>j, <2>1 DEF DirInv, CopyTypeOK, StepInv, Sound
  <2>5. RuntimeInv'
    BY <1>2, <1>j, <2>1 DEF RuntimeInv, DirInv, CopyTypeOK, StepInv, Sound
  <2>6. StepInv'
    BY <1>2, <1>j, <2>1 DEF DirInv, CopyTypeOK, StepInv, Sound, Operation
  <2> QED
    BY <2>2, <2>3, <2>4, <2>5, <2>6
<1>3. CASE /\ Works /\ WriteAtomicDurable(d0) /\ runtime' = {}
             /\ op' = [op EXCEPT !.at = "recover", !.next = "build"]
  <2>1. op' \in Operation /\ op'.at = "recover" /\ op'.next = "build" /\ op'.todo = op.todo
    BY <1>3, ZenonT(30) DEF CopyTypeOK, Operation, Step
  <2> HIDE DEF d0
  <2>2. CopyTypeOK'
    BY <1>3, <1>j, <2>1 DEF CopyTypeOK, Dir, Version, Phase
  <2>3. DirInv'
    BY <1>3, <1>j, <2>1 DEF DirInv, CopyTypeOK, StepInv
  <2>4. (\A d \in past : Sound(d))'
    BY <1>3, <1>j, <2>1 DEF DirInv, CopyTypeOK, StepInv, Sound
  <2>5. RuntimeInv'
    BY <1>3, <1>j, <2>1 DEF RuntimeInv, DirInv, CopyTypeOK, StepInv, Sound
  <2>6. StepInv'
    BY <1>3, <1>j, <2>1 DEF DirInv, CopyTypeOK, StepInv, Sound, Operation
  <2> QED
    BY <2>2, <2>3, <2>4, <2>5, <2>6
<1> QED
  BY <1>1, <1>2, <1>3 DEF CommitCopy

LEMMA BuildRuntimeStep == CopyInv /\ BuildRuntime => CopyInv'
<1> SUFFICES ASSUME CopyInv, BuildRuntime PROVE CopyInv'
  OBVIOUS
<1> USE CopyAssumption DEF CopyAssumption, CopyInv, BuildRuntime, At, Works, Fails, Return, Idle, Built, disk, registry
<1>1. CopyTypeOK'
  <2>1. Built \subseteq Version
    BY DEF CopyTypeOK, Dir
  <2>2. runtime' \subseteq Version
    BY <2>1 DEF CopyTypeOK
  <2>3. op' \in Operation
    BY DEF Operation, Step
  <2>4. faults' \in 0..MaxFault
    BY DEF CopyTypeOK
  <2> QED
    BY <2>2, <2>3, <2>4 DEF CopyTypeOK
<1>2. DirInv'
  BY DEF DirInv, CopyTypeOK, Dir, StepInv
<1>3. (\A d \in past : Sound(d))'
  BY DEF DirInv, CopyTypeOK, Dir, StepInv, Sound
<1>4. RuntimeInv'
  BY DEF RuntimeInv, DirInv, CopyTypeOK, Dir, StepInv, Sound
<1>5. StepInv'
  BY DEF DirInv, CopyTypeOK, Dir, StepInv, Sound, Operation
<1> QED
  BY <1>1, <1>2, <1>3, <1>4, <1>5 DEF CopyInv

(* Enabling, deleting and crashing do.                                     *)
LEMMA EnableStep == CopyInv /\ Enable => CopyInv'
<1> SUFFICES ASSUME CopyInv, Enable PROVE CopyInv'
  OBVIOUS
<1> USE CopyAssumption DEF CopyAssumption, CopyInv, Enable, Begin, Idle, disk, registry
<1>1. CopyTypeOK'
  BY DEF CopyTypeOK, Dir, Version, Phase, Step, Operation
<1>2. DirInv'
  BY DEF DirInv, CopyTypeOK, Dir, StepInv
<1>3. (\A d \in past : Sound(d))'
  BY DEF DirInv, CopyTypeOK, Dir, StepInv, Sound
<1>4. RuntimeInv'
  BY DEF RuntimeInv, DirInv, CopyTypeOK, Dir, StepInv, Sound
<1>5. StepInv'
  BY DEF DirInv, CopyTypeOK, Dir, StepInv, Sound, Operation
<1> QED
  BY <1>1, <1>2, <1>3, <1>4, <1>5 DEF CopyInv

LEMMA BeginDeleteStep == CopyInv /\ BeginDelete => CopyInv'
<1> SUFFICES ASSUME CopyInv, BeginDelete PROVE CopyInv'
  OBVIOUS
<1> USE CopyAssumption DEF CopyAssumption, CopyInv, BeginDelete, Begin, Idle, disk, registry
<1>1. CopyTypeOK'
  BY DEF CopyTypeOK, Dir, Version, Phase, Step, Operation
<1>2. DirInv'
  BY DEF DirInv, CopyTypeOK, Dir, StepInv
<1>3. (\A d \in past : Sound(d))'
  BY DEF DirInv, CopyTypeOK, Dir, StepInv, Sound
<1>4. RuntimeInv'
  BY DEF RuntimeInv, DirInv, CopyTypeOK, Dir, StepInv, Sound
<1>5. StepInv'
  BY DEF DirInv, CopyTypeOK, Dir, StepInv, Sound, Operation
<1> QED
  BY <1>1, <1>2, <1>3, <1>4, <1>5 DEF CopyInv

LEMMA MarkDeletingStep == CopyInv /\ MarkDeleting => CopyInv'
<1> SUFFICES ASSUME CopyInv, MarkDeleting PROVE CopyInv'
  OBVIOUS
<1> USE CopyAssumption DEF CopyAssumption, CopyInv, MarkDeleting, At, Works, Fails, disk
<1>1. CASE Works /\ deleting' = TRUE /\ runtime' = {} /\ Goto("remove")
  <2>1. op' \in Operation /\ op'.at = "remove" /\ op'.next = op.next /\ op'.todo = op.todo
    BY <1>1 DEF CopyTypeOK, Operation, Step, Goto
  <2>2. CopyTypeOK'
    BY <1>1, <2>1 DEF CopyTypeOK, Dir, Version, Phase
  <2>3. DirInv'
    BY <1>1, <2>1 DEF DirInv, CopyTypeOK, StepInv
  <2>4. (\A d \in past : Sound(d))'
    BY <1>1, <2>1 DEF DirInv, CopyTypeOK, StepInv, Sound
  <2>5. RuntimeInv'
    BY <1>1, <2>1 DEF RuntimeInv, DirInv, CopyTypeOK, StepInv, Sound
  <2>6. StepInv'
    BY <1>1, <2>1 DEF DirInv, CopyTypeOK, StepInv, Sound, Operation
  <2> QED
    BY <2>2, <2>3, <2>4, <2>5, <2>6
<1>2. CASE Fails /\ Return /\ UNCHANGED <<deleting, runtime>>
  <2>1. op' \in Operation /\ op'.at = "idle" /\ op'.next = "idle" /\ op'.todo = {}
    BY <1>2 DEF CopyTypeOK, Operation, Step, Return, Idle
  <2>2. CopyTypeOK'
    BY <1>2, <2>1 DEF CopyTypeOK, Dir, Version, Phase
  <2>3. DirInv'
    BY <1>2, <2>1 DEF DirInv, CopyTypeOK, StepInv
  <2>4. (\A d \in past : Sound(d))'
    BY <1>2, <2>1 DEF DirInv, CopyTypeOK, StepInv, Sound
  <2>5. RuntimeInv'
    BY <1>2, <2>1 DEF RuntimeInv, DirInv, CopyTypeOK, StepInv, Sound
  <2>6. StepInv'
    BY <1>2, <2>1 DEF DirInv, CopyTypeOK, StepInv, Sound, Operation
  <2> QED
    BY <2>2, <2>3, <2>4, <2>5, <2>6
<1> QED
  BY <1>1, <1>2 DEF MarkDeleting

LEMMA RemoveInstanceStep == CopyInv /\ RemoveInstance => CopyInv'
<1> SUFFICES ASSUME CopyInv, RemoveInstance PROVE CopyInv'
  OBVIOUS
<1> USE CopyAssumption DEF CopyAssumption, CopyInv, RemoveInstance, At, Works, Fails
<1>1. CASE Works /\ creds' = {} /\ gone' = TRUE /\ Return
  <2>1. op' \in Operation /\ op'.at = "idle" /\ op'.next = "idle" /\ op'.todo = {}
    BY <1>1 DEF CopyTypeOK, Operation, Step, Return, Idle
  <2>2. CopyTypeOK'
    BY <1>1, <2>1 DEF CopyTypeOK, Dir, Version, Phase
  <2>3. DirInv'
    BY <1>1, <2>1 DEF DirInv, CopyTypeOK, StepInv
  <2>4. (\A d \in past : Sound(d))'
    BY <1>1, <2>1 DEF DirInv, CopyTypeOK, StepInv, Sound
  <2>5. RuntimeInv'
    BY <1>1, <2>1 DEF RuntimeInv, DirInv, CopyTypeOK, StepInv, Sound
  <2>6. StepInv'
    BY <1>1, <2>1, SMTT(20) DEF DirInv, CopyTypeOK, StepInv, Sound, Operation
  <2> QED
    BY <2>1, <2>2, <2>3, <2>4, <2>5, <2>6, SMTT(20) DEF DirInv, CopyTypeOK
<1>2. CASE Fails /\ creds' \in SUBSET creds /\ Return /\ UNCHANGED gone
  <2>1. op' \in Operation /\ op'.at = "idle" /\ op'.next = "idle" /\ op'.todo = {}
    BY <1>2 DEF CopyTypeOK, Operation, Step, Return, Idle
  <2>2. CopyTypeOK'
    BY <1>2, <2>1 DEF CopyTypeOK, Dir, Version, Phase
  <2>3. DirInv'
    BY <1>2, <2>1 DEF DirInv, CopyTypeOK, StepInv
  <2>4. (\A d \in past : Sound(d))'
    BY <1>2, <2>1 DEF DirInv, CopyTypeOK, StepInv, Sound
  <2>5. RuntimeInv'
    BY <1>2, <2>1 DEF RuntimeInv, DirInv, CopyTypeOK, StepInv, Sound
  <2>6. StepInv'
    BY <1>2, <2>1 DEF DirInv, CopyTypeOK, StepInv, Sound, Operation
  <2> QED
    BY <2>2, <2>3, <2>4, <2>5, <2>6
<1> QED
  BY <1>1, <1>2 DEF RemoveInstance

LEMMA CrashStep == CopyInv /\ Crash => CopyInv'
<1> SUFFICES ASSUME CopyInv, Crash PROVE CopyInv'
  OBVIOUS
<1> USE CopyAssumption DEF CopyAssumption, CopyInv, Crash, Fails, registry
<1>1. CopyTypeOK'
  BY DEF CopyTypeOK, Dir, Version, Phase, Step, Operation
<1>2. DirInv'
  BY SMTT(20) DEF DirInv, CopyTypeOK, Dir, StepInv
<1>3. (\A d \in past : Sound(d))'
  BY DEF DirInv, CopyTypeOK, Dir, StepInv, Sound
<1>4. RuntimeInv'
  BY DEF RuntimeInv, DirInv, CopyTypeOK, Dir, StepInv, Sound
<1>5. StepInv'
  BY DEF DirInv, CopyTypeOK, Dir, StepInv, Sound, Operation
<1> QED
  BY <1>1, <1>2, <1>3, <1>4, <1>5 DEF CopyInv

-----------------------------------------------------------------------------

LEMMA CopyInvStarts == CopyInit => CopyInv
<1> SUFFICES ASSUME CopyInit PROVE CopyInv
  OBVIOUS
<1> USE CopyAssumption DEF CopyAssumption
<1>1. 0 \in Version /\ 0 \in 0..MaxFault
  BY DEF Version
<1>2. CopyTypeOK
  <2>1. dir \in Dir /\ past \subseteq Dir /\ stage \subseteq File /\ op \in Operation
    BY <1>1 DEF CopyInit, Dir, Phase, Operation, Step, Idle
  <2>2. staged \in BOOLEAN /\ windows \in BOOLEAN /\ deleting \in BOOLEAN /\ gone \in BOOLEAN
    BY DEF CopyInit
  <2>3. creds \subseteq Version /\ runtime \subseteq Version /\ copies \in Version /\ faults \in 0..MaxFault
    BY <1>1 DEF CopyInit
  <2> QED
    BY <2>1, <2>2, <2>3 DEF CopyTypeOK
<1>3. \A d \in past : Sound(d)
  BY DEF CopyInit, Sound
<1>4. StepInv
  BY DEF CopyInit, StepInv, Idle
<1> QED
  BY <1>2, <1>3, <1>4 DEF CopyInit, CopyInv, DirInv, RuntimeInv

LEMMA CopyInvStays == CopyInv /\ [CopyNext]_copyVars => CopyInv'
<1> SUFFICES ASSUME CopyInv, [CopyNext]_copyVars PROVE CopyInv'
  OBVIOUS
<1>1. CASE recoverCopyTransaction
  BY <1>1, RecoverStep, CommitCredentialPromotionsStep, DeleteOldCredentialsStep, InstallFileStep,
     InstalledStep, MarkAppliedStep, CleanupCredentialPromotionsStep, RemoveCopyStageStep,
     RemoveJournalStep DEF recoverCopyTransaction
<1>2. CASE Copy
  BY <1>2, AbortCopyTransactionStep, BeginCopyStep, PlanCopyStep, StageFileStep,
     StageCredentialPromotionsStep, CommitCopyStep, BuildRuntimeStep DEF Copy
<1>3. CASE Enable \/ Delete \/ Crash
  BY <1>3, EnableStep, BeginDeleteStep, MarkDeletingStep, RemoveInstanceStep, CrashStep DEF Delete
<1>4. CASE UNCHANGED copyVars
  BY <1>4 DEF copyVars, CopyInv, CopyTypeOK, DirInv, RuntimeInv, Sound, StepInv
<1> QED
  BY <1>1, <1>2, <1>3, <1>4 DEF CopyNext

(* Whatever the configuration files, and however many copies are made and  *)
(* steps fail: a runtime is built from one version, the files outside a    *)
(* commit are of one version and have their credentials, and a commit can  *)
(* be carried out (Copy, copy_transaction.go).                             *)
THEOREM CopyStaysAtomic == CopySpec => []CopyIsAtomic
<1>1. CopyInv => CopyIsAtomic
  BY DEF CopyInv, DirInv, RuntimeInv, CopyIsAtomic, Sound
<1> QED
  BY <1>1, CopyInvStarts, CopyInvStays, PTL DEF CopySpec
=============================================================================
