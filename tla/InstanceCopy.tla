---------------------------- MODULE InstanceCopy ----------------------------
(***************************************************************************)
(* Quick configuration and deletion of an instance kept in files           *)
(* (internal/instance: Copy, Enable and Delete of a manager without a      *)
(* database, and copy_transaction.go).                                     *)
(*                                                                         *)
(* A copy replaces every configuration file of the target, and on Windows  *)
(* its credentials, by fresh copies of the source's.  It keeps a journal   *)
(* in the target's directory: while it says "preparing" the copy can be    *)
(* undone, from "committing" on it is carried out, again if need be, and   *)
(* once it says "applied" only clearing up is left.                        *)
(*                                                                         *)
(* A version numbers what one copy installs; 0 is what the target held     *)
(* before.  The operations of an instance exclude each other (i.op).       *)
(* Renames within a directory reach the disk in their order: after a loss  *)
(* of power the directory is as it was at some moment since it was last    *)
(* synced.  On Windows, where directories are not synced, only the process *)
(* dies.                                                                   *)
(***************************************************************************)
EXTENDS Integers, FiniteSets

CONSTANTS File,      \* the configuration files
          MaxCopy,   \* bound on copies
          MaxFault   \* bound on failures and crashes together

ASSUME CopyAssumption == File # {} /\ MaxCopy \in Nat /\ MaxFault \in Nat

VARIABLES dir,       \* the target's directory: the version of each file, the journal
          past,      \* what a loss of power may turn it back into
          stage,     \* the files of the journal's stage directory
          staged,    \* the credentials staged for the journal's copy are there
          creds,     \* the versions whose credentials are in place
          windows,   \* credentials are kept by the system, directories not synced
          runtime,   \* the versions of the files the target's runtime was built from
          deleting,  \* the target is marked for deletion
          gone,      \* it has left the registry
          op,        \* the operation in progress
          copies,    \* copies started
          faults

copyVars == <<dir, past, stage, staged, creds, windows, runtime, deleting, gone, op, copies, faults>>
disk     == <<dir, past, stage, staged, creds>>
registry == <<deleting, gone>>

Version == 0..MaxCopy
Phase   == {"none", "preparing", "committing", "applied"}
Dir     == [files : [File -> Version], phase : Phase, ver : Version]

(* Where the operation stands, what follows its recovery, and the files    *)
(* the recovery has still to install.                                      *)
Step == {"idle", "recover", "promote", "install", "mark", "cleanup", "unstage", "erase",
         "abort", "plan", "stage", "commit", "build", "delete", "remove"}
Operation == [at : Step, next : {"idle", "plan", "build", "delete"}, todo : SUBSET File]
Idle      == [at |-> "idle", next |-> "idle", todo |-> {}]

CopyInit ==
    /\ dir = [files |-> [f \in File |-> 0], phase |-> "none", ver |-> 0] /\ past = {dir}
    /\ stage = {} /\ staged = FALSE /\ windows \in BOOLEAN
    /\ creds = IF windows THEN {0} ELSE {}
    /\ runtime = {0} /\ deleting = FALSE /\ gone = FALSE /\ op = Idle /\ copies = 0 /\ faults = 0

-----------------------------------------------------------------------------
(* The steps operations are made of.                                       *)

Fails == faults < MaxFault /\ faults' = faults + 1
Works == UNCHANGED faults
At(a) == op.at = a /\ ~gone
Goto(a) == op' = [op EXCEPT !.at = a]
Return  == op' = Idle
Built   == {dir.files[f] : f \in File}

(* os.Rename, os.Remove: seen at once, on disk at the next sync.           *)
Renamed(d) == dir' = d /\ past' = IF windows THEN {d} ELSE past \cup {d}

(* WriteAtomicDurable: renamed and synced.                                 *)
WriteAtomicDurable(d) == dir' = d /\ past' = {d}

Journal(p, v) == [dir EXCEPT !.phase = p, !.ver = v]

(* writeCopyTransaction.                                                   *)
writeCopyTransaction(p, v) == WriteAtomicDurable(Journal(p, v))

-----------------------------------------------------------------------------
(* recoverCopyTransaction, called first by every operation, last by Copy,  *)
(* and for every instance when the manager starts.                         *)

(* A mutant: an applied journal is believed without being written again.   *)
AppliedIsEnough(p) == CASE p = "none" -> op.next [] p = "preparing" -> "abort"
                        [] p = "committing" -> "promote" [] p = "applied" -> "cleanup"

readCopyTransaction(p) == CASE p = "none" -> op.next [] p = "preparing" -> "abort"
                            [] p = "committing" -> "promote" [] p = "applied" -> "mark"

Recover ==
    /\ At("recover") /\ Works
    /\ op' = [op EXCEPT !.at = readCopyTransaction(dir.phase), !.todo = File]
    /\ UNCHANGED <<disk, windows, runtime, registry, copies>>

(* CommitCredentialPromotions: staged values become the target's, those of *)
(* earlier versions are removed; where credentials are files, nothing.     *)
(* An endpoint ledger that cannot be written ends the recovery before it.  *)
CommitCredentialPromotions ==
    /\ At("promote")
    /\ \/ Fails /\ Return /\ UNCHANGED creds
       \/ /\ Works /\ stage = File /\ (windows => staged) /\ Goto("install")
          /\ creds' = IF windows THEN creds \cup {dir.ver} ELSE creds
       \/ Works /\ ~(stage = File /\ (windows => staged)) /\ Return /\ UNCHANGED creds
    /\ UNCHANGED <<dir, past, stage, staged, windows, runtime, registry, copies>>

DeleteOldCredentials ==
    /\ At("install") /\ creds \ {dir.ver} # {} /\ windows
    /\ \/ Fails /\ Return /\ UNCHANGED creds
       \/ Works /\ creds' = creds \cap {dir.ver} /\ UNCHANGED op
    /\ UNCHANGED <<dir, past, stage, staged, windows, runtime, registry, copies>>

(* One staged file takes its place.  The rename may be seen and its sync   *)
(* fail; the recovery then ends, to be started over.                       *)
InstallFile(f) ==
    LET d == [dir EXCEPT !.files[f] = dir.ver] IN
    /\ At("install") /\ f \in op.todo /\ (windows => creds \subseteq {dir.ver})
    /\ \/ Works /\ WriteAtomicDurable(d) /\ op' = [op EXCEPT !.todo = @ \ {f}]
       \/ Fails /\ Renamed(d) /\ Return
       \/ Fails /\ Return /\ UNCHANGED <<dir, past>>
    /\ UNCHANGED <<stage, staged, creds, windows, runtime, registry, copies>>

(* A mutant: the journal says applied before the last file is in place.    *)
AnyInstalled == Cardinality(op.todo) < 2

AllInstalled == op.todo = {}

Installed ==
    /\ At("install") /\ AllInstalled /\ Works /\ Goto("mark")
    /\ UNCHANGED <<disk, windows, runtime, registry, copies>>

(* The journal says applied, durably, before anything is cleared up.       *)
MarkApplied ==
    LET d == Journal("applied", dir.ver) IN
    /\ At("mark")
    /\ \/ Works /\ WriteAtomicDurable(d) /\ Goto("cleanup")
       \/ Fails /\ Renamed(d) /\ Return
       \/ Fails /\ Return /\ UNCHANGED <<dir, past>>
    /\ UNCHANGED <<stage, staged, creds, windows, runtime, registry, copies>>

CleanupCredentialPromotions ==
    /\ At("cleanup")
    /\ \/ Works /\ staged' = FALSE /\ Goto("unstage")
       \/ Fails /\ Return /\ UNCHANGED staged
    /\ UNCHANGED <<dir, past, stage, creds, windows, runtime, registry, copies>>

(* os.RemoveAll may fail after some files.                                 *)
removeCopyStage ==
    /\ At("unstage")
    /\ \/ Works /\ stage' = {} /\ Goto("erase")
       \/ Fails /\ stage' \in SUBSET stage /\ Return
    /\ UNCHANGED <<dir, past, staged, creds, windows, runtime, registry, copies>>

(* Without its journal the transaction is over, and its caller goes on.    *)
RemoveJournal ==
    /\ At("erase")
    /\ \/ Works /\ Renamed(Journal("none", 0)) /\ Goto(op.next)
       \/ Fails /\ Return /\ UNCHANGED <<dir, past>>
    /\ UNCHANGED <<stage, staged, creds, windows, runtime, registry, copies>>

(* abortCopyTransaction: both are tried, and the journal goes only if both *)
(* worked.                                                                 *)
abortCopyTransaction ==
    /\ At("abort")
    /\ \/ Works /\ staged' = FALSE /\ stage' = {} /\ Goto("erase")
       \/ Fails /\ staged' \in {FALSE, staged} /\ stage' \in SUBSET stage /\ Return
    /\ UNCHANGED <<dir, past, creds, windows, runtime, registry, copies>>

recoverCopyTransaction ==
    \/ Recover \/ CommitCredentialPromotions \/ DeleteOldCredentials
    \/ \E f \in File : InstallFile(f)
    \/ Installed \/ MarkApplied \/ CleanupCredentialPromotions \/ removeCopyStage \/ RemoveJournal

-----------------------------------------------------------------------------
(* Copy.                                                                   *)

Begin(next) == op = Idle /\ ~gone /\ op' = [at |-> "recover", next |-> next, todo |-> {}]

(* A failed step of the preparation: what was staged is removed again.     *)
Abort == op' = [op EXCEPT !.at = "abort", !.next = "idle"]

BeginCopy ==
    /\ ~deleting /\ copies < MaxCopy /\ Begin("plan") /\ copies' = copies + 1
    /\ UNCHANGED <<disk, windows, runtime, registry, faults>>

(* The target's stopped runtime is built if it has none; the source is     *)
(* read, fresh endpoints are numbered, the journal is written.  A target   *)
(* found enabled, and whatever fails before the journal, ends the copy.    *)
PlanCopy ==
    /\ At("plan")
    /\ \/ Works /\ writeCopyTransaction("preparing", copies) /\ Goto("stage")
       \/ Fails /\ Renamed(Journal("preparing", copies)) /\ Abort
       \/ Fails /\ Return /\ UNCHANGED <<dir, past>>
    /\ \/ runtime' = IF runtime = {} THEN Built ELSE runtime
       \/ op' = Idle /\ UNCHANGED runtime
    /\ stage' = {}
    /\ UNCHANGED <<staged, creds, windows, registry, copies>>

(* The files, with dialogue.yml parsed, are written into the stage.        *)
StageFile(f) ==
    /\ At("stage") /\ f \notin stage
    /\ \/ Works /\ stage' = stage \cup {f} /\ UNCHANGED op
       \/ Fails /\ Abort /\ UNCHANGED stage
    /\ UNCHANGED <<dir, past, staged, creds, windows, runtime, registry, copies>>

StageCredentialPromotions ==
    /\ At("stage") /\ stage = File
    /\ \/ Works /\ staged' = windows /\ Goto("commit")
       \/ Fails /\ staged' \in {FALSE, windows} /\ Abort
    /\ UNCHANGED <<dir, past, stage, creds, windows, runtime, registry, copies>>

(* A mutant: a commit whose sync failed is undone as if it had not been    *)
(* written.                                                                *)
UndoesUnsynced == Abort

KeepsUnsynced == Return

(* A runtime built from the stage shows that it is sound; then the journal *)
(* says committing.  From then on the target has no runtime until it is    *)
(* carried out.                                                            *)
CommitCopy ==
    LET d == Journal("committing", dir.ver) IN
    /\ At("commit")
    /\ \/ Fails /\ Abort /\ UNCHANGED <<dir, past, runtime>>
       \/ Fails /\ Renamed(d) /\ KeepsUnsynced /\ runtime' = {}
       \/ Works /\ WriteAtomicDurable(d) /\ runtime' = {}
          /\ op' = [op EXCEPT !.at = "recover", !.next = "build"]
    /\ UNCHANGED <<stage, staged, creds, windows, registry, copies>>

(* The target's new runtime, also that of Enable; it may fail to build.    *)
(* An Enable that finds the target as asked, or cannot stop it, leaves it. *)
BuildRuntime ==
    /\ At("build") /\ Return
    /\ \/ Works /\ runtime' = Built
       \/ Fails /\ runtime' = {}
       \/ Works /\ runtime # {} /\ UNCHANGED runtime
    /\ UNCHANGED <<disk, windows, registry, copies>>

Copy == BeginCopy \/ PlanCopy \/ (\E f \in File : StageFile(f)) \/ StageCredentialPromotions
        \/ CommitCopy \/ BuildRuntime \/ abortCopyTransaction

-----------------------------------------------------------------------------
(* Enable, Delete, and the end of the process.                             *)

Enable ==
    /\ ~deleting /\ Begin("build")
    /\ UNCHANGED <<disk, windows, runtime, registry, copies, faults>>

BeginDelete ==
    /\ Begin("delete")
    /\ UNCHANGED <<disk, windows, runtime, registry, copies, faults>>

(* Marked in the registry before anything is removed, and without a        *)
(* runtime from then on.                                                   *)
MarkDeleting ==
    /\ At("delete")
    /\ \/ Works /\ deleting' = TRUE /\ runtime' = {} /\ Goto("remove")
       \/ Fails /\ Return /\ UNCHANGED <<deleting, runtime>>
    /\ UNCHANGED <<disk, windows, gone, copies>>

(* Credentials, then files, then the registry's entry; a failure leaves    *)
(* the mark, and Delete is to be called again.                             *)
RemoveInstance ==
    /\ At("remove")
    /\ \/ Works /\ creds' = {} /\ gone' = TRUE /\ Return
       \/ Fails /\ creds' \in SUBSET creds /\ Return /\ UNCHANGED gone
    /\ UNCHANGED <<dir, past, stage, staged, windows, runtime, deleting, copies>>

Delete == BeginDelete \/ MarkDeleting \/ RemoveInstance

(* The process dies, or the power fails; the manager then starts, with a   *)
(* recovery of every instance.                                             *)
Crash ==
    /\ ~gone /\ Fails /\ dir' \in past /\ past' = {dir'}
    /\ runtime' = {} /\ op' = [at |-> "recover", next |-> "idle", todo |-> {}]
    /\ UNCHANGED <<stage, staged, creds, windows, registry, copies>>

CopyNext == recoverCopyTransaction \/ Copy \/ Enable \/ Delete \/ Crash

CopySpec == CopyInit /\ [][CopyNext]_copyVars

-----------------------------------------------------------------------------

(* Every variable of the file-based instance has its type.                 *)
CopyTypeOK ==
    /\ dir \in Dir /\ past \subseteq Dir /\ stage \subseteq File
    /\ staged \in BOOLEAN /\ windows \in BOOLEAN /\ deleting \in BOOLEAN /\ gone \in BOOLEAN
    /\ creds \subseteq Version /\ runtime \subseteq Version
    /\ op \in Operation /\ copies \in Version /\ faults \in 0..MaxFault

(* However often copies fail, their syncs fail, or the process dies: a     *)
(* runtime is built from one version only; outside a commit the target's   *)
(* files are of one version, the one the journal names if it is applied,   *)
(* and have their credentials; a commit, if the directory shows one, has   *)
(* everything it needs to be carried out; staged credentials have a        *)
(* journal to remove them by; and a target marked for deletion has no      *)
(* runtime (Copy, recoverCopyTransaction, Delete).                         *)
CopyIsAtomic ==
    /\ \A v, w \in runtime : v = w
    /\ deleting => runtime = {}
    /\ dir.phase # "committing" => \A f, g \in File : dir.files[f] = dir.files[g]
    /\ dir.phase = "applied" => \A f \in File : dir.files[f] = dir.ver
    /\ dir.phase # "committing" /\ windows /\ ~deleting => \A f \in File : dir.files[f] \in creds
    /\ dir.phase = "committing" => stage = File /\ (windows => staged)
    /\ staged => dir.phase # "none"
=============================================================================
