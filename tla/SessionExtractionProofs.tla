---------------------- MODULE SessionExtractionProofs ----------------------
(***************************************************************************)
(* For any number of extractions, batches and resets: what a reset or a    *)
(* cancellation has revoked writes no more, and the barriers implement the *)
(* abstract revocable writer.                                              *)
(***************************************************************************)
EXTENDS SessionExtraction, TLAPS

Committing(e) == ext[e].pc \in {"writing", "ending"}

\* A batch never has an epoch from the future, and past the first check its
\* barrier was created in its own epoch.
EpochInv(e) ==
  /\ ext[e].pc # "free" => ext[e].epoch <= epoch
  /\ ext[e].pc \in {"calling", "saving", "writing", "ending"} =>
       ext[e].epoch = barrier[e].epoch /\ ext[e].todo > 0

\* A barrier is writing while its extraction commits; an unaborted barrier is
\* registered; what is registered has begun.
BarrierInv(e) ==
  /\ barrier[e].state = "writing" <=> Committing(e)
  /\ ext[e].pc \notin {"free", "queued"} /\ ~barrier[e].aborted => e \in registry
  /\ e \in registry => ext[e].pc \notin {"free", "queued"}

\* The reset knows the commits it has to wait for.
WaitInv(e) ==
  /\ Committing(e) /\ barrier[e].aborted => reset.blocked = e
  /\ Committing(e) /\ ext[e].epoch < epoch => e \in reset.wait \/ reset.blocked = e
  /\ e \in reset.all => ext[e].pc # "queued"
  /\ e \in reset.all \ reset.wait /\ ext[e].pc # "free" => barrier[e].aborted

\* What is revoked is of an older epoch, or its barrier is aborted.
RevokedInv(e) ==
  e \in revoked =>
    /\ ~Committing(e)
    /\ ext[e].pc # "free" => ext[e].epoch < epoch
                             \/ (barrier[e].aborted /\ ext[e].pc # "queued")

ResetInv ==
  /\ reset.pc = "idle" => reset = NoReset
  /\ reset.wait \subseteq reset.all

ExtractionInv ==
  /\ TypeOK
  /\ ResetInv
  /\ \A e \in Extraction : EpochInv(e) /\ BarrierInv(e) /\ WaitInv(e) /\ RevokedInv(e)

-----------------------------------------------------------------------------
USE DEF ExtPC

LEMMA InitInv == Init => ExtractionInv
  BY ConstantsAssumption
  DEF Init, ExtractionInv, TypeOK, ResetInv, EpochInv, BarrierInv, WaitInv, RevokedInv,
      Committing, Free, NoBarrier, NoReset

\* The steps preserve the invariant, action by action.
LEMMA EnqueueInv == ExtractionInv /\ EnqueuePendingTurn => ExtractionInv'
  BY ConstantsAssumption
  DEF ExtractionInv, TypeOK, ResetInv, EpochInv, BarrierInv, WaitInv, RevokedInv,
      Committing, EnqueuePendingTurn, NoReset

LEMMA BeginInv ==
  ASSUME NEW e \in Extraction, ExtractionInv, BeginExtraction(e)
  PROVE  ExtractionInv'
  BY DEF ExtractionInv, TypeOK, ResetInv, EpochInv, BarrierInv, WaitInv, RevokedInv,
      Committing, BeginExtraction, GoTo, NoReset

LEMMA CheckInv ==
  ASSUME NEW e \in Extraction, ExtractionInv, CheckBatch(e)
  PROVE  ExtractionInv'
  BY ConstantsAssumption
  DEF ExtractionInv, TypeOK, ResetInv, EpochInv, BarrierInv, WaitInv, RevokedInv,
      Committing, NoReset, CheckBatch, GoTo, Valid, MoreGroups

LEMMA CallInv ==
  ASSUME NEW e \in Extraction, ExtractionInv, CallReturns(e)
  PROVE  ExtractionInv'
<1> USE ConstantsAssumption DEF ExtractionInv, NoReset
<1>1. TypeOK'
  BY SMTT(30) DEF TypeOK, EpochInv, CallReturns, GoTo, NextGroup, Valid
<1>2. ResetInv'
  BY DEF TypeOK, ResetInv, CallReturns, GoTo, NextGroup, Valid
<1>3. ASSUME NEW f \in Extraction
      PROVE  (EpochInv(f) /\ BarrierInv(f) /\ WaitInv(f) /\ RevokedInv(f))'
  <2>1. CASE f = e
    BY <2>1 DEF TypeOK, ResetInv, EpochInv, BarrierInv, WaitInv, RevokedInv, Committing, CallReturns, GoTo, NextGroup, Valid
  <2>2. CASE f # e
    BY <2>2 DEF TypeOK, ResetInv, EpochInv, BarrierInv, WaitInv, RevokedInv, Committing, CallReturns, GoTo, NextGroup, Valid
  <2> QED BY <2>1, <2>2
<1> QED BY <1>1, <1>2, <1>3

LEMMA TryBeginInv ==
  ASSUME NEW e \in Extraction, ExtractionInv, TryBeginCommit(e)
  PROVE  ExtractionInv'
<1> USE ConstantsAssumption DEF ExtractionInv, NoReset
<1>1. TypeOK'
  <2>1. ext' \in [Extraction -> [pc : ExtPC, epoch : Nat, todo : 0..MaxGroup]]
    BY DEF TypeOK, EpochInv, TryBeginCommit, GoTo, NextGroup
  <2>2. \E state \in {"pending", "writing", "done", "aborted"} : SetState(e, state)
    BY Zenon DEF TypeOK, TryBeginCommit
  <2>3. barrier' \in [Extraction -> [epoch : Nat,
                                    state : {"pending", "writing", "done", "aborted"},
                                    aborted : BOOLEAN, cancelled : BOOLEAN]]
    BY <2>2 DEF TypeOK, SetState
  <2>4. QED
    BY <2>1, <2>3 DEF TypeOK, TryBeginCommit
<1>2. ResetInv'
  BY DEF TypeOK, ResetInv, TryBeginCommit, GoTo, NextGroup, SetState, MayCommit
<1>3. ASSUME NEW f \in Extraction
      PROVE  (EpochInv(f) /\ BarrierInv(f) /\ WaitInv(f) /\ RevokedInv(f))'
  <2>1. CASE f = e
    <3>1. EpochInv(f)'
      BY <2>1 DEF TypeOK, EpochInv, TryBeginCommit, GoTo, NextGroup, SetState
    <3>2. BarrierInv(f)'
      BY <2>1 DEF TypeOK, EpochInv, BarrierInv, Committing, TryBeginCommit, GoTo, NextGroup, SetState, MayCommit
    <3>3. WaitInv(f)'
      BY SMTT(30), <2>1 DEF TypeOK, EpochInv, BarrierInv, WaitInv, Committing, TryBeginCommit, GoTo, NextGroup, SetState, MayCommit
    <3>4. RevokedInv(f)'
      BY <2>1 DEF TypeOK, EpochInv, BarrierInv, RevokedInv, Committing, TryBeginCommit, GoTo, NextGroup, SetState, MayCommit
    <3> QED BY <3>1, <3>2, <3>3, <3>4
  <2>2. CASE f # e
    BY <2>2 DEF TypeOK, ResetInv, EpochInv, BarrierInv, WaitInv, RevokedInv, Committing, TryBeginCommit, GoTo, NextGroup, SetState, MayCommit
  <2> QED BY <2>1, <2>2
<1> QED BY <1>1, <1>2, <1>3

LEMMA SaveInv ==
  ASSUME NEW e \in Extraction, ExtractionInv, SaveEntries(e)
  PROVE  ExtractionInv'
  BY ConstantsAssumption
  DEF ExtractionInv, TypeOK, ResetInv, EpochInv, BarrierInv, WaitInv, RevokedInv,
      Committing, NoReset, SaveEntries, GoTo

LEMMA EndCommitInv ==
  ASSUME NEW e \in Extraction, ExtractionInv, EndCommit(e)
  PROVE  ExtractionInv'
  BY ConstantsAssumption
  DEF ExtractionInv, TypeOK, ResetInv, EpochInv, BarrierInv, WaitInv, RevokedInv,
      Committing, NoReset, EndCommit, NextGroup, SetState, Ended, MayCommit

LEMMA CloseInv ==
  ASSUME NEW e \in Extraction, ExtractionInv, CloseBarrier(e)
  PROVE  ExtractionInv'
  BY ConstantsAssumption
  DEF ExtractionInv, TypeOK, ResetInv, EpochInv, BarrierInv, WaitInv, RevokedInv,
      Committing, NoReset, CloseBarrier, GoTo

LEMMA DeregisterInv ==
  ASSUME NEW e \in Extraction, ExtractionInv, Deregister(e)
  PROVE  ExtractionInv'
  BY ConstantsAssumption
  DEF ExtractionInv, TypeOK, ResetInv, EpochInv, BarrierInv, WaitInv, RevokedInv,
      Committing, NoReset, Deregister, Free

LEMMA AbortInv ==
  ASSUME NEW e \in Extraction, ExtractionInv, AbortAndWait(e)
  PROVE  ExtractionInv'
<1> USE ConstantsAssumption DEF ExtractionInv, NoReset
<1>1. TypeOK'
  BY DEF TypeOK, AbortAndWait, WaitsFor
<1>2. ResetInv'
  BY DEF TypeOK, ResetInv, AbortAndWait, WaitsFor
<1>3. ASSUME NEW f \in Extraction
      PROVE  (EpochInv(f) /\ BarrierInv(f) /\ WaitInv(f) /\ RevokedInv(f))'
  <2>1. CASE f = e
    BY <2>1 DEF TypeOK, ResetInv, EpochInv, BarrierInv, WaitInv, RevokedInv, Committing, AbortAndWait, WaitsFor
  <2>2. CASE f # e
    BY <2>2 DEF TypeOK, ResetInv, EpochInv, BarrierInv, WaitInv, RevokedInv, Committing, AbortAndWait, WaitsFor
  <2> QED BY <2>1, <2>2
<1> QED BY <1>1, <1>2, <1>3

LEMMA BeginResetInv ==
  ASSUME NEW kind \in {"reset", "cancel"}, ExtractionInv, BeginReset(kind)
  PROVE  ExtractionInv'
<1> USE ConstantsAssumption DEF ExtractionInv, NoReset
<1>1. TypeOK'
  <2>1. barrier' \in [Extraction -> [epoch : Nat,
                                    state : {"pending", "writing", "done", "aborted"},
                                    aborted : BOOLEAN, cancelled : BOOLEAN]]
    BY DEF TypeOK, BeginReset, CancelRegistered
  <2>2. reset' \in [pc : {"idle", "aborting"}, kind : {"none", "reset", "cancel"},
                   wait : SUBSET Extraction, all : SUBSET Extraction,
                   blocked : Extraction \cup {None}]
    BY DEF TypeOK, BeginReset
  <2>3. QED
    BY <2>1, <2>2 DEF TypeOK, BeginReset
<1>2. ResetInv'
  BY DEF TypeOK, ResetInv, BeginReset, CancelRegistered
<1>3. ASSUME NEW f \in Extraction
      PROVE  (EpochInv(f) /\ BarrierInv(f) /\ WaitInv(f) /\ RevokedInv(f))'
  BY DEF TypeOK, ResetInv, EpochInv, BarrierInv, WaitInv, RevokedInv, Committing, BeginReset, CancelRegistered
<1> QED BY <1>1, <1>2, <1>3

LEMMA WaitReturnsInv == ExtractionInv /\ WaitReturns => ExtractionInv'
  BY SMTT(30), ConstantsAssumption
  DEF ExtractionInv, TypeOK, ResetInv, EpochInv, BarrierInv, WaitInv, RevokedInv,
      Committing, NoReset, WaitReturns, DoneClosed

LEMMA EndResetInv == ExtractionInv /\ EndReset => ExtractionInv'
  BY ConstantsAssumption
  DEF ExtractionInv, TypeOK, ResetInv, EpochInv, BarrierInv, WaitInv, RevokedInv,
      Committing, NoReset, EndReset, Covered

LEMMA NextInv == ExtractionInv /\ [Next]_vars => ExtractionInv'
<1> SUFFICES ASSUME ExtractionInv, [Next]_vars
             PROVE  ExtractionInv'
  OBVIOUS
<1>1. CASE UNCHANGED vars
  BY <1>1 DEF vars, ExtractionInv, TypeOK, ResetInv, EpochInv, BarrierInv, WaitInv,
              RevokedInv, Committing
<1>2. CASE EnqueuePendingTurn
  BY <1>2, EnqueueInv
<1>3. ASSUME NEW e \in Extraction, ExtractionStep(e)
      PROVE  ExtractionInv'
  BY <1>3, BeginInv, CheckInv, CallInv, TryBeginInv, SaveInv, EndCommitInv, CloseInv,
     DeregisterInv DEF ExtractionStep
<1>4. ASSUME NEW kind \in {"reset", "cancel"}, BeginReset(kind)
      PROVE  ExtractionInv'
  BY <1>4, BeginResetInv
<1>5. CASE ResetStep
  BY <1>5, AbortInv, WaitReturnsInv, EndResetInv DEF ResetStep
<1> QED BY <1>1, <1>2, <1>3, <1>4, <1>5 DEF Next

\* The inductive invariant holds in every reachable state.
LEMMA ExtractionInvHolds == Spec => []ExtractionInv
  BY InitInv, NextInv, PTL DEF Spec

\* The state of sessions, extractions, barriers and resets keeps its types, for
\* any number of extractions and resets.
THEOREM ExtractionTypeCorrect == Spec => []TypeOK
<1>1. ExtractionInv => TypeOK
  BY DEF ExtractionInv
<1> QED BY <1>1, ExtractionInvHolds, PTL

\* Once ResetSession or CancelExtractions has returned, no extraction that it
\* covers is inside the store.
THEOREM RevokedWritesNothing == Spec => []RevokedIsSilent
<1>1. ExtractionInv => RevokedIsSilent
  BY DEF ExtractionInv, TypeOK, RevokedInv, Committing, RevokedIsSilent
<1> QED BY <1>1, ExtractionInvHolds, PTL

-----------------------------------------------------------------------------
(* Refinement *)

LEMMA InitRefines == Init => Abstract!Init
  BY DEF Init, Abstract!Init, Live, Free

\* The steps that change neither who may write nor what is written.
LEMMA QuietRefines ==
  ASSUME ExtractionInv, UNCHANGED <<memory, revoked>>,
         \A e \in Extraction : (ext'[e].pc = "free") <=> (ext[e].pc = "free")
  PROVE  UNCHANGED Abstract!vars
  BY DEF Abstract!vars, Live

LEMMA NextRefines == ExtractionInv /\ [Next]_vars => [Abstract!Next]_(Abstract!vars)
<1> SUFFICES ASSUME ExtractionInv, [Next]_vars
             PROVE  Abstract!Next \/ UNCHANGED Abstract!vars
  OBVIOUS
<1>1. CASE UNCHANGED vars
  BY <1>1, QuietRefines DEF vars
<1>2. CASE EnqueuePendingTurn
  <2>1. CASE UNCHANGED <<ext, memory, revoked>>
    BY <2>1, QuietRefines
  <2>2. ASSUME NEW e \in Extraction, NEW groups \in 1..MaxGroup,
               ext[e].pc = "free",
               ext' = [ext EXCEPT ![e] = [pc |-> "queued", epoch |-> epoch, todo |-> groups]],
               memory' = memory \ {e}, revoked' = revoked \ {e}
        PROVE  Abstract!Join(e)
    BY <2>2 DEF ExtractionInv, TypeOK, Abstract!Join, Live
  <2> QED BY <1>2, <2>1, <2>2 DEF EnqueuePendingTurn, Abstract!Next
<1>3. ASSUME NEW e \in Extraction, SaveEntries(e)
      PROVE  Abstract!Next \/ UNCHANGED Abstract!vars
  <2>1. Live' = Live
    BY <1>3 DEF ExtractionInv, TypeOK, SaveEntries, GoTo, Live
  <2>2. e \in Live
    BY <1>3 DEF ExtractionInv, RevokedInv, Committing, SaveEntries, Live
  <2>3. CASE memory' = memory \cup {e}
    BY <2>1, <2>2, <2>3 DEF Abstract!Next, Abstract!Write
  <2>4. CASE UNCHANGED memory
    BY <2>1, <2>4 DEF Abstract!vars
  <2> QED BY <1>3, <2>3, <2>4 DEF SaveEntries
<1>4. ASSUME NEW e \in Extraction, Deregister(e)
      PROVE  Abstract!Revoke
  BY <1>4 DEF ExtractionInv, TypeOK, Deregister, Free, Live, Abstract!Revoke
<1>5. ASSUME NEW e \in Extraction,
             \/ BeginExtraction(e) \/ CheckBatch(e) \/ CallReturns(e) \/ TryBeginCommit(e)
             \/ EndCommit(e) \/ CloseBarrier(e)
      PROVE  UNCHANGED Abstract!vars
  <2>1. UNCHANGED <<memory, revoked>>
    BY <1>5 DEF BeginExtraction, CheckBatch, CallReturns, TryBeginCommit, EndCommit, CloseBarrier
  <2>2. \A f \in Extraction : (ext'[f].pc = "free") <=> (ext[f].pc = "free")
    BY <1>5 DEF ExtractionInv, TypeOK, BeginExtraction, CheckBatch, CallReturns,
                TryBeginCommit, EndCommit, CloseBarrier, GoTo, NextGroup
  <2> QED BY <2>1, <2>2, QuietRefines
<1>6. ASSUME NEW kind \in {"reset", "cancel"}, BeginReset(kind)
      PROVE  UNCHANGED Abstract!vars
  BY <1>6, QuietRefines DEF BeginReset
<1>7. ASSUME NEW e \in Extraction, AbortAndWait(e)
      PROVE  UNCHANGED Abstract!vars
  BY <1>7, QuietRefines DEF AbortAndWait
<1>8. CASE WaitReturns
  BY <1>8, QuietRefines DEF WaitReturns
<1>9. CASE EndReset
  BY <1>9 DEF EndReset, Live, Abstract!Next, Abstract!Revoke
<1> QED
  BY <1>1, <1>2, <1>3, <1>4, <1>5, <1>6, <1>7, <1>8, <1>9
  DEF Next, ExtractionStep, ResetStep, Abstract!Next

\* The sessions' barriers, epochs and waits implement revocable writers: each
\* write happens before the revocation, which is the instant of the return.
THEOREM ExtractionRefines == Spec => ImplementsRevocableWrite
  BY InitRefines, NextRefines, ExtractionInvHolds, PTL
  DEF Spec, ImplementsRevocableWrite, Abstract!Spec
=============================================================================
