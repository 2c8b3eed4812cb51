------------------------- MODULE SessionExtraction -------------------------
(***************************************************************************)
(* Background extraction of memories from a session's turns, and what      *)
(* revokes it (internal/llm/session.go, agent.go, internal/memory).        *)
(*                                                                         *)
(* Finished turns are buffered; a full buffer becomes a batch, which a     *)
(* goroutine takes through the model and into the store, group by group.   *)
(* Each extraction has a barrier that lets it commit or refuses it.  A     *)
(* reset, or CancelExtractions, cancels the extractions, aborts their      *)
(* barriers and waits for a write in progress.                             *)
(***************************************************************************)
EXTENDS Integers, FiniteSets

CONSTANTS Extraction,  \* extraction goroutines
          Threshold,   \* possible values of extractionThreshold
          MaxGroup,    \* groups of items in one batch
          MaxTurn,     \* bound on the turns
          MaxReset,    \* bound on the resets and cancellations
          None

ASSUME ConstantsAssumption ==
  /\ Threshold \subseteq Nat \ {0} /\ Threshold # {}
  /\ MaxGroup \in Nat \ {0} /\ MaxTurn \in Nat /\ MaxReset \in Nat
  /\ None \notin Extraction

VARIABLES
  epoch,    \* the session's epoch
  turns,    \* turns so far
  pending,  \* how many turns wait in pendingTurns
  ext,      \* the extractions
  barrier,  \* their barriers
  registry, \* extractionBarriers, with extractionCancels
  memory,   \* extractions that have saved something
  reset,    \* the reset or cancellation that holds resetMu
  resets,   \* how many there were
  revoked   \* extractions that one which has returned has revoked

vars == <<epoch, turns, pending, ext, barrier, registry, memory, reset, resets,
          revoked>>

Free == [pc |-> "free", epoch |-> 0, todo |-> 0]
NoBarrier == [epoch |-> 0, state |-> "done", aborted |-> TRUE, cancelled |-> TRUE]
NoReset == [pc |-> "idle", kind |-> "none", wait |-> {}, all |-> {}, blocked |-> None]

Init ==
  /\ epoch = 1 /\ turns = 0 /\ pending = 0
  /\ ext = [e \in Extraction |-> Free]
  /\ barrier = [e \in Extraction |-> NoBarrier]
  /\ registry = {} /\ memory = {}
  /\ reset = NoReset /\ resets = 0
  /\ revoked = {}

GoTo(e, pc) == ext' = [ext EXCEPT ![e].pc = pc]

NextGroup(e) ==
  ext' = [ext EXCEPT ![e] = [pc |-> "checking", epoch |-> ext[e].epoch, todo |-> ext[e].todo - 1]]

SetState(e, state) == barrier' = [barrier EXCEPT ![e].state = state]

-----------------------------------------------------------------------------
(* The barrier *)

\* sessionExtractionBarrier.IsValid and the validator of the batch.
Valid(e) ==
  /\ ~barrier[e].aborted /\ ~barrier[e].cancelled
  /\ barrier[e].state \in {"pending", "writing"}
  /\ barrier[e].epoch = epoch /\ ext[e].epoch = epoch

\* The barrier lets its extraction commit.
MayCommit(e) ==
  ~barrier[e].aborted /\ ~barrier[e].cancelled /\ barrier[e].epoch = epoch

\* The state of a barrier whose extraction has ended a commit.
Ended(e) == IF MayCommit(e) THEN "pending" ELSE "aborted"

-----------------------------------------------------------------------------
(* An extraction *)

\* One more turn; when the random threshold is reached the turns become a
\* batch, with the epoch of this moment, and a goroutine starts.  (A reset in
\* progress may still know a goroutine that has ended: its name is not reused.)
EnqueuePendingTurn ==
  /\ turns < MaxTurn
  /\ turns' = turns + 1
  /\ \E threshold \in Threshold :
       IF pending + 1 < threshold
       THEN pending' = pending + 1 /\ UNCHANGED <<ext, memory, revoked>>
       ELSE \E e \in Extraction, groups \in 1..MaxGroup :
              /\ ext[e].pc = "free" /\ e \notin reset.all
              /\ ext' = [ext EXCEPT ![e] = [pc |-> "queued", epoch |-> epoch, todo |-> groups]]
              /\ pending' = 0
              /\ memory' = memory \ {e} /\ revoked' = revoked \ {e}
  /\ UNCHANGED <<epoch, barrier, registry, reset, resets>>

BeginExtraction(e) ==
  /\ ext[e].pc = "queued"
  /\ barrier' = [barrier EXCEPT ![e] =
                   [epoch |-> epoch, state |-> "pending", aborted |-> FALSE, cancelled |-> FALSE]]
  /\ registry' = registry \cup {e}
  /\ GoTo(e, "checking")
  /\ UNCHANGED <<epoch, turns, pending, memory, reset, resets, revoked>>

OneMoreGroup(e) == ext[e].todo >= 0

MoreGroups(e) == ext[e].todo > 0

\* The head of the loop over the groups, and the first checks of the writer.
CheckBatch(e) ==
  /\ ext[e].pc = "checking"
  /\ GoTo(e, IF Valid(e) /\ MoreGroups(e) THEN "calling" ELSE "closing")
  /\ UNCHANGED <<epoch, turns, pending, barrier, registry, memory, reset, resets, revoked>>

\* The model answers: with something to save, or not at all.
CallReturns(e) ==
  /\ ext[e].pc = "calling"
  /\ \/ Valid(e) /\ GoTo(e, "saving")
     \/ NextGroup(e)
  /\ UNCHANGED <<epoch, turns, pending, barrier, registry, memory, reset, resets, revoked>>

\* SaveEntriesConditionallyContext with the store's lock held.
TryBeginCommit(e) ==
  /\ ext[e].pc = "saving"
  /\ IF barrier[e].state = "pending" /\ MayCommit(e)
     THEN /\ SetState(e, "writing")
          /\ GoTo(e, "writing")
     ELSE /\ SetState(e, IF barrier[e].state = "pending" THEN "aborted" ELSE barrier[e].state)
          /\ NextGroup(e)
  /\ UNCHANGED <<epoch, turns, pending, registry, memory, reset, resets, revoked>>

SaveEntries(e) ==
  /\ ext[e].pc = "writing"
  /\ \/ memory' = memory \cup {e}
     \/ UNCHANGED memory
  /\ GoTo(e, "ending")
  /\ UNCHANGED <<epoch, turns, pending, barrier, registry, reset, resets, revoked>>

EndCommit(e) ==
  /\ ext[e].pc = "ending"
  /\ SetState(e, IF barrier[e].state = "writing" THEN Ended(e) ELSE barrier[e].state)
  /\ NextGroup(e)
  /\ UNCHANGED <<epoch, turns, pending, registry, memory, reset, resets, revoked>>

\* The cleanup function: the barrier is closed, then removed.
CloseBarrier(e) ==
  /\ ext[e].pc = "closing"
  /\ barrier' = [barrier EXCEPT ![e] =
                   [epoch |-> barrier[e].epoch,
                    state |-> IF barrier[e].state = "aborted" THEN "aborted" ELSE "done",
                    aborted |-> barrier[e].aborted, cancelled |-> TRUE]]
  /\ GoTo(e, "leaving")
  /\ UNCHANGED <<epoch, turns, pending, registry, memory, reset, resets, revoked>>

Deregister(e) ==
  /\ ext[e].pc = "leaving"
  /\ registry' = registry \ {e}
  /\ ext' = [ext EXCEPT ![e] = Free]
  /\ UNCHANGED <<epoch, turns, pending, barrier, memory, reset, resets, revoked>>

-----------------------------------------------------------------------------
(* ResetSession and CancelExtractions, serialised by resetMu *)

CancelRegistered ==
  barrier' = [e \in Extraction |->
                [epoch |-> barrier[e].epoch, state |-> barrier[e].state,
                 aborted |-> barrier[e].aborted,
                 cancelled |-> e \in registry \/ barrier[e].cancelled]]

BeginReset(kind) ==
  /\ reset.pc = "idle" /\ resets < MaxReset
  /\ resets' = resets + 1
  /\ CancelRegistered
  /\ epoch' = IF kind = "reset" THEN epoch + 1 ELSE epoch
  /\ pending' = IF kind = "reset" THEN 0 ELSE pending
  /\ reset' = [pc |-> "aborting", kind |-> kind, wait |-> registry, all |-> registry,
               blocked |-> None]
  /\ UNCHANGED <<turns, ext, registry, memory, revoked>>

WaitsForNothing(e) == None

\* A write in progress must end before the abort returns.
WaitsFor(e) == IF barrier[e].state = "writing" THEN e ELSE None

AbortAndWait(e) ==
  /\ reset.pc = "aborting" /\ reset.blocked = None /\ e \in reset.wait
  /\ barrier' = [barrier EXCEPT ![e] =
                   [epoch |-> barrier[e].epoch,
                    state |-> IF barrier[e].state = "writing" THEN "writing" ELSE "aborted",
                    aborted |-> TRUE, cancelled |-> barrier[e].cancelled]]
  /\ reset' = [reset EXCEPT !.wait = @ \ {e}, !.blocked = WaitsFor(e)]
  /\ UNCHANGED <<epoch, turns, pending, ext, registry, memory, resets, revoked>>

DoneUnlessAborted(e) == barrier[e].state \in {"pending", "done"}

\* EndCommit closes the channel first, whatever the state becomes.
DoneClosed(e) == barrier[e].state # "writing"

WaitReturns ==
  /\ reset.blocked # None /\ DoneClosed(reset.blocked)
  /\ reset' = [reset EXCEPT !.blocked = None]
  /\ UNCHANGED <<epoch, turns, pending, ext, barrier, registry, memory, resets, revoked>>

\* Extractions that the one which returns now has revoked: those it aborted,
\* and after a reset also every batch from before it.
Covered ==
  {e \in Extraction : e \in reset.all
                      \/ (reset.kind = "reset" /\ ext[e].pc # "free" /\ ext[e].epoch < epoch)}

EndReset ==
  /\ reset.pc = "aborting" /\ reset.wait = {} /\ reset.blocked = None
  /\ registry' = registry \ reset.all
  /\ revoked' = revoked \cup Covered
  /\ reset' = NoReset
  /\ UNCHANGED <<epoch, turns, pending, ext, barrier, memory, resets>>

-----------------------------------------------------------------------------
ExtractionStep(e) ==
  \/ BeginExtraction(e) \/ CheckBatch(e) \/ CallReturns(e) \/ TryBeginCommit(e)
  \/ SaveEntries(e) \/ EndCommit(e) \/ CloseBarrier(e) \/ Deregister(e)

ResetStep ==
  \/ \E e \in Extraction : AbortAndWait(e)
  \/ WaitReturns \/ EndReset

Next ==
  \/ EnqueuePendingTurn
  \/ \E e \in Extraction : ExtractionStep(e)
  \/ \E kind \in {"reset", "cancel"} : BeginReset(kind)
  \/ ResetStep

Spec == Init /\ [][Next]_vars

\* Goroutines run on; a call returns, as its context is cancelled at the latest.
Proceeds == (\E e \in Extraction : ExtractionStep(e)) \/ ResetStep

Fairness == WF_vars(Proceeds)

FairSpec == Spec /\ Fairness

-----------------------------------------------------------------------------
(* Properties *)

ExtPC == {"free", "queued", "checking", "calling", "saving", "writing", "ending",
          "closing", "leaving"}

\* Every variable has its type.
TypeOK ==
  /\ epoch \in Nat \ {0} /\ turns \in 0..MaxTurn /\ pending \in Nat
  /\ ext \in [Extraction -> [pc : ExtPC, epoch : Nat, todo : 0..MaxGroup]]
  /\ barrier \in [Extraction -> [epoch : Nat,
                                 state : {"pending", "writing", "done", "aborted"},
                                 aborted : BOOLEAN, cancelled : BOOLEAN]]
  /\ registry \subseteq Extraction /\ memory \subseteq Extraction
  /\ revoked \subseteq Extraction
  /\ reset \in [pc : {"idle", "aborting"}, kind : {"none", "reset", "cancel"},
                wait : SUBSET Extraction, all : SUBSET Extraction,
                blocked : Extraction \cup {None}]
  /\ resets \in Nat

\* Once ResetSession has returned, nothing from a turn before it is written to
\* the memory; once CancelExtractions has returned, none of the extractions it
\* found writes.  A write in progress is over when they return.
RevokedIsSilent == \A e \in revoked : ext[e].pc # "writing"

Live == {e \in Extraction : ext[e].pc # "free" /\ e \notin revoked}

Abstract == INSTANCE RevocableWrite
              WITH Writer <- Extraction, live <- Live, written <- memory

\* The barriers, epochs and waits implement revocable writers: a revocation is
\* one instant, the return of the reset, although it takes many steps.
ImplementsRevocableWrite == Abstract!Spec

\* A reset returns: every write it waits for ends and releases it.
ResetReturns == (reset.pc = "aborting") ~> (reset.pc = "idle")
=============================================================================
