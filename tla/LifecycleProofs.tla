-------------------------- MODULE LifecycleProofs ---------------------------
(***************************************************************************)
(* Proofs about StoreLifecycle and Lifecycle: for any number of            *)
(* controllers, claims, epochs and faults, the rows of a sandbox agree, and *)
(* what they say of an allocation is what its machine did.                 *)
(*                                                                         *)
(* First the rows, whoever calls their transactions (StoreSpec).  The      *)
(* invariants the runs check are not inductive by themselves; Books adds   *)
(* what the transactions never look at: that rows not yet inserted are     *)
(* blank, that a finished or superseded operation has no lease, and that   *)
(* the sandbox has an allocation row exactly from generation 1 on.         *)
(*                                                                         *)
(* Then the system.  Every step of it is a transaction of StoreLifecycle   *)
(* or leaves the rows alone, so their invariants are lifted.  What links   *)
(* the rows to the host: a create reaches the host only after its intent,  *)
(* a stop fence is never taken back, and evidence is only given behind     *)
(* that fence.                                                             *)
(***************************************************************************)
EXTENDS Lifecycle, TLAPS

(* A row that was never inserted has its default columns.                  *)
Blank ==
    /\ op["create"].status = "none" =>
          /\ op["create"] = NoRow /\ op["destroy"] = NoRow
          /\ sandbox.active = "none" /\ ~sandbox.current /\ sandbox.generation = 0
          /\ sandbox.observed = "none"
    /\ op["destroy"].status = "none" => op["destroy"] = NoRow
    /\ sandbox.generation = 0 <=> alloc.status = "none"

(* The sandbox's desired state follows the operations admitted for it.     *)
Desired ==
    /\ op["destroy"].status # "none" => sandbox.desired = "destroyed"
    /\ op["destroy"].status \in Final => ~sandbox.current
    /\ sandbox.active = "create" => sandbox.desired = "running"

(* Who is done, or has been superseded, holds no lease; a create succeeds  *)
(* only after its intent.                                                  *)
Unleased ==
    /\ \A k \in Kinds : op[k].status \in Final => ~op[k].leased
    /\ op["create"].phase = "cleanup_owned_by_destroy" =>
          op["create"].status = "unknown" /\ ~op["create"].leased
    /\ op["create"].phase = "rejected_before_dispatch" => op["create"].status = "failed"
    /\ op["create"].status = "succeeded" => op["create"].attempt = 1

Books == Blank /\ Desired /\ Unleased

Inv == ActiveIsOwner /\ SupersededIsOwned /\ CapacityIsOwned /\ DispatchedOnce /\ Books

(* The invariant with the types it is proved from.                         *)
StoreInv == StoreTypeOK /\ Inv

-----------------------------------------------------------------------------
(* Types.                                                                  *)

(* The named updates of a row keep its type.                               *)
LEMMA UpdateTypes ==
    ASSUME NEW r \in Rows, NEW phase \in Phases
    PROVE  /\ Phase(r, phase) \in Rows /\ Intent(r, phase) \in Rows
           /\ Unknown(r, phase) \in Rows
           /\ \A status \in Final : Outcome(r, status, phase) \in Rows
           /\ \A immediate \in BOOLEAN : Superseded(r, immediate) \in Rows
  <1>1. /\ r.status \in {"none"} \union Active \union Final /\ r.leased \in BOOLEAN
        /\ r.attempt \in Nat /\ r.rev \in Nat /\ r.supersedes \in BOOLEAN
    BY DEF Rows
  <1>2. Phase(r, phase) \in Rows /\ Intent(r, phase) \in Rows
    BY <1>1 DEF Phase, Intent, Row, Rows
  <1>3. Unknown(r, phase) \in Rows /\ \A status \in Final : Outcome(r, status, phase) \in Rows
    BY <1>1 DEF Unknown, Outcome, Row, Rows, Active
  <1>4. \A immediate \in BOOLEAN : Superseded(r, immediate) \in Rows
    BY <1>1 DEF Superseded, Rows, Phases, Active, Final
  <1> QED BY <1>2, <1>3, <1>4

(* Replacing one operation's row by a row.                                 *)
LEMMA SetRow ==
    ASSUME op \in [Kinds -> Rows], NEW k \in Kinds, NEW r \in Rows
    PROVE  [op EXCEPT ![k] = r] \in [Kinds -> Rows]
  OBVIOUS

(* Every statement that claims, updates or completes an operation keeps    *)
(* the type of the operations rows.                                        *)
LEMMA OpType ==
    ASSUME StoreTypeOK, StoreNext
    PROVE  op' \in [Kinds -> Rows]
  <1> USE DEF Kinds
  <1>0. op \in [Kinds -> Rows] /\ \A k \in Kinds : op[k] \in Rows
    BY DEF StoreTypeOK
  <1>1. ASSUME NEW k \in Kinds, NEW rev \in Revisions, ClaimStep(k, rev)
        PROVE  op' \in [Kinds -> Rows]
    <2>1. CASE ClaimNext(k)
      <3> DEFINE r == [status |-> IF op[k].status = "queued" THEN "running" ELSE op[k].status,
                       phase |-> op[k].phase, rev |-> op[k].rev + 1, leased |-> TRUE,
                       attempt |-> op[k].attempt, supersedes |-> op[k].supersedes]
      <3>1. r \in Rows BY <1>0 DEF Rows, Active
      <3>2. op' = [op EXCEPT ![k] = r] BY <1>0, <2>1 DEF ClaimNext
      <3> QED BY <1>0, <3>1, <3>2, SetRow
    <2>2. CASE DeferClaim(k, rev) \/ ClaimExpires(k)
      BY <1>0, <2>2 DEF DeferClaim, ClaimExpires, Rows
    <2> QED BY <1>1, <2>1, <2>2 DEF ClaimStep
  <1>2. ASSUME NEW rev \in Revisions, NEW e \in Epochs, CreateStep(rev, e)
        PROVE  op' \in [Kinds -> Rows]
    <2>1. CASE AdmitCreate BY <1>0, <2>1 DEF AdmitCreate, Rows, Active
    <2>2. CASE ReserveCreate(rev, e)
      BY <1>0, <2>2, UpdateTypes, SetRow DEF ReserveCreate, Phases
    <2>3. CASE PrepareCreateInspect(rev)
      BY <1>0, <2>3, UpdateTypes, SetRow DEF PrepareCreateInspect, Phases
    <2>4. CASE PrepareCreateDispatch(rev)
      BY <1>0, <2>4, UpdateTypes, SetRow DEF PrepareCreateDispatch, Phases
    <2>5. CASE RecordCreateUnknown(rev)
      BY <1>0, <2>5, UpdateTypes, SetRow DEF RecordCreateUnknown, Phases
    <2>6. CASE RecordCreateReady(rev)
      BY <1>0, <2>6, UpdateTypes, SetRow DEF RecordCreateReady, Phases, Final
    <2>7. CASE RecordCreateReleased(rev)
      BY <1>0, <2>7, UpdateTypes, SetRow DEF RecordCreateReleased, Phases, Final
    <2>8. CASE RejectUndispatchedCreate(rev)
      BY <1>0, <2>8, UpdateTypes, SetRow DEF RejectUndispatchedCreate, Phases, Final
    <2> QED BY <1>2, <2>1, <2>2, <2>3, <2>4, <2>5, <2>6, <2>7, <2>8 DEF CreateStep
  <1>3. DestroyDone \in [Kinds -> Rows]
    <2>1. Outcome(op["destroy"], "succeeded", "destroyed") \in Rows
      BY <1>0, UpdateTypes DEF Phases, Final
    <2>2. Row("failed", "destroyed_during_create", op["create"], op["create"].leased,
              op["create"].attempt) \in Rows
      BY <1>0 DEF Row, Rows, Phases, Final
    <2> QED BY <1>0, <2>1, <2>2 DEF DestroyDone
  <1>4. ASSUME NEW rev \in Revisions, DestroyStep(rev)
        PROVE  op' \in [Kinds -> Rows]
    <2>1. CASE AdmitDestroy
      <3>1. \A st \in {"queued", "succeeded"}, ph \in {"admitted", "destroyed"}, sup \in BOOLEAN :
               NewDestroy(st, ph, sup) \in Rows
        BY DEF NewDestroy, Rows, Phases, Active, Final
      <3>2. \A b \in BOOLEAN : Superseded(op["create"], b) \in Rows
        BY <1>0 DEF Superseded, Rows, Phases, Active, Final
      <3> QED BY <1>0, <2>1, <3>1, <3>2 DEF AdmitDestroy
    <2>2. ASSUME NEW retry \in BOOLEAN, PrepareDestroy(rev, retry)
          PROVE  op' \in [Kinds -> Rows]
      BY <1>0, <2>2, UpdateTypes, SetRow DEF PrepareDestroy, Phases
    <2>3. CASE RecordDestroyUnknown(rev)
      BY <1>0, <2>3, UpdateTypes, SetRow DEF RecordDestroyUnknown, Phases
    <2>4. CASE RecordDestroyReleased(rev)
      BY <1>3, <2>4 DEF RecordDestroyReleased
    <2> QED BY <1>4, <2>1, <2>2, <2>3, <2>4 DEF DestroyStep
  <1>5. ASSUME NEW k \in Kinds, NEW rev \in Revisions, NEW e \in Epochs, PreviousStep(k, rev, e)
        PROVE  op' \in [Kinds -> Rows]
    <2>1. CASE PreparePrevious(k, rev, e)
      BY <1>0, <2>1, UpdateTypes, SetRow DEF PreparePrevious, Phases
    <2>2. CASE RecordPreviousUnknown(k, rev, e)
      BY <1>0, <2>2, UpdateTypes, SetRow DEF RecordPreviousUnknown, Phases
    <2>3. CASE RecordPreviousReleased(k, rev, e)
      BY <1>0, <1>3, <2>3, UpdateTypes, SetRow DEF RecordPreviousReleased, Phases, Final
    <2> QED BY <1>5, <2>1, <2>2, <2>3 DEF PreviousStep
  <1>6. ASSUME NEW rev \in Revisions, NEW e \in Epochs, LeaseStep(rev, e)
        PROVE  op' \in [Kinds -> Rows]
    <2>1. CASE LeaseCleanup(rev)
      <3>1. NewDestroy("queued", "admitted", FALSE) \in Rows
        BY DEF NewDestroy, Rows, Phases, Active
      <3> QED BY <1>0, <2>1, <3>1, SetRow DEF LeaseCleanup
    <2>2. CASE op' = op BY <1>0, <2>2
    <2> QED BY <1>6, <2>1, <2>2 DEF LeaseStep, ClaimAllocation, RecordLeaseUnknown,
          RecordLeaseReady,
              DeferAllocation, MaintenanceExpires, LeaseExpires, MarkRuntimeUnknown
  <1>7. CASE AdvanceEpoch BY <1>0, <1>7 DEF AdvanceEpoch
  <1> QED BY <1>1, <1>2, <1>4, <1>5, <1>6, <1>7 DEF StoreNext

(* The sandbox, allocation and host rows keep their types.                 *)
LEMMA TypeStep ==
    ASSUME StoreTypeOK, [StoreNext]_storeVars
    PROVE  StoreTypeOK'
  <1> USE DEF Kinds
  <1>0. /\ sandbox \in Sandboxes /\ alloc \in Allocs /\ epoch \in Nat /\ op \in [Kinds -> Rows]
        /\ \A e \in Epochs : e \in Nat
    BY StoreAssumption DEF StoreTypeOK, Epochs
  <1>1. /\ Destroyed \in Sandboxes /\ Released \in Allocs
        /\ Observed("unknown") \in Sandboxes /\ Observed("running") \in Sandboxes
    BY <1>0 DEF Destroyed, Released, Observed, Sandboxes, Allocs
  <1>2. ASSUME NEW k \in Kinds, NEW rev \in Revisions, ClaimStep(k, rev)
        PROVE  sandbox' \in Sandboxes /\ alloc' \in Allocs /\ epoch' \in Nat
    BY <1>0, <1>2 DEF ClaimStep, ClaimNext, DeferClaim, ClaimExpires
  <1>3. ASSUME NEW rev \in Revisions, NEW e \in Epochs, CreateStep(rev, e)
        PROVE  sandbox' \in Sandboxes /\ alloc' \in Allocs /\ epoch' \in Nat
    <2>1. CASE AdmitCreate BY <1>0, <2>1 DEF AdmitCreate, Sandboxes
    <2>2. CASE ReserveCreate(rev, e)
      BY <1>0, <2>2 DEF ReserveCreate, Sandboxes, Allocs
    <2>3. CASE PrepareCreateInspect(rev) BY <1>0, <2>3 DEF PrepareCreateInspect
    <2>4. CASE PrepareCreateDispatch(rev) BY <1>0, <2>4 DEF PrepareCreateDispatch, Allocs
    <2>5. CASE RecordCreateUnknown(rev) BY <1>0, <1>1, <2>5 DEF RecordCreateUnknown
    <2>6. CASE RecordCreateReady(rev) BY <1>0, <2>6 DEF RecordCreateReady, Sandboxes, Allocs
    <2>7. CASE RecordCreateReleased(rev) BY <1>0, <1>1, <2>7 DEF RecordCreateReleased
    <2>8. CASE RejectUndispatchedCreate(rev) BY <1>0, <1>1, <2>8 DEF RejectUndispatchedCreate
    <2> QED BY <1>3, <2>1, <2>2, <2>3, <2>4, <2>5, <2>6, <2>7, <2>8 DEF CreateStep
  <1>4. ASSUME NEW rev \in Revisions, DestroyStep(rev)
        PROVE  sandbox' \in Sandboxes /\ alloc' \in Allocs /\ epoch' \in Nat
    <2>1. CASE AdmitDestroy BY <1>0, <1>1, <2>1 DEF AdmitDestroy, Sandboxes
    <2>2. ASSUME NEW retry \in BOOLEAN, PrepareDestroy(rev, retry)
          PROVE  sandbox' \in Sandboxes /\ alloc' \in Allocs /\ epoch' \in Nat
      BY <1>0, <2>2 DEF PrepareDestroy, Allocs
    <2>3. CASE RecordDestroyUnknown(rev) BY <1>0, <1>1, <2>3 DEF RecordDestroyUnknown
    <2>4. CASE RecordDestroyReleased(rev) BY <1>0, <1>1, <2>4 DEF RecordDestroyReleased
    <2> QED BY <1>4, <2>1, <2>2, <2>3, <2>4 DEF DestroyStep
  <1>5. ASSUME NEW k \in Kinds, NEW rev \in Revisions, NEW e \in Epochs, PreviousStep(k, rev, e)
        PROVE  sandbox' \in Sandboxes /\ alloc' \in Allocs /\ epoch' \in Nat
    BY <1>0, <1>1, <1>5 DEF PreviousStep, PreparePrevious, RecordPreviousUnknown,
       RecordPreviousReleased, Allocs
  <1>6. ASSUME NEW rev \in Revisions, NEW e \in Epochs, LeaseStep(rev, e)
        PROVE  sandbox' \in Sandboxes /\ alloc' \in Allocs /\ epoch' \in Nat
    <2>1. CASE ClaimAllocation(e)
      <3>1. alloc.maint \in Nat /\ alloc.maint + 1 \in Nat BY <1>0 DEF Allocs
      <3> DEFINE a == [alloc EXCEPT !.maint = alloc.maint + 1, !.maintained = TRUE]
      <3>2. a \in Allocs BY <1>0, <3>1, Zenon DEF Allocs
      <3> QED BY <1>0, <2>1, <3>2 DEF ClaimAllocation
    <2>2. CASE LeaseCleanup(rev) BY <1>0, <2>2 DEF LeaseCleanup, Sandboxes, Allocs
    <2>3. CASE RecordLeaseUnknown(rev) \/ RecordLeaseReady(rev)
      BY <1>0, <1>1, <2>3 DEF RecordLeaseUnknown, RecordLeaseReady, Allocs
    <2>4. CASE DeferAllocation(rev) \/ MaintenanceExpires \/ LeaseExpires
      BY <1>0, <2>4 DEF DeferAllocation, MaintenanceExpires, LeaseExpires, Allocs
    <2>5. CASE MarkRuntimeUnknown BY <1>0, <1>1, <2>5 DEF MarkRuntimeUnknown
    <2> QED BY <1>6, <2>1, <2>2, <2>3, <2>4, <2>5 DEF LeaseStep
  <1>7. CASE AdvanceEpoch BY <1>0, <1>7 DEF AdvanceEpoch, StoreTypeOK
  <1>8. CASE StoreNext
    BY <1>2, <1>3, <1>4, <1>5, <1>6, <1>7, <1>8, OpType DEF StoreNext, StoreTypeOK
  <1>9. CASE UNCHANGED storeVars BY <1>0, <1>9 DEF storeVars, StoreTypeOK
  <1> QED BY <1>8, <1>9

(* Every transaction preserves the invariant.                              *)
LEMMA InvStep ==
    ASSUME StoreInv, [StoreNext]_storeVars
    PROVE  Inv'
  <1> USE DEF Kinds, Active, Final
  <1>0. /\ op \in [Kinds -> Rows] /\ op["create"] \in Rows /\ op["destroy"] \in Rows
        /\ sandbox \in Sandboxes /\ alloc \in Allocs /\ Inv
    BY DEF StoreInv, StoreTypeOK
  <1> USE DEF Rows, Sandboxes, Allocs, NoRow, Inv, ActiveIsOwner, SupersededIsOwned,
              CapacityIsOwned, DispatchedOnce, Books, Blank, Desired, Unleased
  <1>1. ASSUME NEW k \in Kinds, NEW rev \in Revisions, ClaimStep(k, rev)
        PROVE  Inv'
    <2>1. CASE ClaimNext(k)
      <3>1. CASE k = "create" BY <1>0, <2>1, <3>1 DEF ClaimNext
      <3>2. CASE k = "destroy" BY <1>0, <2>1, <3>2 DEF ClaimNext
      <3> QED BY <3>1, <3>2
    <2>2. CASE DeferClaim(k, rev)
      <3>1. CASE k = "create" BY <1>0, <2>2, <3>1 DEF DeferClaim, Holds
      <3>2. CASE k = "destroy" BY <1>0, <2>2, <3>2 DEF DeferClaim, Holds
      <3> QED BY <3>1, <3>2
    <2>3. CASE ClaimExpires(k)
      <3>1. CASE k = "create" BY <1>0, <2>3, <3>1 DEF ClaimExpires
      <3>2. CASE k = "destroy" BY <1>0, <2>3, <3>2 DEF ClaimExpires
      <3> QED BY <3>1, <3>2
    <2> QED BY <1>1, <2>1, <2>2, <2>3 DEF ClaimStep
  <1>2. ASSUME NEW rev \in Revisions, NEW e \in Epochs, CreateStep(rev, e)
        PROVE  Inv'
    <2>1. CASE AdmitCreate
      BY <1>0, <2>1 DEF AdmitCreate
    <2>2. CASE ReserveCreate(rev, e)
      BY <1>0, <2>2 DEF ReserveCreate, Reservable, Holds, Phase, Row
    <2>3. CASE PrepareCreateInspect(rev)
      BY <1>0, <2>3 DEF PrepareCreateInspect, MustInspect, Context, Owns, Holds, Phase, Row
    <2>4. CASE PrepareCreateDispatch(rev)
      BY <1>0, <2>4 DEF PrepareCreateDispatch, Dispatchable, Context, Owns, Holds, Intent, Row
    <2>5. CASE RecordCreateUnknown(rev)
      BY <1>0, <2>5 DEF RecordCreateUnknown, Context, Owns, Holds, Unknown, Row, Observed
    <2>6. CASE RecordCreateReady(rev)
      BY <1>0, <2>6 DEF RecordCreateReady, CreateEvidence, Context, Owns, Holds, Outcome, Row
    <2>7. CASE RecordCreateReleased(rev)
      BY <1>0, <2>7 DEF RecordCreateReleased, CreateEvidence, Context, Owns, Holds, Outcome, Row,
         Released, Destroyed
    <2>8. CASE RejectUndispatchedCreate(rev)
      BY <1>0, <2>8 DEF RejectUndispatchedCreate, Rejectable, Holds, Outcome, Row, Released,
         Destroyed
    <2> QED BY <1>2, <2>1, <2>2, <2>3, <2>4, <2>5, <2>6, <2>7, <2>8 DEF CreateStep
  <1>3. ASSUME NEW rev \in Revisions, DestroyStep(rev)
        PROVE  Inv'
    <2>1. CASE AdmitDestroy
      BY <1>0, <2>1 DEF AdmitDestroy, NewDestroy, Superseded, Destroyed
    <2>2. CASE PrepareDestroy(rev, TRUE)
      BY <1>0, <2>2 DEF PrepareDestroy, Stoppable, StopDue, Context, Owns, Holds, Phase, Intent,
         Row
    <2>3. CASE PrepareDestroy(rev, FALSE)
      BY <1>0, <2>3 DEF PrepareDestroy, Stoppable, StopDue, Context, Owns, Holds, Phase, Intent,
         Row
    <2>4. CASE RecordDestroyUnknown(rev)
      BY <1>0, <2>4 DEF RecordDestroyUnknown, Context, Owns, Holds, Unknown, Row, Observed
    <2>5. CASE RecordDestroyReleased(rev)
      BY <1>0, <2>5 DEF RecordDestroyReleased, DestroyEvidence, Context, Owns, Holds,
         DestroyDone, Outcome, Row, Released, Destroyed
    <2> QED BY <1>3, <2>1, <2>2, <2>3, <2>4, <2>5 DEF DestroyStep
  <1>4. ASSUME NEW k \in Kinds, NEW rev \in Revisions, NEW e \in Epochs, PreviousStep(k, rev, e)
        PROVE  Inv'
    <2>1. CASE PreparePrevious(k, rev, e)
      <3>1. CASE k = "create" BY <1>0, <2>1, <3>1 DEF PreparePrevious, Recoverable, ContextAt,
            Owns, Holds, Phase, Row
      <3>2. CASE k = "destroy" BY <1>0, <2>1, <3>2 DEF PreparePrevious, Recoverable, ContextAt,
            Owns, Holds, Phase, Row
      <3> QED BY <3>1, <3>2
    <2>2. CASE RecordPreviousUnknown(k, rev, e)
      BY <1>0, <2>2 DEF RecordPreviousUnknown, ContextAt, Owns, Holds, Unknown, Row, Observed
    <2>3. CASE RecordPreviousReleased(k, rev, e)
      BY <1>0, <2>3 DEF RecordPreviousReleased, PreviousEvidence, Recoverable, ContextAt, Owns,
         Holds, DestroyDone, Outcome, Row, Destroyed
    <2> QED BY <1>4, <2>1, <2>2, <2>3 DEF PreviousStep
  <1>5. ASSUME NEW rev \in Revisions, NEW e \in Epochs, LeaseStep(rev, e)
        PROVE  Inv'
    <2>1. CASE ClaimAllocation(e)
      BY <1>0, <2>1 DEF ClaimAllocation
    <2>2. CASE LeaseCleanup(rev)
      BY <1>0, <2>2 DEF LeaseCleanup, LeaseContext, Maintainable, NewDestroy
    <2>3. CASE RecordLeaseUnknown(rev)
      BY <1>0, <2>3 DEF RecordLeaseUnknown, LeaseContext, Maintainable, Observed
    <2>4. CASE RecordLeaseReady(rev)
      BY <1>0, <2>4 DEF RecordLeaseReady, LeaseContext, Maintainable, Observed
    <2>5. CASE DeferAllocation(rev)
      BY <1>0, <2>5 DEF DeferAllocation
    <2>6. CASE MaintenanceExpires
      BY <1>0, <2>6 DEF MaintenanceExpires
    <2>7. CASE LeaseExpires
      BY <1>0, <2>7 DEF LeaseExpires
    <2>8. CASE MarkRuntimeUnknown
      BY <1>0, <2>8 DEF MarkRuntimeUnknown, Maintainable, Observed
    <2> QED BY <1>5, <2>1, <2>2, <2>3, <2>4, <2>5, <2>6, <2>7, <2>8 DEF LeaseStep
  <1>6. CASE AdvanceEpoch BY <1>0, <1>6 DEF AdvanceEpoch
  <1>7. CASE UNCHANGED storeVars BY <1>0, <1>7 DEF storeVars
  <1> QED BY <1>1, <1>2, <1>3, <1>4, <1>5, <1>6, <1>7 DEF StoreNext

-----------------------------------------------------------------------------
(* What a transaction may never do.                                        *)

(* The step behind FinalIsFinal.                                           *)
Finality ==
    /\ \A k \in Kinds : op[k].status \in Final => op'[k] = op[k]
    /\ alloc.status = "released" => alloc'.status = "released" /\ ~sandbox'.current
    /\ sandbox.generation = 1 => sandbox'.generation = 1

(* The step behind ClaimsAreFresh.                                         *)
Freshness ==
    \A k \in Kinds :
       /\ op'[k].rev >= op[k].rev
       /\ ~op[k].leased /\ op'[k].leased => op'[k].rev > op[k].rev

Kept == Finality /\ Freshness

(* No transaction rewrites a finished operation or re-takes a claim at an  *)
(* old revision.                                                           *)
LEMMA KeptStep ==
    ASSUME StoreInv, [StoreNext]_storeVars
    PROVE  Kept
  <1> USE DEF Kinds, Active, Final
  <1>0. /\ op \in [Kinds -> Rows] /\ op["create"] \in Rows /\ op["destroy"] \in Rows
        /\ sandbox \in Sandboxes /\ alloc \in Allocs /\ Inv
    BY DEF StoreInv, StoreTypeOK
  <1> USE DEF Rows, Sandboxes, Allocs, NoRow, Kept, Finality, Freshness, Inv, ActiveIsOwner,
              SupersededIsOwned, CapacityIsOwned, DispatchedOnce, Books, Blank, Desired, Unleased
  <1>1. ASSUME NEW k \in Kinds, NEW rev \in Revisions, ClaimStep(k, rev)
        PROVE  Kept
    <2>1. CASE ClaimNext(k)
      <3>1. CASE k = "create" BY <1>0, <2>1, <3>1 DEF ClaimNext
      <3>2. CASE k = "destroy" BY <1>0, <2>1, <3>2 DEF ClaimNext
      <3> QED BY <3>1, <3>2
    <2>2. CASE DeferClaim(k, rev)
      <3>1. CASE k = "create" BY <1>0, <2>2, <3>1 DEF DeferClaim, Holds
      <3>2. CASE k = "destroy" BY <1>0, <2>2, <3>2 DEF DeferClaim, Holds
      <3> QED BY <3>1, <3>2
    <2>3. CASE ClaimExpires(k)
      <3>1. CASE k = "create" BY <1>0, <2>3, <3>1 DEF ClaimExpires
      <3>2. CASE k = "destroy" BY <1>0, <2>3, <3>2 DEF ClaimExpires
      <3> QED BY <3>1, <3>2
    <2> QED BY <1>1, <2>1, <2>2, <2>3 DEF ClaimStep
  <1>2. ASSUME NEW rev \in Revisions, NEW e \in Epochs, CreateStep(rev, e)
        PROVE  Kept
    <2>1. CASE AdmitCreate
      BY <1>0, <2>1 DEF AdmitCreate
    <2>2. CASE ReserveCreate(rev, e)
      BY <1>0, <2>2 DEF ReserveCreate, Reservable, Holds, Phase, Row
    <2>3. CASE PrepareCreateInspect(rev)
      BY <1>0, <2>3 DEF PrepareCreateInspect, MustInspect, Context, Owns, Holds, Phase, Row
    <2>4. CASE PrepareCreateDispatch(rev)
      BY <1>0, <2>4 DEF PrepareCreateDispatch, Dispatchable, Context, Owns, Holds, Intent, Row
    <2>5. CASE RecordCreateUnknown(rev)
      BY <1>0, <2>5 DEF RecordCreateUnknown, Context, Owns, Holds, Unknown, Row, Observed
    <2>6. CASE RecordCreateReady(rev)
      BY <1>0, <2>6 DEF RecordCreateReady, CreateEvidence, Context, Owns, Holds, Outcome, Row
    <2>7. CASE RecordCreateReleased(rev)
      BY <1>0, <2>7 DEF RecordCreateReleased, CreateEvidence, Context, Owns, Holds, Outcome, Row,
         Released, Destroyed
    <2>8. CASE RejectUndispatchedCreate(rev)
      BY <1>0, <2>8 DEF RejectUndispatchedCreate, Rejectable, Holds, Outcome, Row, Released,
         Destroyed
    <2> QED BY <1>2, <2>1, <2>2, <2>3, <2>4, <2>5, <2>6, <2>7, <2>8 DEF CreateStep
  <1>3. ASSUME NEW rev \in Revisions, DestroyStep(rev)
        PROVE  Kept
    <2>1. CASE AdmitDestroy
      BY <1>0, <2>1 DEF AdmitDestroy, NewDestroy, Superseded, Destroyed
    <2>2. CASE PrepareDestroy(rev, TRUE)
      BY <1>0, <2>2 DEF PrepareDestroy, Stoppable, StopDue, Context, Owns, Holds, Phase, Intent,
         Row
    <2>3. CASE PrepareDestroy(rev, FALSE)
      BY <1>0, <2>3 DEF PrepareDestroy, Stoppable, StopDue, Context, Owns, Holds, Phase, Intent,
         Row
    <2>4. CASE RecordDestroyUnknown(rev)
      BY <1>0, <2>4 DEF RecordDestroyUnknown, Context, Owns, Holds, Unknown, Row, Observed
    <2>5. CASE RecordDestroyReleased(rev)
      BY <1>0, <2>5 DEF RecordDestroyReleased, DestroyEvidence, Context, Owns, Holds,
         DestroyDone, Outcome, Row, Released, Destroyed
    <2> QED BY <1>3, <2>1, <2>2, <2>3, <2>4, <2>5 DEF DestroyStep
  <1>4. ASSUME NEW k \in Kinds, NEW rev \in Revisions, NEW e \in Epochs, PreviousStep(k, rev, e)
        PROVE  Kept
    <2>1. CASE PreparePrevious(k, rev, e)
      <3>1. CASE k = "create" BY <1>0, <2>1, <3>1 DEF PreparePrevious, Recoverable, ContextAt,
            Owns, Holds, Phase, Row
      <3>2. CASE k = "destroy" BY <1>0, <2>1, <3>2 DEF PreparePrevious, Recoverable, ContextAt,
            Owns, Holds, Phase, Row
      <3> QED BY <3>1, <3>2
    <2>2. CASE RecordPreviousUnknown(k, rev, e)
      BY <1>0, <2>2 DEF RecordPreviousUnknown, ContextAt, Owns, Holds, Unknown, Row, Observed
    <2>3. CASE RecordPreviousReleased(k, rev, e)
      BY <1>0, <2>3 DEF RecordPreviousReleased, PreviousEvidence, Recoverable, ContextAt, Owns,
         Holds, DestroyDone, Outcome, Row, Destroyed
    <2> QED BY <1>4, <2>1, <2>2, <2>3 DEF PreviousStep
  <1>5. ASSUME NEW rev \in Revisions, NEW e \in Epochs, LeaseStep(rev, e)
        PROVE  Kept
    <2>1. CASE ClaimAllocation(e)
      BY <1>0, <2>1 DEF ClaimAllocation
    <2>2. CASE LeaseCleanup(rev)
      BY <1>0, <2>2 DEF LeaseCleanup, LeaseContext, Maintainable, NewDestroy
    <2>3. CASE RecordLeaseUnknown(rev)
      BY <1>0, <2>3 DEF RecordLeaseUnknown, LeaseContext, Maintainable, Observed
    <2>4. CASE RecordLeaseReady(rev)
      BY <1>0, <2>4 DEF RecordLeaseReady, LeaseContext, Maintainable, Observed
    <2>5. CASE DeferAllocation(rev)
      BY <1>0, <2>5 DEF DeferAllocation
    <2>6. CASE MaintenanceExpires
      BY <1>0, <2>6 DEF MaintenanceExpires
    <2>7. CASE LeaseExpires
      BY <1>0, <2>7 DEF LeaseExpires
    <2>8. CASE MarkRuntimeUnknown
      BY <1>0, <2>8 DEF MarkRuntimeUnknown, Maintainable, Observed
    <2> QED BY <1>5, <2>1, <2>2, <2>3, <2>4, <2>5, <2>6, <2>7, <2>8 DEF LeaseStep
  <1>6. CASE AdvanceEpoch BY <1>0, <1>6 DEF AdvanceEpoch
  <1>7. CASE UNCHANGED storeVars BY <1>0, <1>7 DEF storeVars
  <1> QED BY <1>1, <1>2, <1>3, <1>4, <1>5, <1>6, <1>7 DEF StoreNext

-----------------------------------------------------------------------------
(* Theorems.                                                               *)

(* The migrations' empty tables satisfy the invariant.                     *)
LEMMA InitInv == StoreInit => StoreInv
  <1> SUFFICES ASSUME StoreInit PROVE StoreInv OBVIOUS
  <1>1. NoRow \in Rows BY DEF NoRow, Rows, Phases
  <1>2. StoreTypeOK BY <1>1 DEF StoreInit, StoreTypeOK, Sandboxes, Allocs, Kinds
  <1>3. ActiveIsOwner /\ SupersededIsOwned /\ CapacityIsOwned /\ DispatchedOnce
    BY DEF StoreInit, NoRow, Kinds, Active, ActiveIsOwner, SupersededIsOwned, CapacityIsOwned,
           DispatchedOnce
  <1>4. Books
    BY DEF StoreInit, NoRow, Kinds, Final, Books, Blank, Desired, Unleased
  <1> QED BY <1>2, <1>3, <1>4 DEF StoreInv, Inv

(* The inductive invariant holds in every reachable state of the store.    *)
LEMMA StoreInvariant == StoreSpec => []StoreInv
  <1>1. StoreInv /\ [StoreNext]_storeVars => StoreInv'
    BY TypeStep, InvStep DEF StoreInv
  <1> QED BY InitInv, <1>1, PTL DEF StoreSpec

(* The rows of a sandbox are well typed in every reachable state.          *)
THEOREM StoreTypeCorrect == StoreSpec => []StoreTypeOK
  <1>1. StoreInv => StoreTypeOK BY DEF StoreInv
  <1> QED BY <1>1, StoreInvariant, PTL

(* The transition pointer and the unfinished operations always agree.      *)
THEOREM OwnershipSound == StoreSpec => []ActiveIsOwner
  <1>1. StoreInv => ActiveIsOwner BY DEF StoreInv, Inv
  <1> QED BY <1>1, StoreInvariant, PTL

(* A superseded create always has an unfinished destroy that owns it.      *)
THEOREM SupersessionSound == StoreSpec => []SupersededIsOwned
  <1>1. StoreInv => SupersededIsOwned BY DEF StoreInv, Inv
  <1> QED BY <1>1, StoreInvariant, PTL

(* Capacity is charged exactly while the sandbox owns its allocation.      *)
THEOREM CapacitySound == StoreSpec => []CapacityIsOwned
  <1>1. StoreInv => CapacityIsOwned BY DEF StoreInv, Inv
  <1> QED BY <1>1, StoreInvariant, PTL

(* A create is dispatched at most once, and rejected only undispatched.    *)
THEOREM DispatchSound == StoreSpec => []DispatchedOnce
  <1>1. StoreInv => DispatchedOnce BY DEF StoreInv, Inv
  <1> QED BY <1>1, StoreInvariant, PTL

(* The three rows of a sandbox agree in every reachable state.             *)
THEOREM RowsAgree == StoreSpec => []RowsConsistent
  <1>1. StoreInv => RowsConsistent BY DEF StoreInv, Inv, RowsConsistent
  <1> QED BY <1>1, StoreInvariant, PTL

(* Finished operations and released allocations are never rewritten.       *)
THEOREM FinalityHolds == StoreSpec => FinalIsFinal
  <1>1. StoreInv /\ [StoreNext]_storeVars => [Finality]_storeVars
    BY KeptStep DEF Kept
  <1>2. StoreSpec => [][Finality]_storeVars
    BY <1>1, StoreInvariant, PTL DEF StoreSpec
  <1> QED BY <1>2 DEF FinalIsFinal, Finality

(* A claim that was given up is only ever re-taken at a newer revision.    *)
THEOREM FreshnessHolds == StoreSpec => ClaimsAreFresh
  <1>1. StoreInv /\ [StoreNext]_storeVars => [Freshness]_storeVars
    BY KeptStep DEF Kept
  <1>2. StoreSpec => [][Freshness]_storeVars
    BY <1>1, StoreInvariant, PTL DEF StoreSpec
  <1> QED BY <1>2 DEF ClaimsAreFresh, Freshness

-----------------------------------------------------------------------------
(* The rows with the controllers and the host around them.                 *)

Creating == op["create"].attempt # 0

(* The host's record: it exists before the stop fence and the create, and  *)
(* nothing of the create exists before its intent.                         *)
HostOK ==
    /\ host.stopped => host.record
    /\ host.created => host.record /\ Creating
    /\ spawned => host.created
    /\ runtime # "unstarted" => host.created
    /\ \A m \in net : m.type = "create" => Creating

(* Released for good: behind the stop fence.                               *)
GoneForGood == host.stopped /\ Gone

(* What the rows conclude of the machine.                                  *)
Concluded ==
    /\ alloc.status = "released" => GoneForGood \/ ~Creating
    /\ op["create"].status = "succeeded" => runtime # "unstarted"

(* A tick: claims within their bounds, an operation of the right kind, and *)
(* an observation that is true and stays true.                             *)
Ticking(x) ==
    /\ x.pc # "idle" => x.rev \in Revisions /\ x.epoch \in Epochs
    /\ x.pc \in {"previous", "reserve", "dispatch", "prepare", "stop", "unknown", "reject",
                 "defer"} => x.kind \in Kinds
    /\ x.pc \in {"await", "record"} =>
          x.kind \in Kinds \/ (x.kind = "lease" /\ x.call.type = "lease")
    /\ x.pc = "lease" => x.kind = "lease"
    /\ x.pc = "record" =>
          /\ x.obs = "ready" => runtime # "unstarted"
          /\ x.obs \in {"released", "fenced_absent"} => GoneForGood

Ticks == \A c \in Controllers : Ticking(w[c])

LifeInv == TypeOK /\ Inv /\ epoch \in Epochs /\ HostOK /\ Concluded /\ Ticks

(* What every step does: the invariant is kept, by a transaction of the    *)
(* store or with no change of its rows.                                    *)
LifeKept == LifeInv' /\ [StoreNext]_storeVars
-----------------------------------------------------------------------------
(* Transactions.                                                           *)

(* What the rows may do while the host is as it is: nothing is concluded   *)
(* that is not so, and the intent of a create is not taken back.           *)
RowStep ==
    /\ [StoreNext]_storeVars /\ epoch' = epoch
    /\ Creating => Creating'
    /\ alloc'.status = "released" => GoneForGood \/ ~Creating'
    /\ op'["create"].status = "succeeded" => runtime # "unstarted"

(* A transaction that concludes nothing.                                   *)
Plain ==
    /\ op'["create"].attempt = op["create"].attempt
    /\ alloc'.status = "released" => alloc.status = "released"
    /\ op'["create"].status = "succeeded" => op["create"].status = "succeeded"

(* Such a transaction is a RowStep.                                        *)
LEMMA PlainStep ==
    ASSUME LifeInv, Plain, [StoreNext]_storeVars, epoch' = epoch
    PROVE  RowStep
  BY DEF LifeInv, Plain, RowStep, Concluded, Creating

(* Rows that do not change.                                                *)
LEMMA RowsStay ==
    ASSUME LifeInv, UNCHANGED storeVars
    PROVE  RowStep
  <1>1. Plain /\ epoch' = epoch  BY DEF Plain, storeVars
  <1> QED BY <1>1, PlainStep

(* Claims of an operation.                                                 *)
LEMMA ClaimTx ==
    ASSUME LifeInv, NEW k \in Kinds, NEW rev \in Revisions,
           ClaimNext(k) \/ DeferClaim(k, rev) \/ ClaimExpires(k)
    PROVE  RowStep
  <1>1. op \in [Kinds -> Rows] /\ op["create"] \in Rows
    BY DEF LifeInv, TypeOK, StoreTypeOK, Kinds
  <1>2. UNCHANGED <<sandbox, alloc, epoch>>  BY DEF ClaimNext, DeferClaim, ClaimExpires
  <1>3. StoreNext  BY DEF StoreNext, ClaimStep
  <1>4. Plain
    <2>1. CASE ClaimNext(k)
      <3>1. CASE k = "create"
        BY <1>1, <1>2, <2>1, <3>1 DEF ClaimNext, Plain, Rows, Active, Kinds
      <3>2. CASE k # "create"
        BY <1>1, <1>2, <2>1, <3>2 DEF ClaimNext, Plain, Kinds
      <3> QED BY <3>1, <3>2
    <2>2. CASE DeferClaim(k, rev) \/ ClaimExpires(k)
      <3>1. CASE k = "create"
        BY <1>1, <1>2, <2>2, <3>1 DEF DeferClaim, ClaimExpires, Plain, Rows, Kinds
      <3>2. CASE k # "create"
        BY <1>1, <1>2, <2>2, <3>2 DEF DeferClaim, ClaimExpires, Plain, Kinds
      <3> QED BY <3>1, <3>2
    <2> QED BY <2>1, <2>2
  <1> QED BY <1>2, <1>3, <1>4, PlainStep

(* The preparations and uncertain outcomes of creates and destroys.        *)
LEMMA PrepareTx ==
    ASSUME LifeInv, NEW k \in Kinds, NEW rev \in Revisions, NEW e \in Epochs,
           NEW retry \in BOOLEAN,
           \/ AdmitCreate \/ AdmitDestroy \/ ReserveCreate(rev, e) \/ PrepareCreateInspect(rev)
           \/ RecordCreateUnknown(rev) \/ PrepareDestroy(rev, retry)
           \/ RecordDestroyUnknown(rev) \/ PreparePrevious(k, rev, e)
           \/ RecordPreviousUnknown(k, rev, e)
    PROVE  RowStep
  <1>1. op \in [Kinds -> Rows] /\ op["create"] \in Rows /\ op["destroy"] \in Rows
        /\ alloc \in Allocs
    BY DEF LifeInv, TypeOK, StoreTypeOK, Kinds
  <1>2. epoch' = epoch
    BY DEF AdmitCreate, AdmitDestroy, ReserveCreate, PrepareCreateInspect, RecordCreateUnknown,
       PrepareDestroy, RecordDestroyUnknown, PreparePrevious, RecordPreviousUnknown
  <1>3. StoreNext
    <2>1. PrepareDestroy(rev, retry) => PrepareDestroy(rev, TRUE) \/ PrepareDestroy(rev, FALSE)
      OBVIOUS
    <2> QED BY <2>1 DEF StoreNext, CreateStep, DestroyStep, PreviousStep
  <1>4. Plain
    <2>1. CASE AdmitCreate
      BY <1>1, <2>1 DEF AdmitCreate, Plain, Rows, Kinds
    <2>2. CASE AdmitDestroy
      BY <1>1, <2>2 DEF AdmitDestroy, Plain, Superseded, Kinds
    <2>3. CASE ReserveCreate(rev, e)
      BY <1>1, <2>3 DEF ReserveCreate, Plain, Phase, Row, Kinds
    <2>4. CASE PrepareCreateInspect(rev)
      BY <1>1, <2>4 DEF PrepareCreateInspect, Plain, Phase, Row, Kinds
    <2>5. CASE RecordCreateUnknown(rev)
      BY <1>1, <2>5 DEF RecordCreateUnknown, Plain, Unknown, Row, Kinds
    <2>6. CASE PrepareDestroy(rev, retry)
      BY <1>1, <2>6 DEF PrepareDestroy, Plain, Kinds, Allocs
    <2>7. CASE RecordDestroyUnknown(rev)
      BY <1>1, <2>7 DEF RecordDestroyUnknown, Plain, Kinds
    <2>8. CASE PreparePrevious(k, rev, e)
      BY <1>1, <2>8 DEF PreparePrevious, Plain, Phase, Row, Kinds
    <2>9. CASE RecordPreviousUnknown(k, rev, e)
      BY <1>1, <2>9 DEF RecordPreviousUnknown, Plain, Unknown, Row, Kinds
    <2> QED BY <2>1, <2>2, <2>3, <2>4, <2>5, <2>6, <2>7, <2>8, <2>9
  <1> QED BY <1>2, <1>3, <1>4, PlainStep

(* Maintenance of a running allocation.                                    *)
LEMMA LeaseTx ==
    ASSUME LifeInv, NEW rev \in Revisions, NEW e \in Epochs,
           \/ ClaimAllocation(e) \/ LeaseCleanup(rev) \/ RecordLeaseUnknown(rev)
           \/ RecordLeaseReady(rev) \/ DeferAllocation(rev)
           \/ MaintenanceExpires \/ LeaseExpires \/ MarkRuntimeUnknown
    PROVE  RowStep
  <1>1. op \in [Kinds -> Rows] /\ alloc \in Allocs
    BY DEF LifeInv, TypeOK, StoreTypeOK
  <1>2. /\ epoch' = epoch /\ op'["create"] = op["create"] /\ alloc'.status = alloc.status
    BY <1>1 DEF ClaimAllocation, LeaseCleanup, RecordLeaseUnknown, RecordLeaseReady,
       DeferAllocation, MaintenanceExpires, LeaseExpires, MarkRuntimeUnknown, Kinds, Allocs
  <1>3. StoreNext  BY DEF StoreNext, LeaseStep
  <1> QED BY <1>2, <1>3, PlainStep DEF Plain

(* The intent of the create.                                               *)
LEMMA DispatchTx ==
    ASSUME LifeInv, NEW rev \in Revisions, PrepareCreateDispatch(rev)
    PROVE  RowStep /\ Creating'
  <1>1. op \in [Kinds -> Rows] /\ op["create"] \in Rows /\ alloc \in Allocs
    BY DEF LifeInv, TypeOK, StoreTypeOK, Kinds
  <1>2. PICK e \in Epochs : TRUE  BY StoreAssumption DEF Epochs
  <1>3. StoreNext /\ epoch' = epoch
    BY <1>2 DEF StoreNext, CreateStep, PrepareCreateDispatch
  <1>4. alloc.status = "reserved" /\ alloc' = [alloc EXCEPT !.lease = "live"]
    BY DEF PrepareCreateDispatch, Dispatchable
  <1>5. alloc'.status = "reserved"  BY <1>1, <1>4 DEF Allocs
  <1>6. op'["create"] = Intent(op["create"], "create_dispatched")
    BY <1>1 DEF PrepareCreateDispatch, Kinds
  <1>7. op'["create"].attempt = op["create"].attempt + 1 /\ op'["create"].status = op["create"].status
    BY <1>6 DEF Intent, Row
  <1>8. Creating'  BY <1>1, <1>7 DEF Creating, Rows
  <1> QED BY <1>3, <1>5, <1>7, <1>8 DEF RowStep, LifeInv, Concluded

(* Readiness, with the evidence that the machine was launched.             *)
LEMMA ReadyTx ==
    ASSUME LifeInv, NEW rev \in Revisions, RecordCreateReady(rev), runtime # "unstarted"
    PROVE  RowStep
  <1>1. op \in [Kinds -> Rows] /\ op["create"] \in Rows /\ alloc \in Allocs
    BY DEF LifeInv, TypeOK, StoreTypeOK, Kinds
  <1>2. PICK e \in Epochs : TRUE  BY StoreAssumption DEF Epochs
  <1>3. StoreNext /\ epoch' = epoch
    BY <1>2 DEF StoreNext, CreateStep, RecordCreateReady
  <1>4. alloc'.status = "running"  BY <1>1 DEF RecordCreateReady, Allocs
  <1>5. op'["create"].attempt = op["create"].attempt
    BY <1>1 DEF RecordCreateReady, Outcome, Row, Kinds
  <1> QED BY <1>3, <1>4, <1>5 DEF RowStep, Creating

(* The releases, with the evidence that the machine is gone for good.      *)
LEMMA ReleaseTx ==
    ASSUME LifeInv, NEW k \in Kinds, NEW rev \in Revisions, NEW e \in Epochs, GoneForGood,
           \/ RecordCreateReleased(rev) \/ RecordDestroyReleased(rev)
           \/ RecordPreviousReleased(k, rev, e)
    PROVE  RowStep
  <1>1. op \in [Kinds -> Rows] /\ op["create"] \in Rows
    BY DEF LifeInv, TypeOK, StoreTypeOK, Kinds
  <1>2. StoreNext /\ epoch' = epoch
    BY DEF StoreNext, CreateStep, DestroyStep, PreviousStep, RecordCreateReleased,
       RecordDestroyReleased, RecordPreviousReleased
  <1>3. /\ DestroyDone["create"].attempt = op["create"].attempt
        /\ DestroyDone["create"].status \in {op["create"].status, "failed"}
    BY DEF DestroyDone, Row, Kinds
  <1>4. /\ op'["create"].attempt = op["create"].attempt
        /\ op'["create"].status \in {op["create"].status, "failed"}
    <2>1. CASE RecordCreateReleased(rev)
      BY <1>1, <2>1 DEF RecordCreateReleased, Outcome, Row, Kinds
    <2>2. CASE RecordDestroyReleased(rev)
      BY <1>3, <2>2 DEF RecordDestroyReleased
    <2>3. CASE RecordPreviousReleased(k, rev, e)
      BY <1>1, <1>3, <2>3 DEF RecordPreviousReleased, Outcome, Row, Kinds
    <2> QED BY <2>1, <2>2, <2>3
  <1> QED BY <1>2, <1>4 DEF RowStep, Creating, LifeInv, Concluded

(* The one release without evidence: no create was ever dispatched.        *)
LEMMA RejectTx ==
    ASSUME LifeInv, NEW rev \in Revisions, RejectUndispatchedCreate(rev)
    PROVE  RowStep
  <1>1. op \in [Kinds -> Rows] /\ op["create"] \in Rows
    BY DEF LifeInv, TypeOK, StoreTypeOK, Kinds
  <1>2. PICK e \in Epochs : TRUE  BY StoreAssumption DEF Epochs
  <1>3. StoreNext /\ epoch' = epoch
    BY <1>2 DEF StoreNext, CreateStep, RejectUndispatchedCreate
  <1>4. op["create"].attempt = 0  BY DEF RejectUndispatchedCreate, Rejectable
  <1>5. op'["create"].attempt = 0 /\ op'["create"].status = "failed"
    BY <1>1, <1>4 DEF RejectUndispatchedCreate, Outcome, Row, Kinds
  <1> QED BY <1>3, <1>4, <1>5 DEF RowStep, Creating

-----------------------------------------------------------------------------
(* Controllers.                                                            *)

Observations == {"none", "absent", "ready", "released", "fenced_absent"}
TickRecords ==
    [pc : {"idle", "previous", "reserve", "dispatch", "prepare", "stop", "await", "record",
           "unknown", "reject", "defer", "lease", "lease_unknown", "lease_defer"},
     kind : {"none", "lease"} \union Kinds, rev : Nat, epoch : Nat, call : Calls,
     obs : Observations]

(* The rows' part of the invariant.                                        *)
LEMMA RowsKeep ==
    ASSUME LifeInv, RowStep
    PROVE  StoreTypeOK' /\ Inv' /\ epoch' \in Epochs
  <1>1. StoreInv  BY DEF LifeInv, TypeOK, StoreInv
  <1> QED BY <1>1, TypeStep, InvStep DEF RowStep, StoreInv, LifeInv

(* A step of one tick: a transaction, and at most one request sent.        *)
LEMMA TickStep ==
    ASSUME LifeInv, RowStep, NEW c \in Controllers, NEW x \in TickRecords,
           w' = [w EXCEPT ![c] = x], Ticking(x), x.pc # "record",
           UNCHANGED <<host, busy, spawned, runtime>>, faults' \in Nat,
           net' \subseteq Calls, \A m \in net' : m \in net \/ (m.type = "create" => Creating')
    PROVE  LifeKept
  <1>1. w \in [Controllers -> TickRecords] /\ Ticks /\ HostOK
    BY DEF LifeInv, TypeOK, TickRecords, Observations
  <1>2. w' \in [Controllers -> TickRecords] /\ w'[c] = x
        /\ \A d \in Controllers \ {c} : w'[d] = w[d]
    BY <1>1
  <1>3. TypeOK'
    BY <1>2, RowsKeep DEF LifeInv, TypeOK, TickRecords, Observations
  <1>4. HostOK'  BY <1>1 DEF HostOK, RowStep
  <1>5. Concluded'  BY DEF Concluded, RowStep, GoneForGood, Gone
  <1>6. Ticks'
    <2> SUFFICES ASSUME NEW d \in Controllers PROVE Ticking(w[d])'  BY DEF Ticks
    <2>1. CASE d = c  BY <1>2, <2>1 DEF Ticking
    <2>2. CASE d # c
      <3>1. w'[d] = w[d] /\ Ticking(w[d])  BY <1>1, <1>2, <2>2 DEF Ticks
      <3> QED BY <3>1 DEF Ticking, GoneForGood, Gone
    <2> QED BY <2>1, <2>2
  <1> QED BY <1>3, <1>4, <1>5, <1>6, RowsKeep DEF LifeInv, LifeKept, RowStep

(* A tick that ends.                                                       *)
LEMMA TickEnds ==
    ASSUME LifeInv, RowStep, NEW c \in Controllers, Finish(c), UNCHANGED hostVars, faults' \in Nat
    PROVE  LifeKept
  <1>1. NoCall \in Calls  BY DEF NoCall, Calls
  <1>2. Idle \in TickRecords /\ Ticking(Idle) /\ Idle.pc = "idle"
    BY <1>1 DEF Idle, TickRecords, Observations, Ticking
  <1>3. UNCHANGED <<host, busy, spawned, runtime>> /\ net' = net  BY DEF hostVars
  <1>4. net' \subseteq Calls  BY <1>3 DEF LifeInv, TypeOK
  <1> QED BY <1>2, <1>3, <1>4, TickStep DEF Finish

(* A tick that goes on.                                                    *)
LEMMA TickGoes ==
    ASSUME LifeInv, RowStep, NEW c \in Controllers, UNCHANGED hostVars, faults' \in Nat,
           w[c].pc # "idle",
           NEW pc \in {"reserve", "dispatch", "prepare", "stop", "unknown", "reject", "defer",
                       "lease_unknown", "lease_defer"},
           Goto(c, pc), pc \in {"lease_unknown", "lease_defer"} \/ w[c].kind \in Kinds
    PROVE  LifeKept
  <1>1. w \in [Controllers -> TickRecords] /\ w[c] \in TickRecords /\ Ticking(w[c])
    BY DEF LifeInv, TypeOK, TickRecords, Observations, Ticks
  <1>2. PICK x : x = [w[c] EXCEPT !.pc = pc]  OBVIOUS
  <1>3. x \in TickRecords /\ x.pc = pc /\ x.kind = w[c].kind /\ x.rev = w[c].rev
        /\ x.epoch = w[c].epoch
    BY <1>1, <1>2 DEF TickRecords
  <1>4. w' = [w EXCEPT ![c] = x]  BY <1>1, <1>2 DEF Goto
  <1>5. Ticking(x) /\ x.pc # "record"  BY <1>1, <1>3 DEF Ticking
  <1>6. UNCHANGED <<host, busy, spawned, runtime>> /\ net' = net  BY DEF hostVars
  <1>7. net' \subseteq Calls  BY <1>6 DEF LifeInv, TypeOK
  <1> QED BY <1>3, <1>4, <1>5, <1>6, <1>7, TickStep

(* A tick that sends a request; a create only with its intent.             *)
LEMMA TickSends ==
    ASSUME LifeInv, RowStep, NEW c \in Controllers, NEW m \in Calls, Send(c, m), w[c].pc # "idle",
           m.type = "create" => Creating',
           w[c].kind \in Kinds \/ (w[c].kind = "lease" /\ m.type = "lease")
    PROVE  LifeKept
  <1>1. /\ w \in [Controllers -> TickRecords] /\ w[c] \in TickRecords /\ Ticking(w[c])
        /\ net \subseteq Calls /\ faults \in Nat
    BY DEF LifeInv, TypeOK, TickRecords, Observations, Ticks
  <1>2. PICK x : x = [w[c] EXCEPT !.pc = "await", !.call = m]  OBVIOUS
  <1>3. x \in TickRecords /\ x.pc = "await" /\ x.kind = w[c].kind /\ x.rev = w[c].rev
        /\ x.epoch = w[c].epoch /\ x.call = m
    BY <1>1, <1>2 DEF TickRecords
  <1>4. w' = [w EXCEPT ![c] = x]  BY <1>1, <1>2 DEF Send
  <1>5. Ticking(x) /\ x.pc # "record"  BY <1>1, <1>3 DEF Ticking
  <1>6. UNCHANGED <<host, busy, spawned, runtime>> /\ net' = net \union {m} /\ faults' \in Nat
    BY <1>1 DEF Send
  <1>7. net' \subseteq Calls /\ \A n \in net' : n \in net \/ (n.type = "create" => Creating')
    BY <1>1, <1>6
  <1> QED BY <1>3, <1>4, <1>5, <1>6, <1>7, TickStep

(* Claiming an operation or the allocation's maintenance.                  *)
LEMMA TickBegins ==
    ASSUME LifeInv, NEW c \in Controllers, (\E k \in Kinds : Tick(c, k)) \/ MaintenanceTick(c)
    PROVE  LifeKept
  <1>0. /\ op \in [Kinds -> Rows] /\ alloc \in Allocs /\ epoch \in Epochs /\ epoch \in Nat
        /\ net \subseteq Calls /\ faults \in Nat /\ NoCall \in Calls
    BY DEF LifeInv, TypeOK, StoreTypeOK, NoCall, Calls
  <1>1. /\ UNCHANGED <<host, busy, spawned, runtime>> /\ net' = net /\ faults' \in Nat
    BY <1>0 DEF Tick, MaintenanceTick, Local, hostVars
  <1>2. ASSUME NEW k \in Kinds, Tick(c, k) PROVE LifeKept
    <2>1. PICK x : x = [pc |-> "previous", kind |-> k, rev |-> op'[k].rev, epoch |-> epoch,
                        call |-> NoCall, obs |-> "none"]
      OBVIOUS
    <2>2. w' = [w EXCEPT ![c] = x] /\ ClaimNext(k)  BY <1>2, <2>1 DEF Tick
    <2>3. op'[k].rev = op[k].rev + 1 /\ op[k].rev < MaxClaims /\ op[k].rev \in Nat
      BY <1>0, <2>2 DEF ClaimNext, Rows
    <2>4. op'[k].rev \in Revisions /\ op'[k].rev \in Nat
      BY <2>3, StoreAssumption DEF Revisions
    <2>5. x \in TickRecords /\ Ticking(x) /\ x.pc = "previous"
      BY <1>0, <2>1, <2>4 DEF TickRecords, Observations, Ticking
    <2>6. PICK rev \in Revisions : TRUE  BY <2>4
    <2>7. RowStep  BY <2>2, <2>6, ClaimTx
    <2> QED BY <1>0, <1>1, <2>2, <2>5, <2>7, TickStep
  <1>3. CASE MaintenanceTick(c)
    <2>1. PICK x : x = [pc |-> "lease", kind |-> "lease", rev |-> alloc'.maint, epoch |-> epoch,
                        call |-> NoCall, obs |-> "none"]
      OBVIOUS
    <2>2. w' = [w EXCEPT ![c] = x] /\ ClaimAllocation(epoch)  BY <1>3, <2>1 DEF MaintenanceTick
    <2>3. alloc'.maint = alloc.maint + 1 /\ alloc.maint < MaxClaims /\ alloc.maint \in Nat
      BY <1>0, <2>2 DEF ClaimAllocation, Allocs
    <2>4. alloc'.maint \in Revisions /\ alloc'.maint \in Nat
      BY <2>3, StoreAssumption DEF Revisions
    <2>5. x \in TickRecords /\ Ticking(x) /\ x.pc = "lease"
      BY <1>0, <2>1, <2>4 DEF TickRecords, Observations, Ticking
    <2>6. PICK rev \in Revisions : TRUE  BY <2>4
    <2>7. RowStep  BY <1>0, <2>2, <2>6, LeaseTx
    <2> QED BY <1>0, <1>1, <2>2, <2>5, <2>7, TickStep
  <1> QED BY <1>2, <1>3

(* The requests controllers send.                                          *)
LEMMA CallType ==
    ASSUME LifeInv, NEW type \in {"create", "inspect", "stop", "previous", "lease"},
           NEW kind \in {"lease"} \union Kinds, NEW rev \in Nat, NEW reporting \in Nat
    PROVE  Call(type, kind, rev, reporting) \in Calls
           /\ Call(type, kind, rev, reporting).type = type
  <1>1. alloc.epoch \in Nat  BY DEF LifeInv, TypeOK, StoreTypeOK, Allocs
  <1> QED BY <1>1 DEF Call, Calls

(* The rest of the tick of an operation.                                   *)
LEMMA OperationTick ==
    ASSUME LifeInv, NEW c \in Controllers,
           \/ PreviousTick(c) \/ ReserveTick(c) \/ DispatchTick(c) \/ PrepareTick(c)
           \/ StopAgain(c) \/ InspectedTick(c) \/ RejectTick(c) \/ DeferTick(c)
    PROVE  LifeKept
  <1>1. PICK k, rev, e : k = w[c].kind /\ rev = w[c].rev /\ e = w[c].epoch  OBVIOUS
  <1>2. faults \in Nat /\ Ticking(w[c])  BY DEF LifeInv, TypeOK, Ticks
  <1>3. w[c].pc \in {"previous", "reserve", "dispatch", "prepare", "stop", "reject", "defer"}
        \/ (w[c].pc = "record" /\ w[c].kind = "destroy")
    BY DEF PreviousTick, ReserveTick, DispatchTick, PrepareTick, StopAgain, InspectedTick,
       RejectTick, DeferTick
  <1>4. k \in Kinds /\ rev \in Revisions /\ e \in Epochs /\ w[c].pc # "idle"
    BY <1>1, <1>2, <1>3 DEF Ticking, Kinds
  <1>5. rev \in Nat /\ e \in Nat /\ 0 \in Nat
    BY <1>4, StoreAssumption DEF Revisions, Epochs
  <1>6. ASSUME UNCHANGED storeVars,
               NEW pc \in {"reserve", "dispatch", "prepare", "stop", "unknown", "reject", "defer"},
               Goto(c, pc), Local
        PROVE  LifeKept
    <2>1. UNCHANGED hostVars /\ faults' \in Nat  BY <1>2, <1>6 DEF Local
    <2> QED BY <1>1, <1>4, <1>6, <2>1, RowsStay, TickGoes
  <1>7. ASSUME Finish(c), Local, RowStep PROVE LifeKept
    <2>1. UNCHANGED hostVars /\ faults' \in Nat  BY <1>2, <1>7 DEF Local
    <2> QED BY <1>7, <2>1, TickEnds
  <1>8. ASSUME NEW type \in {"inspect", "stop", "previous", "create"}, NEW n \in {0, e},
               NEW kind \in Kinds,
               Send(c, Call(type, kind, rev, n)), RowStep, type = "create" => Creating'
        PROVE  LifeKept
    <2>1. PICK m : m = Call(type, kind, rev, n)  OBVIOUS
    <2>2. m \in Calls /\ m.type = type
      <3>1. n \in Nat /\ type \in {"create", "inspect", "stop", "previous", "lease"}
            /\ kind \in {"lease"} \union Kinds /\ rev \in Nat
        BY <1>5
      <3> QED BY <2>1, <3>1, CallType
    <2>3. Send(c, m)  BY <1>8, <2>1
    <2> QED BY <1>1, <1>4, <1>8, <2>2, <2>3, TickSends
  <1>9. CASE PreviousTick(c)
    <2>1. CASE PreparePrevious(k, rev, e) /\ Send(c, Call("previous", k, rev, e))
      <3>1. RowStep  BY <1>4, <2>1, PrepareTx
      <3> QED BY <1>4, <1>8, <2>1, <3>1
    <2>2. CASE /\ UNCHANGED storeVars /\ Local
               /\ \E pc \in {"reserve", "prepare", "reject", "defer"} : Goto(c, pc)
      BY <1>6, <2>2
    <2>3. \/ PreparePrevious(k, rev, e) /\ Send(c, Call("previous", k, rev, e))
          \/ /\ UNCHANGED storeVars /\ Local
             /\ \E pc \in {"reserve", "prepare", "reject", "defer"} : Goto(c, pc)
      BY <1>1, <1>9 DEF PreviousTick
    <2> QED BY <2>1, <2>2, <2>3
  <1>10. CASE ReserveTick(c)
    <2>1. CASE ReserveCreate(rev, e) /\ Goto(c, "dispatch") /\ Local
      <3>1. RowStep  BY <1>4, <2>1, PrepareTx
      <3>2. UNCHANGED hostVars /\ faults' \in Nat  BY <1>2, <2>1 DEF Local
      <3> QED BY <1>1, <1>4, <2>1, <3>1, <3>2, TickGoes
    <2>2. CASE /\ UNCHANGED storeVars /\ Local
               /\ \E pc \in {"dispatch", "reject", "defer"} : Goto(c, pc)
      BY <1>6, <2>2
    <2>3. \/ ReserveCreate(rev, e) /\ Goto(c, "dispatch") /\ Local
          \/ /\ UNCHANGED storeVars /\ Local
             /\ \E pc \in {"dispatch", "reject", "defer"} : Goto(c, pc)
      BY <1>1, <1>10 DEF ReserveTick
    <2> QED BY <2>1, <2>2, <2>3
  <1>11. CASE DispatchTick(c)
    <2>0. "create" \in Kinds  BY DEF Kinds
    <2>1. CASE PrepareCreateDispatch(rev) /\ Send(c, Call("create", "create", rev, 0))
      BY <1>4, <1>8, <2>0, <2>1, DispatchTx
    <2>2. CASE PrepareCreateInspect(rev) /\ Send(c, Call("inspect", "create", rev, 0))
      <3>1. RowStep  BY <1>4, <2>2, PrepareTx
      <3> QED BY <1>8, <2>0, <2>2, <3>1
    <2>3. CASE UNCHANGED storeVars /\ Local /\ \E pc \in {"reject", "defer"} : Goto(c, pc)
      BY <1>6, <2>3
    <2> QED BY <1>1, <1>11, <2>1, <2>2, <2>3 DEF DispatchTick
  <1>12. CASE PrepareTick(c) \/ StopAgain(c)
    <2>0. "destroy" \in Kinds  BY DEF Kinds
    <2>1. ASSUME NEW retry \in BOOLEAN, NEW type \in {"stop", "inspect"},
                 PrepareDestroy(rev, retry), Send(c, Call(type, "destroy", rev, 0))
          PROVE  LifeKept
      <3>1. RowStep  BY <1>4, <2>1, PrepareTx
      <3> QED BY <1>8, <2>0, <2>1, <3>1
    <2>2. CASE PrepareDestroy(rev, FALSE) /\ Goto(c, "defer") /\ Local
      <3>1. RowStep  BY <1>4, <2>2, PrepareTx
      <3>2. UNCHANGED hostVars /\ faults' \in Nat  BY <1>2, <2>2 DEF Local
      <3> QED BY <1>1, <1>4, <2>2, <3>1, <3>2, TickGoes
    <2>3. CASE UNCHANGED storeVars /\ Local /\ Goto(c, "defer")
      BY <1>6, <2>3
    <2>4. \/ \E retry \in BOOLEAN, type \in {"stop", "inspect"} :
                PrepareDestroy(rev, retry) /\ Send(c, Call(type, "destroy", rev, 0))
          \/ PrepareDestroy(rev, FALSE) /\ Goto(c, "defer") /\ Local
          \/ UNCHANGED storeVars /\ Local /\ Goto(c, "defer")
      BY <1>1, <1>12 DEF PrepareTick, StopAgain
    <2> QED BY <2>1, <2>2, <2>3, <2>4
  <1>13. CASE InspectedTick(c)  BY <1>6, <1>13 DEF InspectedTick
  <1>14. CASE RejectTick(c)
    <2>1. CASE RejectUndispatchedCreate(rev) /\ Finish(c)
      BY <1>4, <1>7, <1>14, <2>1, RejectTx DEF RejectTick
    <2>2. CASE Goto(c, "defer") /\ UNCHANGED storeVars
      BY <1>6, <1>14, <2>2 DEF RejectTick
    <2> QED BY <1>1, <1>14, <2>1, <2>2 DEF RejectTick
  <1>15. CASE DeferTick(c)
    <2>1. RowStep
      <3>1. CASE DeferClaim(k, rev)  BY <1>4, <3>1, ClaimTx
      <3>2. CASE UNCHANGED storeVars  BY <3>2, RowsStay
      <3> QED BY <1>1, <1>15, <3>1, <3>2 DEF DeferTick
    <2> QED BY <1>7, <1>15, <2>1 DEF DeferTick
  <1> QED BY <1>9, <1>10, <1>11, <1>12, <1>13, <1>14, <1>15

(* The tick after its RPC: what the host answered, or that it did not.     *)
LEMMA AnswerTick ==
    ASSUME LifeInv, NEW c \in Controllers,
           AwaitFails(c) \/ RecordTick(c) \/ RecordPreviousTick(c) \/ UnknownTick(c)
    PROVE  LifeKept
  <1>1. PICK k, rev, e : k = w[c].kind /\ rev = w[c].rev /\ e = w[c].epoch  OBVIOUS
  <1>2. faults \in Nat /\ Ticking(w[c])  BY DEF LifeInv, TypeOK, Ticks
  <1>3. w[c].pc \in {"await", "record", "unknown"} /\ UNCHANGED hostVars /\ faults' \in Nat
    BY <1>2 DEF AwaitFails, RecordTick, RecordPreviousTick, UnknownTick, Local, Fault
  <1>4. rev \in Revisions /\ e \in Epochs /\ w[c].pc # "idle"
    BY <1>1, <1>2, <1>3 DEF Ticking
  <1>5. ASSUME k \in Kinds, UNCHANGED storeVars, NEW pc \in {"unknown", "defer"}, Goto(c, pc)
        PROVE  LifeKept
    BY <1>1, <1>3, <1>4, <1>5, RowsStay, TickGoes
  <1>6. ASSUME Finish(c), RowStep PROVE LifeKept  BY <1>3, <1>6, TickEnds
  <1>7. CASE AwaitFails(c)
    <2>1. CASE w[c].kind = "lease"
      BY <1>3, <1>4, <1>7, <2>1, RowsStay, TickGoes DEF AwaitFails
    <2>2. CASE w[c].kind # "lease"
      <3>1. k \in Kinds  BY <1>1, <1>2, <1>7, <2>2 DEF AwaitFails, Ticking
      <3> QED BY <1>5, <1>7, <2>2, <3>1 DEF AwaitFails
    <2> QED BY <2>1, <2>2
  <1>8. CASE RecordTick(c)
    <2>1. k \in Kinds /\ w[c].pc = "record"  BY <1>1, <1>8 DEF RecordTick
    <2>2. CASE RecordCreateReady(rev) /\ w[c].obs = "ready" /\ Finish(c)
      <3>1. runtime # "unstarted"  BY <1>2, <2>1, <2>2 DEF Ticking
      <3> QED BY <1>4, <1>6, <2>2, <3>1, ReadyTx
    <2>3. CASE /\ RecordCreateReleased(rev) \/ RecordDestroyReleased(rev)
               /\ w[c].obs \in {"released", "fenced_absent"} /\ Finish(c)
      <3>1. GoneForGood  BY <1>2, <2>1, <2>3 DEF Ticking
      <3>2. RowStep  BY <1>4, <2>1, <2>3, <3>1, ReleaseTx
      <3> QED BY <1>6, <2>3, <3>2
    <2>4. CASE UNCHANGED storeVars /\ \E pc \in {"unknown", "defer"} : Goto(c, pc)
      BY <1>5, <2>1, <2>4
    <2>5. \/ RecordCreateReady(rev) /\ w[c].obs = "ready" /\ Finish(c)
          \/ /\ RecordCreateReleased(rev) \/ RecordDestroyReleased(rev)
             /\ w[c].obs \in {"released", "fenced_absent"} /\ Finish(c)
          \/ UNCHANGED storeVars /\ \E pc \in {"unknown", "defer"} : Goto(c, pc)
      BY <1>1, <1>8 DEF RecordTick, Evidence
    <2> QED BY <2>2, <2>3, <2>4, <2>5
  <1>9. CASE RecordPreviousTick(c)
    <2>1. k \in Kinds /\ w[c].pc = "record"
      BY <1>1, <1>2, <1>9 DEF RecordPreviousTick, Ticking
    <2>2. CASE RecordPreviousReleased(k, rev, e) /\ PreviousEvidenceIn(w[c].obs) /\ Finish(c)
      <3>1. GoneForGood  BY <1>2, <2>1, <2>2 DEF Ticking, PreviousEvidenceIn
      <3>2. RowStep  BY <1>4, <2>1, <2>2, <3>1, ReleaseTx
      <3> QED BY <1>6, <2>2, <3>2
    <2>3. CASE UNCHANGED storeVars /\ \E pc \in {"unknown", "defer"} : Goto(c, pc)
      BY <1>5, <2>1, <2>3
    <2> QED BY <1>1, <1>9, <2>2, <2>3 DEF RecordPreviousTick
  <1>10. CASE UnknownTick(c)
    <2>1. k \in Kinds  BY <1>1, <1>2, <1>10 DEF UnknownTick, Ticking
    <2>2. CASE /\ RecordCreateUnknown(rev) \/ RecordDestroyUnknown(rev)
                  \/ RecordPreviousUnknown(k, rev, e)
               /\ Finish(c)
      <3>0. TRUE \in BOOLEAN  OBVIOUS
      <3>1. RowStep  BY <1>4, <2>1, <2>2, <3>0, PrepareTx
      <3> QED BY <1>6, <2>2, <3>1
    <2>3. CASE UNCHANGED storeVars /\ Goto(c, "defer")  BY <1>5, <2>1, <2>3
    <2> QED BY <1>1, <1>10, <2>2, <2>3 DEF UnknownTick
  <1> QED BY <1>7, <1>8, <1>9, <1>10

(* The rest of a maintenance tick, and a tick that is abandoned.           *)
LEMMA LeaseTick ==
    ASSUME LifeInv, NEW c \in Controllers,
           \/ PrepareLeaseTick(c) \/ RecordLeaseTick(c) \/ LeaseUnknownTick(c) \/ LeaseDeferTick(c)
           \/ Abandon(c)
    PROVE  LifeKept
  <1>1. PICK rev : rev = w[c].rev  OBVIOUS
  <1>2. faults \in Nat /\ Ticking(w[c]) /\ w[c] \in TickRecords
    BY DEF LifeInv, TypeOK, Ticks, TickRecords, Observations
  <1>3. w[c].pc # "idle"
    BY DEF PrepareLeaseTick, RecordLeaseTick, LeaseUnknownTick, LeaseDeferTick, Abandon
  <1>4. rev \in Revisions /\ rev \in Nat /\ epoch \in Epochs
    BY <1>1, <1>2, <1>3 DEF Ticking, TickRecords, LifeInv
  <1>5. ASSUME Finish(c), Local, RowStep PROVE LifeKept
    <2>1. UNCHANGED hostVars /\ faults' \in Nat  BY <1>2, <1>5 DEF Local
    <2> QED BY <1>5, <2>1, TickEnds
  <1>6. ASSUME NEW pc \in {"lease_unknown", "lease_defer"}, Goto(c, pc), Local, UNCHANGED storeVars
        PROVE  LifeKept
    <2>1. UNCHANGED hostVars /\ faults' \in Nat  BY <1>2, <1>6 DEF Local
    <2> QED BY <1>3, <1>6, <2>1, RowsStay, TickGoes
  <1>7. ASSUME Finish(c), Local,
               LeaseCleanup(rev) \/ RecordLeaseReady(rev) \/ RecordLeaseUnknown(rev)
                 \/ DeferAllocation(rev)
        PROVE  LifeKept
    <2>1. RowStep  BY <1>4, <1>7, LeaseTx
    <2> QED BY <1>5, <1>7, <2>1
  <1>8. CASE PrepareLeaseTick(c)
    <2>1. CASE Send(c, Call("lease", "lease", rev, 0)) /\ UNCHANGED storeVars
      <3>1. PICK m : m = Call("lease", "lease", rev, 0)  OBVIOUS
      <3>2. m \in Calls /\ m.type = "lease"  BY <1>4, <3>1, CallType
      <3>3. RowStep /\ Send(c, m)  BY <2>1, <3>1, RowsStay
      <3>4. w[c].kind = "lease"  BY <1>2, <1>8 DEF Ticking, PrepareLeaseTick
      <3> QED BY <1>3, <3>2, <3>3, <3>4, TickSends
    <2> QED BY <1>1, <1>6, <1>7, <1>8, <2>1 DEF PrepareLeaseTick
  <1>9. CASE RecordLeaseTick(c)  BY <1>1, <1>6, <1>7, <1>9 DEF RecordLeaseTick
  <1>10. CASE LeaseUnknownTick(c)  BY <1>1, <1>6, <1>7, <1>10 DEF LeaseUnknownTick
  <1>11. CASE LeaseDeferTick(c)  BY <1>1, <1>5, <1>7, <1>11, RowsStay DEF LeaseDeferTick
  <1>12. CASE Abandon(c)
    <2>1. Finish(c) /\ UNCHANGED hostVars /\ faults' \in Nat /\ UNCHANGED storeVars
      BY <1>2, <1>12 DEF Abandon, Fault
    <2> QED BY <2>1, RowsStay, TickEnds
  <1> QED BY <1>8, <1>9, <1>10, <1>11, <1>12
-----------------------------------------------------------------------------
(* The host.                                                               *)

HostRecords == [epoch : Nat, record : BOOLEAN, stopped : BOOLEAN, created : BOOLEAN,
                rev : [Kinds -> Nat], lease : Nat]

(* What a step of the host or of the guardian does: it sends no request,   *)
(* leaves the rows alone, brings back nothing that was gone for good, and  *)
(* answers at most the request it served, with the truth.                  *)
LEMMA HostFrame ==
    ASSUME LifeInv, UNCHANGED storeVars, net' \subseteq net,
           busy' \in Calls, host' \in HostRecords, spawned' \in BOOLEAN,
           runtime' \in Runtime!RuntimeStates, faults' \in Nat,
           host'.stopped => host'.record, host'.created => host'.record /\ Creating,
           spawned' => host'.created, runtime' # "unstarted" => host'.created,
           GoneForGood => GoneForGood', runtime # "unstarted" => runtime' # "unstarted",
           NEW o \in Observations,
           o = "ready" => runtime' # "unstarted",
           o \in {"released", "fenced_absent"} => GoneForGood',
           w' = w \/ w' = [c \in Controllers |->
                             IF w[c].pc = "await" /\ w[c].call = busy
                             THEN [w[c] EXCEPT !.pc = "record", !.obs = o] ELSE w[c]]
    PROVE  LifeKept
  <1>1. w \in [Controllers -> TickRecords] /\ Ticks /\ HostOK /\ Concluded
    BY DEF LifeInv, TypeOK, TickRecords, Observations
  <1>2. ASSUME NEW c \in Controllers
        PROVE  \/ w'[c] = w[c]
               \/ w[c].pc = "await" /\ w'[c] = [w[c] EXCEPT !.pc = "record", !.obs = o]
    OBVIOUS
  <1>3. ASSUME NEW c \in Controllers PROVE w'[c] \in TickRecords
    <2>1. w[c] \in TickRecords  BY <1>1
    <2>2. [w[c] EXCEPT !.pc = "record", !.obs = o] \in TickRecords  BY <2>1 DEF TickRecords
    <2> QED BY <1>2, <2>1, <2>2
  <1>4. w' \in [Controllers -> TickRecords]  BY <1>1, <1>3
  <1>5. RowStep /\ Creating' = Creating  BY RowsStay DEF Creating, storeVars
  <1>6. net' \subseteq Calls  BY DEF LifeInv, TypeOK
  <1>7. TypeOK'
    BY <1>4, <1>5, <1>6, RowsKeep DEF TypeOK, TickRecords, Observations, HostRecords
  <1>8. HostOK'  BY <1>1, <1>5 DEF HostOK
  <1>9. alloc' = alloc /\ op' = op  BY DEF storeVars
  <1>10. Concluded'  BY <1>1, <1>5, <1>9 DEF Concluded
  <1>11. Ticks'
    <2> SUFFICES ASSUME NEW c \in Controllers PROVE Ticking(w[c])'  BY DEF Ticks
    <2>1. Ticking(w[c]) /\ w[c] \in TickRecords  BY <1>1 DEF Ticks
    <2>2. CASE w'[c] = w[c]  BY <2>1, <2>2 DEF Ticking
    <2>3. CASE w[c].pc = "await" /\ w'[c] = [w[c] EXCEPT !.pc = "record", !.obs = o]
      <3>1. /\ w'[c].pc = "record" /\ w'[c].obs = o /\ w'[c].kind = w[c].kind
            /\ w'[c].rev = w[c].rev /\ w'[c].epoch = w[c].epoch /\ w'[c].call = w[c].call
        BY <2>1, <2>3 DEF TickRecords
      <3> QED BY <2>1, <2>3, <3>1 DEF Ticking
    <2> QED BY <1>2, <2>2, <2>3
  <1> QED BY <1>5, <1>7, <1>8, <1>10, <1>11, RowsKeep DEF LifeInv, LifeKept, RowStep

(* Requests taken up, refused or lost.                                     *)
LEMMA HostTakes ==
    ASSUME LifeInv, NEW m \in net, BeginCall(m) \/ RefuseCall(m) \/ LoseCall(m)
    PROVE  LifeKept
  <1>1. /\ m \in Calls /\ host \in HostRecords /\ busy \in Calls /\ spawned \in BOOLEAN
        /\ runtime \in Runtime!RuntimeStates /\ faults \in Nat /\ HostOK
    BY DEF LifeInv, TypeOK, HostRecords
  <1>2. /\ UNCHANGED storeVars /\ net' \subseteq net /\ busy' \in {busy, m} /\ w' = w
        /\ runtime' = runtime /\ faults' \in Nat
    <2>1. CASE BeginCall(m)
      BY <1>1, <2>1 DEF BeginCall, BeginCreate, DenyCreate, BeginInspect, BeginPrevious,
         BeginLease, TakeUp, Quiet
    <2>2. CASE RefuseCall(m)  BY <1>1, <2>2 DEF RefuseCall, Quiet
    <2>3. CASE LoseCall(m)
      <3>1. faults' \in Nat  BY <1>1, <2>3 DEF LoseCall, Fault
      <3> QED BY <2>3, <3>1 DEF LoseCall
    <2> QED BY <2>1, <2>2, <2>3
  <1>3. /\ host' \in HostRecords /\ spawned' \in BOOLEAN
        /\ host'.stopped => host'.record
        /\ host'.created => host'.record /\ Creating
        /\ spawned' => host'.created
        /\ host.created => host'.created
        /\ host.stopped => host'.stopped /\ spawned' = spawned
    <2>1. CASE UNCHANGED <<host, spawned>>  BY <1>1, <2>1 DEF HostOK
    <2>2. ASSUME NEW stopped \in BOOLEAN, NEW created \in BOOLEAN
          PROVE  /\ Record(m, stopped, created) \in HostRecords
                 /\ Record(m, stopped, created).record
                 /\ Record(m, stopped, created).stopped = stopped
                 /\ Record(m, stopped, created).created = created
      <3>1. host.rev \in [Kinds -> Nat] /\ m.rev \in Nat /\ host.epoch \in Nat
            /\ host.lease \in Nat
        BY <1>1 DEF HostRecords, Calls
      <3>2. PICK f : f = [host.rev EXCEPT ![m.kind] = m.rev]  OBVIOUS
      <3>3. f \in [Kinds -> Nat]  BY <3>1, <3>2
      <3> QED BY <3>1, <3>2, <3>3 DEF Record, HostRecords
    <2>3. CASE BeginCreate(m)
      <3>1. m.type = "create" /\ ~host.stopped /\ ~host.created  BY <2>3 DEF BeginCreate
      <3>2. Creating  BY <1>1, <3>1 DEF HostOK
      <3>3. PICK ok \in BOOLEAN : spawned' = ok /\ host' = Record(m, ~ok, TRUE)
        BY <2>3 DEF BeginCreate
      <3>4. (~ok) \in BOOLEAN /\ TRUE \in BOOLEAN  OBVIOUS
      <3> QED BY <2>2, <3>1, <3>2, <3>3, <3>4
    <2>4. CASE DenyCreate(m) \/ BeginInspect(m)
      <3>1. UNCHANGED spawned
        /\ \E stopped \in BOOLEAN :
              (host.stopped => stopped) /\ host' = Record(m, stopped, host.created)
        BY <1>1, <2>4 DEF DenyCreate, BeginInspect, HostRecords
      <3>2. PICK stopped \in BOOLEAN :
              (host.stopped => stopped) /\ host' = Record(m, stopped, host.created)
        BY <3>1
      <3>3. host.created \in BOOLEAN  BY <1>1 DEF HostRecords
      <3>4. /\ host' \in HostRecords /\ host'.record /\ host'.stopped = stopped
            /\ host'.created = host.created
        BY <2>2, <3>2, <3>3
      <3> QED BY <1>1, <3>1, <3>2, <3>4 DEF HostOK
    <2>5. CASE BeginLease(m)
      <3>1. host' = [host EXCEPT !.lease = m.rev] /\ UNCHANGED spawned  BY <2>5 DEF BeginLease
      <3> QED BY <1>1, <3>1 DEF HostRecords, Calls, HostOK
    <2> QED BY <2>1, <2>3, <2>4, <2>5 DEF BeginCall, BeginPrevious, RefuseCall, LoseCall
  <1>4. runtime' # "unstarted" => host'.created  BY <1>1, <1>2, <1>3 DEF HostOK
  <1>5. GoneForGood => GoneForGood'  BY <1>2, <1>3 DEF GoneForGood, Gone
  <1>6. "none" \in Observations  BY DEF Observations
  <1>7. busy' \in Calls /\ runtime' \in Runtime!RuntimeStates  BY <1>1, <1>2
  <1> QED BY <1>2, <1>3, <1>4, <1>5, <1>6, <1>7, HostFrame

(* Answers.                                                                *)
LEMMA HostAnswers ==
    ASSUME LifeInv, AnswerAbsent \/ AnswerReady \/ AnswerReleased \/ AnswerFails
    PROVE  LifeKept
  <1>1. /\ host \in HostRecords /\ busy \in Calls /\ spawned \in BOOLEAN /\ NoCall \in Calls
        /\ runtime \in Runtime!RuntimeStates /\ faults \in Nat /\ HostOK
    BY DEF LifeInv, TypeOK, HostRecords, NoCall, Calls
  <1>2. /\ UNCHANGED storeVars /\ net' = net /\ busy' \in Calls /\ faults' \in Nat
        /\ spawned' = spawned
    <2>1. CASE AnswerAbsent \/ AnswerReady \/ AnswerReleased
      BY <1>1, <2>1 DEF AnswerAbsent, AnswerReady, AnswerReleased, Answer, Quiet
    <2>2. CASE AnswerFails
      <3>1. faults' \in Nat  BY <1>1, <2>2 DEF AnswerFails, Fault
      <3> QED BY <1>1, <2>2, <3>1 DEF AnswerFails
    <2> QED BY <2>1, <2>2
  <1>3. CASE AnswerAbsent
    <2>1. PICK o : o = IF host.stopped THEN "fenced_absent" ELSE "absent"  OBVIOUS
    <2>2. o \in Observations /\ o # "ready" /\ (o = "fenced_absent" => host.stopped)
          /\ o # "released"
      BY <2>1 DEF Observations
    <2>3. UNCHANGED <<host, runtime>> /\ Answer(o) /\ ~host.created
      BY <1>3, <2>1 DEF AnswerAbsent
    <2>4. Gone /\ Gone'  BY <1>1, <1>2, <2>3 DEF HostOK, Gone
    <2>5. o \in {"released", "fenced_absent"} => GoneForGood'
      BY <2>2, <2>3, <2>4 DEF GoneForGood
    <2>6. GoneForGood => GoneForGood'  BY <2>3, <2>4 DEF GoneForGood
    <2>7. w' = [c \in Controllers |->
                 IF w[c].pc = "await" /\ w[c].call = busy
                 THEN [w[c] EXCEPT !.pc = "record", !.obs = o] ELSE w[c]]
      BY <2>3 DEF Answer
    <2> QED BY <1>1, <1>2, <2>2, <2>3, <2>5, <2>6, <2>7, HostFrame DEF HostOK
  <1>4. CASE AnswerReady
    <2>1. UNCHANGED <<host, runtime>> /\ Answer("ready") /\ runtime = "live"
      BY <1>4 DEF AnswerReady
    <2>2. GoneForGood => GoneForGood'  BY <1>2, <2>1 DEF GoneForGood, Gone
    <2>3. w' = [c \in Controllers |->
                 IF w[c].pc = "await" /\ w[c].call = busy
                 THEN [w[c] EXCEPT !.pc = "record", !.obs = "ready"] ELSE w[c]]
      BY <2>1 DEF Answer
    <2>4. "ready" \in Observations  BY DEF Observations
    <2> QED BY <1>1, <1>2, <2>1, <2>2, <2>3, <2>4, HostFrame DEF HostOK
  <1>5. CASE AnswerReleased
    <2>1. runtime' = "released" /\ host' = [host EXCEPT !.stopped = TRUE] /\ Answer("released")
          /\ host.created
      BY <1>5 DEF AnswerReleased
    <2>2. host' \in HostRecords /\ host'.stopped /\ host'.created = host.created
          /\ host'.record = host.record
      BY <1>1, <2>1 DEF HostRecords
    <2>3. GoneForGood'  BY <2>1, <2>2 DEF GoneForGood, Gone
    <2>4. w' = [c \in Controllers |->
                 IF w[c].pc = "await" /\ w[c].call = busy
                 THEN [w[c] EXCEPT !.pc = "record", !.obs = "released"] ELSE w[c]]
      BY <2>1 DEF Answer
    <2>5. "released" \in Observations /\ "released" \in Runtime!RuntimeStates
      BY DEF Observations, Runtime!RuntimeStates
    <2> QED BY <1>1, <1>2, <2>1, <2>2, <2>3, <2>4, <2>5, HostFrame DEF HostOK
  <1>6. CASE AnswerFails
    <2>1. UNCHANGED <<w, host, runtime>>  BY <1>6 DEF AnswerFails
    <2>2. GoneForGood => GoneForGood'  BY <1>2, <2>1 DEF GoneForGood, Gone
    <2>3. "none" \in Observations  BY DEF Observations
    <2> QED BY <1>1, <1>2, <2>1, <2>2, <2>3, HostFrame DEF HostOK
  <1> QED BY <1>3, <1>4, <1>5, <1>6

(* Reconciliation, restarts, and the guardian's own steps.                 *)
LEMMA HostAlone ==
    ASSUME LifeInv, HostReconcile \/ HostRestart \/ GuardianLaunch \/ GuardianEnd
    PROVE  LifeKept
  <1>1. /\ host \in HostRecords /\ busy \in Calls /\ spawned \in BOOLEAN /\ NoCall \in Calls
        /\ runtime \in Runtime!RuntimeStates /\ faults \in Nat /\ HostOK
    BY DEF LifeInv, TypeOK, HostRecords, NoCall, Calls
  <1>2. /\ UNCHANGED storeVars /\ net' = net /\ busy' \in Calls /\ faults' \in Nat
        /\ spawned' = spawned /\ w' = w /\ "none" \in Observations
    BY <1>1 DEF HostReconcile, HostRestart, GuardianLaunch, GuardianEnd, Quiet, Observations
  <1>3. CASE HostReconcile
    <2>1. runtime' = "released" /\ host' = [host EXCEPT !.stopped = TRUE] /\ host.created
      BY <1>3 DEF HostReconcile
    <2>2. host' \in HostRecords /\ host'.stopped /\ host'.created = host.created
          /\ host'.record = host.record
      BY <1>1, <2>1 DEF HostRecords
    <2>3. GoneForGood'  BY <2>1, <2>2 DEF GoneForGood, Gone
    <2>4. "released" \in Runtime!RuntimeStates  BY DEF Runtime!RuntimeStates
    <2> QED BY <1>1, <1>2, <2>1, <2>2, <2>3, <2>4, HostFrame DEF HostOK
  <1>4. CASE HostRestart
    <2>1. runtime' = runtime /\ host' = [host EXCEPT !.epoch = @ + 1, !.stopped = host.record]
      BY <1>4 DEF HostRestart
    <2>2. host' \in HostRecords /\ host'.stopped = host.record /\ host'.created = host.created
          /\ host'.record = host.record
      <3>1. PICK n : n = host.epoch + 1  OBVIOUS
      <3>2. n \in Nat  BY <1>1, <3>1 DEF HostRecords
      <3>3. host' = [host EXCEPT !.epoch = n, !.stopped = host.record]  BY <1>1, <2>1, <3>1
      <3> QED BY <1>1, <3>2, <3>3 DEF HostRecords
    <2>3. GoneForGood => GoneForGood'  BY <1>1, <1>2, <2>1, <2>2 DEF GoneForGood, Gone, HostOK
    <2> QED BY <1>1, <1>2, <2>1, <2>2, <2>3, HostFrame DEF HostOK
  <1>5. CASE GuardianLaunch \/ GuardianEnd
    <2>1. /\ host' = host /\ runtime' \in {"live", "ended"}
          /\ \/ runtime = "unstarted" /\ spawned
             \/ runtime = "live"
      BY <1>5 DEF GuardianLaunch, GuardianEnd, Runtime!Launch, Runtime!End
    <2>2. host.created /\ ~GoneForGood  BY <1>1, <2>1 DEF HostOK, GoneForGood, Gone
    <2>3. runtime' \in Runtime!RuntimeStates /\ runtime' # "unstarted"
      BY <2>1 DEF Runtime!RuntimeStates
    <2> QED BY <1>1, <1>2, <2>1, <2>2, <2>3, HostFrame DEF HostOK
  <1> QED BY <1>3, <1>4, <1>5

-----------------------------------------------------------------------------
(* The rows on their own, and the whole system.                            *)

(* Claims that run out, admissions, expiries, and a new epoch.             *)
LEMMA RowsAlone ==
    ASSUME LifeInv, ClaimRunsOut \/ Outside
    PROVE  LifeKept
  <1>1. /\ net \subseteq Calls /\ host \in HostRecords /\ busy \in Calls /\ faults \in Nat
        /\ spawned \in BOOLEAN /\ runtime \in Runtime!RuntimeStates /\ HostOK /\ Concluded
        /\ w \in [Controllers -> TickRecords] /\ Ticks
    BY DEF LifeInv, TypeOK, HostRecords, TickRecords, Observations
  <1>2. UNCHANGED <<w, net, host, busy, spawned, runtime>>
    BY DEF ClaimRunsOut, Outside, hostVars
  <1>3. faults' \in Nat
    BY <1>1 DEF ClaimRunsOut, Outside, Fault
  <1>4. PICK rev \in Revisions, e \in Epochs, k \in Kinds : TRUE
    BY StoreAssumption DEF Revisions, Epochs, Kinds
  <1>5. /\ [StoreNext]_storeVars /\ epoch' \in Epochs
        /\ Creating => Creating'
        /\ alloc'.status = "released" => GoneForGood \/ ~Creating'
        /\ op'["create"].status = "succeeded" => runtime # "unstarted"
    <2>1. CASE RowStep  BY <2>1 DEF RowStep, LifeInv
    <2>2. CASE \E j \in Kinds : ClaimExpires(j)  BY <1>4, <2>1, <2>2, ClaimTx
    <2>3. CASE AdmitCreate \/ AdmitDestroy
      <3>1. TRUE \in BOOLEAN  OBVIOUS
      <3> QED BY <1>4, <2>1, <2>3, <3>1, PrepareTx
    <2>4. CASE MaintenanceExpires \/ LeaseExpires \/ MarkRuntimeUnknown
      BY <1>4, <2>1, <2>4, LeaseTx
    <2>5. CASE AdvanceEpoch
      <3>1. StoreNext  BY <2>5 DEF StoreNext
      <3>2. op' = op /\ alloc' = alloc  BY <2>5 DEF AdvanceEpoch
      <3>3. epoch' \in Epochs  BY <2>5, StoreAssumption DEF AdvanceEpoch, Epochs, LifeInv
      <3> QED BY <1>1, <3>1, <3>2, <3>3 DEF Concluded, Creating
    <2> QED BY <2>2, <2>3, <2>4, <2>5 DEF ClaimRunsOut, Outside
  <1>6. StoreTypeOK' /\ Inv'
    <2>1. StoreInv  BY DEF LifeInv, TypeOK, StoreInv
    <2> QED BY <1>5, <2>1, TypeStep, InvStep DEF StoreInv
  <1>7. TypeOK'  BY <1>1, <1>2, <1>3, <1>6 DEF TypeOK, HostRecords, TickRecords, Observations
  <1>8. HostOK'  BY <1>1, <1>2, <1>5 DEF HostOK
  <1>9. Concluded'  BY <1>2, <1>5 DEF Concluded, GoneForGood, Gone
  <1>10. Ticks'  BY <1>1, <1>2 DEF Ticks, Ticking, GoneForGood, Gone
  <1> QED BY <1>5, <1>6, <1>7, <1>8, <1>9, <1>10 DEF LifeInv, LifeKept

(* Every step keeps the invariant.                                         *)
LEMMA LifeStep == LifeInv /\ [Next]_vars => LifeKept
  <1> SUFFICES ASSUME LifeInv, [Next]_vars PROVE LifeKept  OBVIOUS
  <1>1. ASSUME NEW c \in Controllers, ControllerStep(c) \/ Abandon(c) PROVE LifeKept
    BY <1>1, TickBegins, OperationTick, AnswerTick, LeaseTick DEF ControllerStep
  <1>2. CASE HostStep  BY <1>2, HostTakes, HostAnswers DEF HostStep
  <1>3. CASE UNCHANGED vars
    <2>1. UNCHANGED <<storeVars, w, hostVars, faults>>  BY <1>3 DEF vars
    <2>2. UNCHANGED storeVars /\ UNCHANGED <<w, net, host, busy, spawned, runtime, faults>>
      BY <2>1 DEF hostVars
    <2>3. /\ net \subseteq Calls /\ host \in HostRecords /\ busy \in Calls /\ faults \in Nat
          /\ spawned \in BOOLEAN /\ runtime \in Runtime!RuntimeStates /\ HostOK
          /\ "none" \in Observations
      BY DEF LifeInv, TypeOK, HostRecords, Observations
    <2>4. GoneForGood => GoneForGood'  BY <2>2 DEF GoneForGood, Gone
    <2> QED BY <2>2, <2>3, <2>4, HostFrame DEF HostOK
  <1> QED BY <1>1, <1>2, <1>3, HostTakes, HostAlone, RowsAlone DEF Next

(* The invariant holds at first.                                           *)
LEMMA LifeInitially == Init => LifeInv
  <1> SUFFICES ASSUME Init PROVE LifeInv  OBVIOUS
  <1>1. StoreTypeOK /\ Inv  BY InitInv DEF Init, StoreInv
  <1>2. epoch \in Epochs  BY StoreAssumption DEF Init, StoreInit, Epochs
  <1>3. NoCall \in Calls  BY DEF NoCall, Calls
  <1>4. Idle \in TickRecords /\ Ticking(Idle)
    BY <1>3 DEF Idle, TickRecords, Observations, Ticking
  <1>5. \A c \in Controllers : w[c] = Idle  BY DEF Init
  <1>6. w \in [Controllers -> TickRecords] /\ Ticks
    BY <1>4, <1>5 DEF Init, Ticks
  <1>7. host \in HostRecords /\ ~host.record /\ ~host.stopped /\ ~host.created
    BY DEF Init, HostRecords
  <1>8. net = {} /\ busy = NoCall /\ spawned = FALSE /\ faults = 0 /\ runtime = "unstarted"
    BY DEF Init
  <1>9. TypeOK
    BY <1>1, <1>3, <1>6, <1>7, <1>8 DEF TypeOK, HostRecords, TickRecords, Observations,
       Runtime!RuntimeStates
  <1>10. HostOK  BY <1>7, <1>8 DEF HostOK
  <1>11. Concluded
    BY DEF Init, StoreInit, Concluded, Creating, NoRow, Kinds
  <1> QED BY <1>1, <1>2, <1>6, <1>9, <1>10, <1>11 DEF LifeInv

(* The strengthening that carries everything below.                        *)
THEOREM LifecycleInvariant == Spec => []LifeInv
  <1>1. LifeInv /\ [Next]_vars => LifeInv'  BY LifeStep DEF LifeKept
  <1> QED BY <1>1, LifeInitially, PTL DEF Spec

(* Whatever the controllers, the host and the calls between them do, the   *)
(* rows only take steps of StoreLifecycle: the system implements it.       *)
THEOREM LifecycleImplementsStore == Spec => StoreSpec
  <1>1. Init => StoreInit  BY DEF Init
  <1>2. LifeInv /\ [Next]_vars => [StoreNext]_storeVars  BY LifeStep DEF LifeKept
  <1> QED BY <1>1, <1>2, LifecycleInvariant, PTL DEF Spec, StoreSpec

(* Every controller, call and host record has the shape of its type, and   *)
(* so have the rows.                                                       *)
THEOREM LifecycleTypeCorrect == Spec => []TypeOK
  <1>1. LifeInv => TypeOK  BY DEF LifeInv
  <1> QED BY <1>1, LifecycleInvariant, PTL

(* The database releases an allocation only when its machine is gone, and  *)
(* reports a create as succeeded only when the machine was launched,       *)
(* whatever calls were lost, repeated or superseded and however often the  *)
(* controllers and the host died.                                          *)
THEOREM OutcomesStayReal == Spec => []OutcomesAreReal
  <1>1. LifeInv => OutcomesAreReal
    BY DEF LifeInv, Concluded, HostOK, OutcomesAreReal, ReleasedIsGone, SuccessIsReal,
       GoneForGood, Gone
  <1> QED BY <1>1, LifecycleInvariant, PTL

(* Release evidence in a controller's hands stays true.                    *)
THEOREM EvidenceStaysValid == Spec => []EvidenceHolds
  <1>1. LifeInv => EvidenceHolds
    BY DEF LifeInv, Ticks, Ticking, EvidenceHolds, GoneForGood
  <1> QED BY <1>1, LifecycleInvariant, PTL

(* The rows agree under the real callers of their transactions.            *)
THEOREM LifecycleRowsAgree == Spec => []RowsConsistent
  BY LifecycleImplementsStore, RowsAgree, PTL

(* A finished operation is never rewritten and a released allocation never *)
(* comes back, however late the answer of a superseded claim is recorded.  *)
THEOREM LifecycleFinality == Spec => FinalIsFinal
  BY LifecycleImplementsStore, FinalityHolds, PTL
=============================================================================
