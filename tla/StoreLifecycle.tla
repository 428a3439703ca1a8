--------------------------- MODULE StoreLifecycle ---------------------------
(***************************************************************************)
(* The PostgreSQL rows that own one sandbox: its create and destroy        *)
(* operations, the sandbox row and the one allocation it can ever have     *)
(* (placement reserves only at generation 0).  Every public function of    *)
(* sandbox-store that writes these rows is one action, because it is one   *)
(* transaction; its parameters are what the caller brings (the revision of *)
(* the claim it believes it holds, the epoch it was configured with, the   *)
(* state a host reported).  Callers are not constrained here: any          *)
(* controller may call any function at any time with any claim it ever     *)
(* held.  Time is abstracted to "the lease has run out", which can happen  *)
(* in any state.                                                           *)
(***************************************************************************)
EXTENDS Integers

CONSTANTS
    MaxClaims,      \* bound on claims of one operation
    MaxEpoch,       \* bound on supervisor epochs the operator issues
    MaxStops        \* stop attempts of a destroy (100 in the code)

ASSUME StoreAssumption ==
    /\ MaxClaims \in Nat \ {0}
    /\ MaxEpoch \in Nat \ {0}
    /\ MaxStops \in Nat \ {0}

VARIABLES
    op,         \* the operations rows, by kind
    sandbox,    \* the sandboxes row
    alloc,      \* the allocations row
    epoch       \* hosts.supervisor_epoch of the one host

storeVars == <<op, sandbox, alloc, epoch>>

Kinds == {"create", "destroy"}
Active == {"queued", "running", "unknown"}      \* the claimable statuses
Final == {"succeeded", "failed"}
Phases == {"null", "reserved", "create_dispatched", "reconciling", "reconciliation_required",
           "ready", "released_before_completion", "rejected_before_dispatch",
           "cleanup_owned_by_destroy", "destroyed_during_create", "admitted",
           "stop_dispatched", "release_unconfirmed", "destroyed",
           "reconciling_previous_epoch", "previous_release_unconfirmed"}

(* leased is lease_expires_at > clock_timestamp(); supersedes is the        *)
(* payload's supersedes_operation_id, which only a destroy carries.         *)
Rows == [status : {"none"} \union Active \union Final, phase : Phases, rev : Nat,
         leased : BOOLEAN, attempt : Nat, supersedes : BOOLEAN]
Sandboxes == [desired : {"none", "running", "destroyed"},
              observed : {"none", "creating", "running", "unknown", "destroying", "destroyed"},
              active : {"none"} \union Kinds, current : BOOLEAN, generation : {0, 1}]
Allocs == [status : {"none", "reserved", "running", "releasing", "released"}, epoch : Nat,
           lease : {"none", "live", "expired"}, maint : Nat, maintained : BOOLEAN]

NoRow == [status |-> "none", phase |-> "null", rev |-> 0, leased |-> FALSE,
          attempt |-> 0, supersedes |-> FALSE]

StoreInit ==
    /\ op = [k \in Kinds |-> NoRow]
    /\ sandbox = [desired |-> "none", observed |-> "none", active |-> "none",
                  current |-> FALSE, generation |-> 0]
    /\ alloc = [status |-> "none", epoch |-> 0, lease |-> "none", maint |-> 0,
                maintained |-> FALSE]
    /\ epoch = 1

-----------------------------------------------------------------------------
(* Updates of one row.                                                     *)

Row(status, phase, r, leased, attempt) ==
    [status |-> status, phase |-> phase, rev |-> r.rev, leased |-> leased,
     attempt |-> attempt, supersedes |-> r.supersedes]

(* A phase written under a live claim.                                     *)
Phase(r, phase) == Row(r.status, phase, r, r.leased, r.attempt)

(* An intent: the phase and one more attempt.                              *)
Intent(r, phase) == Row(r.status, phase, r, r.leased, r.attempt + 1)

(* Uncertainty gives the claim back.                                       *)
Unknown(r, phase) == Row("unknown", phase, r, FALSE, r.attempt)

(* A terminal outcome.                                                     *)
Outcome(r, status, phase) == Row(status, phase, r, FALSE, r.attempt)

Observed(state) == [sandbox EXCEPT !.observed = state]

(* The sandbox row of every confirmed release.                             *)
Destroyed == [desired |-> "destroyed", observed |-> "destroyed", active |-> "none",
              current |-> FALSE, generation |-> sandbox.generation]

(* The allocation row of every confirmed release.                          *)
Released == [alloc EXCEPT !.status = "released"]

-----------------------------------------------------------------------------
(* Claims of operations.                                                   *)

(* The row a transaction selects FOR UPDATE, and its final fence.          *)
Holds(k, rev) ==
    op[k].rev = rev /\ op[k].leased /\ op[k].status \in {"running", "unknown"}

(* Mutant: operations of unknown outcome are not claimed again.            *)
ClaimNextKnown(k) ==
    /\ op[k].status \in {"queued", "running"} /\ ~op[k].leased
    /\ op[k].phase # "cleanup_owned_by_destroy"
    /\ op[k].rev < MaxClaims
    /\ op' = [op EXCEPT ![k].status = "running", ![k].rev = @ + 1, ![k].leased = TRUE]
    /\ UNCHANGED <<sandbox, alloc, epoch>>

ClaimNext(k) ==
    /\ op[k].status \in Active /\ ~op[k].leased
    /\ op[k].phase # "cleanup_owned_by_destroy"
    /\ op[k].rev < MaxClaims
    /\ op' = [op EXCEPT ![k] =
                [status |-> IF @.status = "queued" THEN "running" ELSE @.status,
                 phase |-> @.phase, rev |-> @.rev + 1, leased |-> TRUE,
                 attempt |-> @.attempt, supersedes |-> @.supersedes]]
    /\ UNCHANGED <<sandbox, alloc, epoch>>

DeferClaim(k, rev) ==
    /\ Holds(k, rev)
    /\ op' = [op EXCEPT ![k].leased = FALSE]
    /\ UNCHANGED <<sandbox, alloc, epoch>>

(* The claim's lease runs out on the database clock.                       *)
ClaimExpires(k) ==
    /\ op[k].leased
    /\ op' = [op EXCEPT ![k].leased = FALSE]
    /\ UNCHANGED <<sandbox, alloc, epoch>>

-----------------------------------------------------------------------------
(* The context every dispatch transaction establishes under row locks.     *)

Owns(k, rev) ==
    /\ Holds(k, rev)
    /\ k = "destroy" /\ op[k].supersedes => op["create"].phase = "cleanup_owned_by_destroy"
    /\ sandbox.active = k
    /\ sandbox.current /\ alloc.status # "released"
    /\ sandbox.generation = 1

Context(k, rev) == Owns(k, rev) /\ epoch = alloc.epoch

(* The same, for a host that reports under a newer epoch e.                *)
ContextAt(k, rev, e) == Owns(k, rev) /\ epoch = e /\ e > alloc.epoch

-----------------------------------------------------------------------------
(* Create.                                                                 *)

AdmitCreate ==
    /\ op["create"].status = "none"
    /\ op' = [op EXCEPT !["create"].status = "queued"]
    /\ sandbox' = [desired |-> "running", observed |-> "creating", active |-> "create",
                   current |-> FALSE, generation |-> 0]
    /\ UNCHANGED <<alloc, epoch>>

(* The reservation of a new allocation; e is the caller's configured epoch. *)
Reservable(rev, e) ==
    /\ Holds("create", rev) /\ sandbox.active = "create" /\ ~sandbox.current
    /\ op["create"].status # "unknown" /\ op["create"].attempt = 0
    /\ sandbox.generation = 0 /\ sandbox.observed = "creating" /\ sandbox.desired = "running"
    /\ epoch = e

ReserveCreate(rev, e) ==
    /\ Reservable(rev, e)
    /\ op' = [op EXCEPT !["create"] = Phase(@, "reserved")]
    /\ sandbox' = [desired |-> sandbox.desired, observed |-> sandbox.observed,
                   active |-> sandbox.active, current |-> TRUE, generation |-> 1]
    /\ alloc' = [status |-> "reserved", epoch |-> e, lease |-> "none", maint |-> 0,
                 maintained |-> FALSE]
    /\ UNCHANGED epoch

(* An earlier durable intent, or uncertainty: only inspection is allowed.  *)
MustInspect(rev) ==
    Context("create", rev) /\ (op["create"].attempt > 0 \/ op["create"].status = "unknown")

PrepareCreateInspect(rev) ==
    /\ MustInspect(rev)
    /\ op' = [op EXCEPT !["create"] = Phase(@, "reconciling")]
    /\ UNCHANGED <<sandbox, alloc, epoch>>

Dispatchable(rev) ==
    /\ Context("create", rev)
    /\ op["create"].attempt = 0 /\ op["create"].status # "unknown"
    /\ op["create"].phase = "reserved" /\ alloc.status = "reserved"
    /\ sandbox.desired = "running"

(* The durable dispatch intent and the first execution lease.              *)
PrepareCreateDispatch(rev) ==
    /\ Dispatchable(rev)
    /\ op' = [op EXCEPT !["create"] = Intent(@, "create_dispatched")]
    /\ alloc' = [alloc EXCEPT !.lease = "live"]
    /\ UNCHANGED <<sandbox, epoch>>

RecordCreateUnknown(rev) ==
    /\ Context("create", rev)
    /\ op' = [op EXCEPT !["create"] = Unknown(@, "reconciliation_required")]
    /\ sandbox' = Observed("unknown")
    /\ UNCHANGED <<alloc, epoch>>

(* Evidence that matches the ownership tuple of the claim.                 *)
CreateEvidence(rev, state) ==
    /\ Context("create", rev) /\ op["create"].attempt = 1
    /\ state = "ready" => alloc.lease = "live"

RecordCreateReady(rev) ==
    /\ CreateEvidence(rev, "ready")
    /\ op' = [op EXCEPT !["create"] = Outcome(@, "succeeded", "ready")]
    /\ alloc' = [alloc EXCEPT !.status = "running"]
    /\ sandbox' = [sandbox EXCEPT !.observed = "running", !.active = "none"]
    /\ UNCHANGED epoch

RecordCreateReleased(rev) ==
    /\ CreateEvidence(rev, "released")
    /\ op' = [op EXCEPT !["create"] = Outcome(@, "failed", "released_before_completion")]
    /\ alloc' = Released
    /\ sandbox' = Destroyed
    /\ UNCHANGED epoch

(* The only release without host evidence: no create was ever dispatched.  *)
Rejectable(rev) ==
    /\ Holds("create", rev)
    /\ op["create"].status = "running" /\ op["create"].attempt = 0
    /\ op["create"].phase \in {"null", "reserved"}
    /\ sandbox.active = "create"
    /\ sandbox.current => alloc.status = "reserved" /\ alloc.lease = "none"

(* Mutant: the rejection forgets the reservation it gives up.              *)
RejectUndispatchedCreateLeaks(rev) ==
    /\ Rejectable(rev)
    /\ op' = [op EXCEPT !["create"] = Outcome(@, "failed", "rejected_before_dispatch")]
    /\ sandbox' = Destroyed
    /\ UNCHANGED <<alloc, epoch>>

RejectUndispatchedCreate(rev) ==
    /\ Rejectable(rev)
    /\ op' = [op EXCEPT !["create"] = Outcome(@, "failed", "rejected_before_dispatch")]
    /\ alloc' = IF sandbox.current THEN Released ELSE alloc
    /\ sandbox' = Destroyed
    /\ UNCHANGED epoch

-----------------------------------------------------------------------------
(* Destroy.                                                                *)

NewDestroy(status, phase, supersedes) ==
    [status |-> status, phase |-> phase, rev |-> 0, leased |-> FALSE, attempt |-> 0,
     supersedes |-> supersedes]

(* What a destroy leaves of the create it supersedes: every claim on it is *)
(* stale from here on.                                                     *)
Superseded(r, immediate) ==
    [status |-> IF immediate THEN "failed" ELSE "unknown",
     phase |-> IF immediate THEN "destroyed_during_create" ELSE "cleanup_owned_by_destroy",
     rev |-> r.rev + 1, leased |-> FALSE, attempt |-> r.attempt, supersedes |-> r.supersedes]

(* A user's destroy.  Busy (no change) while another transition is active, *)
(* unless that transition is a create whose outcome is unknown.  A destroy *)
(* of a destroyed sandbox completes at once and touches no row here.       *)
AdmitDestroy ==
    LET active    == sandbox.active = "create"
        never     == ~sandbox.current /\ sandbox.generation = 0 /\ op["create"].attempt = 0
    IN  /\ op["create"].status # "none"
        /\ sandbox.active = "none" \/ (active /\ op["create"].status = "unknown")
        /\ ~(sandbox.observed = "destroyed" /\ ~sandbox.current)
        /\ sandbox.current \/ (active /\ never)
        /\ op' = [k \in Kinds |->
                    IF k = "destroy"
                    THEN NewDestroy(IF sandbox.current THEN "queued" ELSE "succeeded",
                                    IF sandbox.current THEN "admitted" ELSE "destroyed", active)
                    ELSE IF active THEN Superseded(op[k], ~sandbox.current) ELSE op[k]]
        /\ sandbox' = IF sandbox.current
                      THEN [desired |-> "destroyed", observed |-> "destroying",
                            active |-> "destroy", current |-> TRUE,
                            generation |-> sandbox.generation]
                      ELSE Destroyed
        /\ UNCHANGED <<alloc, epoch>>

(* Stop on the first attempt and whenever the caller asks to retry it.     *)
StopDue(retry) == op["destroy"].attempt = 0 \/ retry
Stoppable(rev, retry) ==
    /\ Context("destroy", rev) /\ sandbox.desired = "destroyed"
    /\ StopDue(retry) => op["destroy"].attempt < MaxStops

PrepareDestroy(rev, retry) ==
    /\ Stoppable(rev, retry)
    /\ op' = [op EXCEPT !["destroy"] = IF StopDue(retry) THEN Intent(@, "stop_dispatched")
                                                          ELSE Phase(@, "reconciling")]
    /\ alloc' = IF StopDue(retry) THEN [alloc EXCEPT !.status = "releasing"] ELSE alloc
    /\ UNCHANGED <<sandbox, epoch>>

RecordDestroyUnknown(rev) ==
    /\ Context("destroy", rev)
    /\ op' = [op EXCEPT !["destroy"] = Unknown(@, "release_unconfirmed")]
    /\ sandbox' = Observed("unknown")
    /\ UNCHANGED <<alloc, epoch>>

(* A completed destroy closes the create it superseded.                    *)
DestroyDone ==
    [k \in Kinds |->
        IF k = "destroy" THEN Outcome(op[k], "succeeded", "destroyed")
        ELSE IF op["destroy"].supersedes
             THEN Row("failed", "destroyed_during_create", op[k], op[k].leased, op[k].attempt)
             ELSE op[k]]

DestroyEvidence(rev) == Context("destroy", rev) /\ op["destroy"].attempt >= 1

RecordDestroyReleased(rev) ==
    /\ DestroyEvidence(rev)
    /\ op' = DestroyDone
    /\ alloc' = Released
    /\ sandbox' = Destroyed
    /\ UNCHANGED epoch

-----------------------------------------------------------------------------
(* Release of an allocation whose host has moved to a newer epoch.         *)

RecoverUndispatched(rev, e) ==
    ContextAt("create", rev, e) /\ op["create"].attempt = 0

Recoverable(k, rev, e) ==
    /\ ContextAt(k, rev, e)
    /\ k = "create" => op[k].attempt = 1
    /\ k = "destroy" => sandbox.desired = "destroyed"

PreparePrevious(k, rev, e) ==
    /\ Recoverable(k, rev, e)
    /\ op' = [op EXCEPT ![k] = Phase(@, "reconciling_previous_epoch")]
    /\ UNCHANGED <<sandbox, alloc, epoch>>

PreviousEvidence(k, rev, e) ==
    Recoverable(k, rev, e) /\ op[k].phase = "reconciling_previous_epoch"

RecordPreviousUnknown(k, rev, e) ==
    /\ ContextAt(k, rev, e) /\ op[k].phase = "reconciling_previous_epoch"
    /\ op' = [op EXCEPT ![k] = Unknown(@, "previous_release_unconfirmed")]
    /\ sandbox' = Observed("unknown")
    /\ UNCHANGED <<alloc, epoch>>

RecordPreviousReleased(k, rev, e) ==
    /\ PreviousEvidence(k, rev, e)
    /\ op' = IF k = "destroy" THEN DestroyDone
             ELSE [op EXCEPT ![k] = Outcome(@, "failed", "released_before_completion")]
    /\ alloc' = [alloc EXCEPT !.status = "released", !.maintained = FALSE]
    /\ sandbox' = Destroyed
    /\ UNCHANGED epoch

-----------------------------------------------------------------------------
(* Maintenance of a running allocation.                                    *)

Maintainable ==
    /\ alloc.status = "running" /\ sandbox.current
    /\ sandbox.desired = "running" /\ sandbox.active = "none"

ClaimAllocation(e) ==
    /\ epoch = e /\ alloc.epoch <= e
    /\ Maintainable /\ ~alloc.maintained /\ alloc.maint < MaxClaims
    /\ alloc' = [alloc EXCEPT !.maint = @ + 1, !.maintained = TRUE]
    /\ UNCHANGED <<op, sandbox, epoch>>

(* Mutant: a maintenance claim is honoured whatever became of the sandbox. *)
LeaseContextStale(rev) ==
    alloc.maint = rev /\ alloc.maintained /\ epoch >= alloc.epoch

LeaseContext(rev) ==
    alloc.maint = rev /\ alloc.maintained /\ epoch >= alloc.epoch /\ Maintainable

(* A service-owned destroy: the epoch moved on, policy was revoked, or the *)
(* host reported the allocation released.                                  *)
LeaseCleanup(rev) ==
    /\ LeaseContext(rev)
    /\ op' = [op EXCEPT !["destroy"] = NewDestroy("queued", "admitted", FALSE)]
    /\ sandbox' = [desired |-> "destroyed", observed |-> "destroying", active |-> "destroy",
                   current |-> sandbox.current, generation |-> sandbox.generation]
    /\ alloc' = [alloc EXCEPT !.maintained = FALSE]
    /\ UNCHANGED epoch

RecordLeaseUnknown(rev) ==
    /\ LeaseContext(rev)
    /\ sandbox' = Observed("unknown")
    /\ alloc' = [alloc EXCEPT !.maintained = FALSE]
    /\ UNCHANGED <<op, epoch>>

(* A live guardian confirmed a deadline that has not passed.               *)
RecordLeaseReady(rev) ==
    /\ LeaseContext(rev) /\ epoch = alloc.epoch
    /\ sandbox' = Observed("running")
    /\ alloc' = [alloc EXCEPT !.lease = "live", !.maintained = FALSE]
    /\ UNCHANGED <<op, epoch>>

DeferAllocation(rev) ==
    /\ alloc.maint = rev /\ alloc.maintained
    /\ alloc' = [alloc EXCEPT !.maintained = FALSE]
    /\ UNCHANGED <<op, sandbox, epoch>>

MaintenanceExpires ==
    /\ alloc.maintained
    /\ alloc' = [alloc EXCEPT !.maintained = FALSE]
    /\ UNCHANGED <<op, sandbox, epoch>>

LeaseExpires ==
    /\ alloc.lease = "live"
    /\ alloc' = [alloc EXCEPT !.lease = "expired"]
    /\ UNCHANGED <<op, sandbox, epoch>>

(* A failed health check, or a healthy host at another epoch, withdraws    *)
(* the last observation and nothing else.                                  *)
MarkRuntimeUnknown ==
    /\ Maintainable /\ sandbox.observed = "running"
    /\ sandbox' = Observed("unknown")
    /\ UNCHANGED <<op, alloc, epoch>>

(* The operator provisions a newer epoch for the host.                     *)
AdvanceEpoch ==
    /\ epoch < MaxEpoch
    /\ epoch' = epoch + 1
    /\ UNCHANGED <<op, sandbox, alloc>>

-----------------------------------------------------------------------------
Revisions == 1..(MaxClaims + 1)
Epochs == 1..MaxEpoch

ClaimStep(k, rev) == ClaimNext(k) \/ DeferClaim(k, rev) \/ ClaimExpires(k)

CreateStep(rev, e) ==
    \/ AdmitCreate \/ ReserveCreate(rev, e)
    \/ PrepareCreateInspect(rev) \/ PrepareCreateDispatch(rev)
    \/ RecordCreateUnknown(rev) \/ RecordCreateReady(rev) \/ RecordCreateReleased(rev)
    \/ RejectUndispatchedCreate(rev)

DestroyStep(rev) ==
    \/ AdmitDestroy \/ PrepareDestroy(rev, TRUE) \/ PrepareDestroy(rev, FALSE)
    \/ RecordDestroyUnknown(rev) \/ RecordDestroyReleased(rev)

PreviousStep(k, rev, e) ==
    PreparePrevious(k, rev, e) \/ RecordPreviousUnknown(k, rev, e)
        \/ RecordPreviousReleased(k, rev, e)

LeaseStep(rev, e) ==
    \/ ClaimAllocation(e) \/ LeaseCleanup(rev) \/ RecordLeaseUnknown(rev)
    \/ RecordLeaseReady(rev) \/ DeferAllocation(rev)
    \/ MaintenanceExpires \/ LeaseExpires \/ MarkRuntimeUnknown

StoreNext ==
    \/ \E k \in Kinds, rev \in Revisions : ClaimStep(k, rev)
    \/ \E rev \in Revisions, e \in Epochs : CreateStep(rev, e)
    \/ \E rev \in Revisions : DestroyStep(rev)
    \/ \E k \in Kinds, rev \in Revisions, e \in Epochs : PreviousStep(k, rev, e)
    \/ \E rev \in Revisions, e \in Epochs : LeaseStep(rev, e)
    \/ AdvanceEpoch

StoreSpec == StoreInit /\ [][StoreNext]_storeVars

-----------------------------------------------------------------------------
(* Properties.                                                             *)

(* Every row has the values the schema's CHECK constraints allow.          *)
StoreTypeOK ==
    /\ op \in [Kinds -> Rows] /\ sandbox \in Sandboxes /\ alloc \in Allocs
    /\ epoch \in Nat

(* The sandbox's transition pointer and the unfinished operations agree:   *)
(* the pointer names an operation exactly when that operation is           *)
(* unfinished and not superseded, so no operation is orphaned and no       *)
(* finished operation still blocks the sandbox.                            *)
ActiveIsOwner ==
    /\ sandbox.active = "create" <=>
          op["create"].status \in Active /\ op["create"].phase # "cleanup_owned_by_destroy"
    /\ sandbox.active = "destroy" <=> op["destroy"].status \in Active

(* A superseded create is unfinished exactly as long as the destroy that   *)
(* took over its cleanup is; it is never left for nobody to finish.        *)
SupersededIsOwned ==
    op["create"].phase = "cleanup_owned_by_destroy" <=>
        op["destroy"].supersedes /\ op["destroy"].status \in Active

(* Capacity is charged (allocation unreleased) exactly while the sandbox   *)
(* points at its allocation, and a destroyed sandbox holds no capacity and *)
(* has no transition; a create is uncertain only while it holds capacity.  *)
CapacityIsOwned ==
    /\ sandbox.current <=> alloc.status \in {"reserved", "running", "releasing"}
    /\ sandbox.observed = "destroyed" =>
          ~sandbox.current /\ sandbox.active = "none" /\ sandbox.desired = "destroyed"
    /\ op["create"].status = "unknown" => sandbox.current

(* The create intent is committed at most once, never without a lease and  *)
(* an allocation; an undispatched rejection really had no intent; and an   *)
(* allocation runs only under a dispatched create.                         *)
DispatchedOnce ==
    /\ op["create"].attempt <= 1
    /\ op["create"].attempt = 1 <=> alloc.lease # "none"
    /\ op["create"].phase = "rejected_before_dispatch" => op["create"].attempt = 0
    /\ alloc.status = "running" => op["create"].status = "succeeded"

(* The operation, sandbox and allocation rows agree, whatever claims the   *)
(* callers of the transactions hold.                                       *)
RowsConsistent == ActiveIsOwner /\ SupersededIsOwned /\ CapacityIsOwned /\ DispatchedOnce

(* A finished operation is never rewritten, a released allocation never    *)
(* comes back, and a sandbox never gets a second allocation.               *)
FinalIsFinal ==
    [][/\ \A k \in Kinds : op[k].status \in Final => op'[k] = op[k]
       /\ alloc.status = "released" => alloc'.status = "released" /\ ~sandbox'.current
       /\ sandbox.generation = 1 => sandbox'.generation = 1]_storeVars

(* Once an operation's claim has been taken over, only its newer revision  *)
(* or nobody can hold it: claim revisions of a row never decrease, and a   *)
(* released claim is only re-taken at a higher revision.                   *)
ClaimsAreFresh ==
    [][\A k \in Kinds :
         /\ op'[k].rev >= op[k].rev
         /\ ~op[k].leased /\ op'[k].leased => op'[k].rev > op[k].rev]_storeVars
=============================================================================
