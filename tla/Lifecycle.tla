----------------------------- MODULE Lifecycle ------------------------------
(***************************************************************************)
(* One sandbox from admission to tombstone, end to end: the database rows  *)
(* of StoreLifecycle, controllers that claim its operations and talk to    *)
(* the host over RPC, and the host that owns the virtual machine.  A       *)
(* controller keeps a claim across several transactions and an RPC, so     *)
(* everything it knows can be stale when it uses it: its claim may have    *)
(* been taken over, the create may have been superseded by a destroy, the  *)
(* request may reach the host after the answer was given up, and the host  *)
(* may have restarted under a newer epoch.                                 *)
(*                                                                         *)
(* The host's handlers hold the allocation's gate from their claim fence   *)
(* to their answer, so a handler is two steps here (begin, answer); the    *)
(* steps in between, its journal and its crashes are HostSupervisor's      *)
(* subject.  Its virtual machine makes the moves of AllocationRuntime by   *)
(* definition: that the supervisor and the guardian keep to them is shown  *)
(* of HostSupervisor and Guardian and assumed here.                        *)
(***************************************************************************)
EXTENDS StoreLifecycle, FiniteSets

CONSTANTS
    Controllers,    \* controller workers
    MaxFaults       \* bound on lost calls, crashes, early timeouts and expiries

ASSUME LifecycleAssumption == MaxFaults \in Nat

VARIABLES
    w,          \* each controller's tick: where it is and what it remembers
    net,        \* requests that have been sent and not yet taken up
    host,       \* the host's journal record of the allocation
    busy,       \* the request whose handler holds the allocation's gate
    spawned,    \* a guardian process was spawned for the allocation
    runtime,    \* the allocation's processes
    faults

hostVars == <<net, host, busy, spawned, runtime>>
vars == <<storeVars, w, hostVars, faults>>

Runtime == INSTANCE AllocationRuntime

NoCall == [type |-> "none", kind |-> "none", rev |-> 0, epoch |-> 0, reporting |-> 0]
Call(type, kind, rev, reporting) ==
    [type |-> type, kind |-> kind, rev |-> rev, epoch |-> alloc.epoch, reporting |-> reporting]
Idle == [pc |-> "idle", kind |-> "none", rev |-> 0, epoch |-> 0, call |-> NoCall, obs |-> "none"]

Init ==
    /\ StoreInit
    /\ w = [c \in Controllers |-> Idle]
    /\ net = {} /\ busy = NoCall /\ spawned = FALSE /\ faults = 0
    /\ host = [epoch |-> 1, record |-> FALSE, stopped |-> FALSE, created |-> FALSE,
               rev |-> [k \in Kinds |-> 0], lease |-> 0]
    /\ runtime = "unstarted"

Fault == faults < MaxFaults /\ faults' = faults + 1

-----------------------------------------------------------------------------
(* A controller's tick.                                                    *)

Goto(c, pc) == w' = [w EXCEPT ![c].pc = pc]

Finish(c) == w' = [w EXCEPT ![c] = Idle]

Send(c, call) ==
    /\ w' = [w EXCEPT ![c].pc = "await", ![c].call = call]
    /\ net' = net \union {call}
    /\ UNCHANGED <<host, busy, spawned, runtime, faults>>

(* A step of a tick that is only a transaction, or only local.             *)
Local == UNCHANGED <<hostVars, faults>>

(* check_host: health and the database agree with the configured epoch.    *)
Healthy == host.epoch = epoch

Tick(c, k) ==
    /\ w[c].pc = "idle" /\ Healthy
    /\ ClaimNext(k)
    /\ w' = [w EXCEPT ![c] = [pc |-> "previous", kind |-> k, rev |-> op'[k].rev,
                              epoch |-> epoch, call |-> NoCall, obs |-> "none"]]
    /\ Local

(* previous_tick: an allocation of an older epoch takes the recovery path. *)
PreviousTick(c) ==
    LET k == w[c].kind  rev == w[c].rev  e == w[c].epoch
        older == sandbox.current /\ alloc.status # "released" /\ alloc.epoch < e
    IN  /\ w[c].pc = "previous"
        /\ \/ /\ ~older
              /\ Goto(c, IF k = "create" THEN "reserve" ELSE "prepare")
              /\ Local /\ UNCHANGED storeVars
           \/ /\ older /\ k = "create" /\ RecoverUndispatched(rev, e)
              /\ Goto(c, "reject")
              /\ Local /\ UNCHANGED storeVars
           \/ /\ older /\ ~(k = "create" /\ op[k].attempt = 0)
              /\ PreparePrevious(k, rev, e)
              /\ Send(c, Call("previous", k, rev, e))
           \/ /\ older /\ ~ContextAt(k, rev, e)
              /\ Goto(c, "defer")
              /\ Local /\ UNCHANGED storeVars

(* create_tick: reserve, or find the reservation of an earlier tick.       *)
ReserveTick(c) ==
    LET rev == w[c].rev  e == w[c].epoch
        existing == /\ Holds("create", rev) /\ sandbox.active = "create"
                    /\ sandbox.current /\ alloc.status # "released"
    IN  /\ w[c].pc = "reserve" /\ Local
        /\ \/ ReserveCreate(rev, e) /\ Goto(c, "dispatch")
           \/ /\ existing
              /\ Goto(c, IF alloc.epoch = e THEN "dispatch" ELSE "defer")
              /\ UNCHANGED storeVars
           \/ /\ Reservable(rev, e)                 \* the caller was revoked
              /\ Goto(c, "reject") /\ UNCHANGED storeVars
           \/ /\ ~existing                          \* no capacity, or not ours
              /\ Goto(c, "defer") /\ UNCHANGED storeVars

(* create_tick: commit the intent, then send; or only inspect.             *)
DispatchTick(c) ==
    LET rev == w[c].rev
    IN  /\ w[c].pc = "dispatch"
        /\ \/ PrepareCreateDispatch(rev) /\ Send(c, Call("create", "create", rev, 0))
           \/ PrepareCreateInspect(rev) /\ Send(c, Call("inspect", "create", rev, 0))
           \/ /\ Dispatchable(rev)
              /\ Goto(c, "reject") /\ Local /\ UNCHANGED storeVars
           \/ /\ ~MustInspect(rev)
              /\ Goto(c, "defer") /\ Local /\ UNCHANGED storeVars

(* destroy_tick: the first prepare stops; later ones inspect first.        *)
PrepareTick(c) ==
    LET rev == w[c].rev
    IN  /\ w[c].pc = "prepare"
        /\ \/ /\ PrepareDestroy(rev, FALSE)
              /\ IF alloc.epoch = w[c].epoch
                 THEN Send(c, Call(IF StopDue(FALSE) THEN "stop" ELSE "inspect",
                                   "destroy", rev, 0))
                 ELSE Goto(c, "defer") /\ Local
           \/ /\ ~Stoppable(rev, FALSE)
              /\ Goto(c, "defer") /\ Local /\ UNCHANGED storeVars

(* destroy_tick: inspection found it ready or absent, so stop again.       *)
StopAgain(c) ==
    LET rev == w[c].rev
    IN  /\ w[c].pc = "stop"
        /\ \/ PrepareDestroy(rev, TRUE) /\ Send(c, Call("stop", "destroy", rev, 0))
           \/ /\ ~Stoppable(rev, TRUE)
              /\ Goto(c, "defer") /\ Local /\ UNCHANGED storeVars

(* The answer is lost, refused, or too late for this tick.                 *)
AwaitFails(c) ==
    /\ w[c].pc = "await"
    /\ IF w[c].call \in net \/ busy = w[c].call THEN Fault ELSE UNCHANGED faults
    /\ Goto(c, IF w[c].kind = "lease" THEN "lease_unknown" ELSE "unknown")
    /\ UNCHANGED <<storeVars, hostVars>>

(* What a claim of kind k may record: readiness, or a proven release.      *)
Evidence(k, obs) ==
    obs \in IF k = "create" THEN {"ready", "released"} ELSE {"released", "fenced_absent"}
PreviousEvidenceIn(obs) == obs \in {"released", "fenced_absent"}

(* The answer of the host is recorded, if the claim still allows it; an    *)
(* answer that proves nothing, or is older than ten seconds, leaves the    *)
(* operation unknown.                                                      *)
RecordTick(c) ==
    LET k == w[c].kind  rev == w[c].rev  obs == w[c].obs
    IN  /\ w[c].pc = "record" /\ k \in Kinds /\ w[c].call.type # "previous"
        /\ ~(w[c].call.type = "inspect" /\ k = "destroy" /\ obs \in {"ready", "absent"})
        /\ UNCHANGED hostVars
        /\ \/ /\ Evidence(k, obs) /\ Finish(c) /\ UNCHANGED faults
              /\ \/ k = "create" /\ obs = "ready" /\ RecordCreateReady(rev)
                 \/ k = "create" /\ obs = "released" /\ RecordCreateReleased(rev)
                 \/ k = "destroy" /\ RecordDestroyReleased(rev)
           \/ /\ Context(k, rev) /\ Goto(c, "unknown") /\ UNCHANGED storeVars
              /\ IF Evidence(k, obs) THEN Fault ELSE UNCHANGED faults
           \/ ~Context(k, rev) /\ Goto(c, "defer") /\ UNCHANGED <<storeVars, faults>>

RecordPreviousTick(c) ==
    LET k == w[c].kind  rev == w[c].rev  e == w[c].epoch
    IN  /\ w[c].pc = "record" /\ w[c].call.type = "previous"
        /\ UNCHANGED hostVars
        /\ \/ /\ PreviousEvidenceIn(w[c].obs) /\ RecordPreviousReleased(k, rev, e)
              /\ Finish(c) /\ UNCHANGED faults
           \/ ContextAt(k, rev, e) /\ Goto(c, "unknown") /\ Fault /\ UNCHANGED storeVars
           \/ ~ContextAt(k, rev, e) /\ Goto(c, "defer") /\ UNCHANGED <<storeVars, faults>>

(* destroy_tick: an inspection that shows a live or absent allocation.     *)
InspectedTick(c) ==
    /\ w[c].pc = "record" /\ w[c].kind = "destroy" /\ w[c].call.type = "inspect"
    /\ w[c].obs \in {"ready", "absent"}
    /\ Goto(c, "stop")
    /\ Local /\ UNCHANGED storeVars

UnknownTick(c) ==
    LET k == w[c].kind  rev == w[c].rev  e == w[c].epoch
        previous == w[c].call.type = "previous"
    IN  /\ w[c].pc = "unknown" /\ Local
        /\ \/ ~previous /\ k = "create" /\ RecordCreateUnknown(rev) /\ Finish(c)
           \/ ~previous /\ k = "destroy" /\ RecordDestroyUnknown(rev) /\ Finish(c)
           \/ previous /\ RecordPreviousUnknown(k, rev, e) /\ Finish(c)
           \/ /\ ~(IF previous THEN ContextAt(k, rev, e) ELSE Context(k, rev))
              /\ Goto(c, "defer") /\ UNCHANGED storeVars

RejectTick(c) ==
    /\ w[c].pc = "reject" /\ Local
    /\ \/ RejectUndispatchedCreate(w[c].rev) /\ Finish(c)
       \/ ~Rejectable(w[c].rev) /\ Goto(c, "defer") /\ UNCHANGED storeVars

DeferTick(c) ==
    /\ w[c].pc = "defer" /\ Local /\ Finish(c)
    /\ \/ DeferClaim(w[c].kind, w[c].rev)
       \/ ~Holds(w[c].kind, w[c].rev) /\ UNCHANGED storeVars

-----------------------------------------------------------------------------
(* Maintenance of a running allocation.                                    *)

MaintenanceTick(c) ==
    /\ w[c].pc = "idle" /\ Healthy
    /\ ClaimAllocation(epoch)
    /\ w' = [w EXCEPT ![c] = [pc |-> "lease", kind |-> "lease", rev |-> alloc'.maint,
                              epoch |-> epoch, call |-> NoCall, obs |-> "none"]]
    /\ Local

(* prepare_lease: clean up an allocation of an older epoch or of a revoked *)
(* owner; ask the host about any other.                                    *)
PrepareLeaseTick(c) ==
    LET rev == w[c].rev
    IN  /\ w[c].pc = "lease"
        /\ \/ LeaseCleanup(rev) /\ Finish(c) /\ Local
           \/ /\ LeaseContext(rev) /\ epoch = alloc.epoch
              /\ Send(c, Call("lease", "lease", rev, 0)) /\ UNCHANGED storeVars
           \/ /\ ~LeaseContext(rev)
              /\ Goto(c, "lease_defer") /\ Local /\ UNCHANGED storeVars

(* The host's answer to a renewal: a confirmed deadline extends the lease, *)
(* unless the project or the sandbox's own deadline no longer allows it; a *)
(* ready machine whose policy was revoked, or one the host reports gone,   *)
(* gets a service-owned destroy.                                           *)
RecordLeaseTick(c) ==
    LET rev == w[c].rev  obs == w[c].obs
    IN  /\ w[c].pc = "record" /\ w[c].kind = "lease" /\ Local
        /\ \/ obs = "ready" /\ RecordLeaseReady(rev) /\ Finish(c)
           \/ /\ obs \in {"ready", "released", "fenced_absent"} /\ epoch = alloc.epoch
              /\ LeaseCleanup(rev) /\ Finish(c)
           \/ Goto(c, "lease_unknown") /\ UNCHANGED storeVars
           \/ /\ ~LeaseContext(rev) \/ epoch # alloc.epoch
              /\ Goto(c, "lease_defer") /\ UNCHANGED storeVars

LeaseUnknownTick(c) ==
    /\ w[c].pc = "lease_unknown" /\ Local
    /\ \/ RecordLeaseUnknown(w[c].rev) /\ Finish(c)
       \/ ~LeaseContext(w[c].rev) /\ Goto(c, "lease_defer") /\ UNCHANGED storeVars

LeaseDeferTick(c) ==
    /\ w[c].pc = "lease_defer" /\ Local /\ Finish(c)
    /\ \/ DeferAllocation(w[c].rev)
       \/ ~(alloc.maint = w[c].rev /\ alloc.maintained) /\ UNCHANGED storeVars

(* The controller process dies, or a query fails: the tick is abandoned.   *)
Abandon(c) ==
    /\ w[c].pc # "idle" /\ Fault /\ Finish(c)
    /\ UNCHANGED <<storeVars, hostVars>>

-----------------------------------------------------------------------------
(* The host.                                                               *)

Free == busy = NoCall
Quiet == UNCHANGED <<storeVars, faults>>

(* The answer reaches the controller that still waits for it, if any.      *)
Answer(obs) ==
    /\ busy' = NoCall
    /\ w' = [c \in Controllers |->
                IF w[c].pc = "await" /\ w[c].call = busy
                THEN [w[c] EXCEPT !.pc = "record", !.obs = obs] ELSE w[c]]

(* The call never takes effect: lost, past its deadline, or refused.       *)
LoseCall(m) ==
    /\ Fault
    /\ net' = net \ {m}
    /\ UNCHANGED <<storeVars, w, host, busy, spawned, runtime>>

(* owner() and fence(): this epoch, and no newer claim of the operation.   *)
Fenced(m) == m.epoch = host.epoch /\ m.rev >= host.rev[m.kind]

Record(m, stopped, created) ==
    [epoch |-> host.epoch, record |-> TRUE, stopped |-> stopped, created |-> created,
     rev |-> [host.rev EXCEPT ![m.kind] = m.rev], lease |-> host.lease]

TakeUp(m) == Free /\ net' = net \ {m} /\ busy' = m

(* Mutant: a create is served although the allocation is stop-fenced.      *)
BeginCreateUnfenced(m) ==
    /\ m.type = "create" /\ Fenced(m) /\ TakeUp(m) /\ ~host.created
    /\ \E ok \in BOOLEAN : spawned' = ok /\ host' = Record(m, ~ok, TRUE)
    /\ UNCHANGED <<w, runtime>> /\ Quiet

(* Create: admitted, prepared and its guardian spawned; or, when a step    *)
(* of that failed, admitted and stopped.                                   *)
BeginCreate(m) ==
    /\ m.type = "create" /\ Fenced(m) /\ TakeUp(m)
    /\ ~host.stopped /\ ~host.created
    /\ \E ok \in BOOLEAN : spawned' = ok /\ host' = Record(m, ~ok, TRUE)
    /\ UNCHANGED <<w, runtime>> /\ Quiet

(* Inspect and Stop; a stop is journalled before anything is looked at.    *)
BeginInspect(m) ==
    /\ m.type \in {"inspect", "stop"} /\ Fenced(m) /\ TakeUp(m)
    /\ host' = Record(m, host.stopped \/ m.type = "stop", host.created)
    /\ UNCHANGED <<w, spawned, runtime>> /\ Quiet

(* A recovery request names the old epoch and needs a fenced record of it. *)
BeginPrevious(m) ==
    /\ m.type = "previous" /\ TakeUp(m)
    /\ m.reporting = host.epoch /\ m.epoch < host.epoch
    /\ host.record /\ host.stopped
    /\ UNCHANGED <<w, host, spawned, runtime>> /\ Quiet

BeginLease(m) ==
    /\ m.type = "lease" /\ m.epoch = host.epoch /\ TakeUp(m)
    /\ host.record /\ m.rev >= host.lease
    /\ host' = [host EXCEPT !.lease = m.rev]
    /\ UNCHANGED <<w, spawned, runtime>> /\ Quiet

(* A create that passed the claim fence but not the checks behind it: the  *)
(* allocation is stop-fenced, or the host has no room or no such image.    *)
DenyCreate(m) ==
    /\ m.type = "create" /\ Fenced(m) /\ Free /\ ~host.created
    /\ net' = net \ {m}
    /\ host' = Record(m, host.stopped, FALSE)
    /\ UNCHANGED <<w, busy, spawned, runtime>> /\ Quiet

(* Requests the host answers with an error; a lease request for an unknown *)
(* record is answered "absent", which is no evidence either.               *)
Refused(m) ==
    \/ m.type \in {"create", "inspect", "stop"} /\ ~Fenced(m)
    \/ m.type = "previous" /\ ~(m.reporting = host.epoch /\ host.record /\ host.stopped)
    \/ m.type = "lease" /\ ~(m.epoch = host.epoch /\ host.record /\ m.rev >= host.lease)

RefuseCall(m) ==
    /\ Refused(m)
    /\ net' = net \ {m}
    /\ UNCHANGED <<w, host, busy, spawned, runtime>> /\ Quiet

(* observe_record of an allocation without a create.                       *)
AnswerAbsent ==
    /\ ~Free /\ ~host.created
    /\ Answer(IF host.stopped THEN "fenced_absent" ELSE "absent")
    /\ UNCHANGED <<net, host, spawned, runtime>> /\ Quiet

(* The guardian authenticated the guest.                                   *)
AnswerReady ==
    /\ ~Free /\ host.created /\ ~host.stopped /\ runtime = "live"
    /\ Answer("ready")
    /\ UNCHANGED <<net, host, spawned, runtime>> /\ Quiet

(* No live guardian: the allocation is fenced, cleaned and journalled as   *)
(* released.  A create that spawned its guardian only waits for readiness. *)
AnswerReleased ==
    /\ ~Free /\ host.created /\ runtime # "live"
    /\ busy.type = "create" => host.stopped
    /\ runtime' = "released"
    /\ host' = [host EXCEPT !.stopped = TRUE]
    /\ Answer("released")
    /\ UNCHANGED <<net, spawned>> /\ Quiet

(* The handler fails or gives up: cleanup busy, guest not ready, error.    *)
AnswerFails ==
    /\ ~Free
    /\ IF busy.type = "create" THEN UNCHANGED faults ELSE Fault
    /\ busy' = NoCall
    /\ UNCHANGED <<storeVars, w, net, host, spawned, runtime>>

(* reconcile_one: an allocation that is not running is fenced and released. *)
HostReconcile ==
    /\ Free /\ host.created /\ runtime \in {"unstarted", "ended"}
    /\ runtime' = "released"
    /\ host' = [host EXCEPT !.stopped = TRUE]
    /\ UNCHANGED <<w, net, busy, spawned>> /\ Quiet

(* The spawned guardian takes the allocation's lock and boots the guest.   *)
GuardianLaunch ==
    /\ spawned /\ Runtime!Launch
    /\ UNCHANGED <<w, net, host, busy, spawned>> /\ Quiet

(* Watchdog, stop request or guest exit.                                   *)
GuardianEnd ==
    /\ Runtime!End
    /\ UNCHANGED <<w, net, host, busy, spawned>> /\ Quiet

(* Mutant: the restarted supervisor does not fence its retained records.   *)
HostRestartForgets ==
    /\ host.epoch < MaxEpoch
    /\ host' = [host EXCEPT !.epoch = @ + 1, !.stopped = FALSE]
    /\ busy' = NoCall
    /\ UNCHANGED <<storeVars, w, net, spawned, runtime, faults>>

(* The supervisor restarts under a newer epoch: handlers die, guardians    *)
(* survive, every retained record is stop-fenced.                          *)
HostRestart ==
    /\ host.epoch < MaxEpoch
    /\ host' = [host EXCEPT !.epoch = @ + 1, !.stopped = host.record]
    /\ busy' = NoCall
    /\ UNCHANGED <<storeVars, w, net, spawned, runtime, faults>>

-----------------------------------------------------------------------------
(* What happens to the rows without a controller's tick.                   *)

Held(k) == \E c \in Controllers :
    w[c].pc # "idle" /\ w[c].kind = k /\ w[c].rev = IF k = "lease" THEN alloc.maint ELSE op[k].rev

(* A claim outlives its holder until its lease runs out; a lease that runs *)
(* out under a working holder is a fault.                                  *)
ClaimRunsOut ==
    /\ \/ \E k \in Kinds : /\ ClaimExpires(k)
                           /\ IF Held(k) THEN Fault ELSE UNCHANGED faults
       \/ MaintenanceExpires /\ IF Held("lease") THEN Fault ELSE UNCHANGED faults
    /\ UNCHANGED <<w, hostVars>>

Outside ==
    /\ AdmitCreate \/ AdmitDestroy \/ LeaseExpires \/ MarkRuntimeUnknown \/ AdvanceEpoch
    /\ UNCHANGED <<w, hostVars, faults>>

ControllerStep(c) ==
    \/ \E k \in Kinds : Tick(c, k)
    \/ PreviousTick(c) \/ ReserveTick(c) \/ DispatchTick(c) \/ PrepareTick(c) \/ StopAgain(c)
    \/ AwaitFails(c) \/ RecordTick(c) \/ RecordPreviousTick(c) \/ InspectedTick(c) \/ UnknownTick(c)
    \/ RejectTick(c) \/ DeferTick(c)
    \/ MaintenanceTick(c) \/ PrepareLeaseTick(c) \/ RecordLeaseTick(c)
    \/ LeaseUnknownTick(c) \/ LeaseDeferTick(c)

BeginCall(m) == BeginCreate(m) \/ DenyCreate(m) \/ BeginInspect(m) \/ BeginPrevious(m) \/ BeginLease(m)

HostStep ==
    \/ \E m \in net : BeginCall(m) \/ RefuseCall(m)
    \/ AnswerAbsent \/ AnswerReady \/ AnswerReleased \/ AnswerFails

Next ==
    \/ \E c \in Controllers : ControllerStep(c) \/ Abandon(c)
    \/ HostStep \/ HostReconcile \/ HostRestart
    \/ \E m \in net : LoseCall(m)
    \/ GuardianLaunch \/ GuardianEnd
    \/ ClaimRunsOut \/ Outside

Spec == Init /\ [][Next]_vars

(* Controllers tick (the loop scans at least every 500 ms and rotates over *)
(* the kinds), the host serves and reconciles, leases run out, a stopped   *)
(* machine ends (guardian stop and watchdog), and an operator who issued   *)
(* an epoch on one side completes it on the other.                         *)
Provision == (epoch < host.epoch /\ AdvanceEpoch /\ UNCHANGED <<w, hostVars, faults>>)
                \/ (host.epoch < epoch /\ HostRestart)

Fairness ==
    /\ \A c \in Controllers : WF_vars(ControllerStep(c))
    /\ WF_vars(HostStep) /\ WF_vars(HostReconcile)
    /\ WF_vars(ClaimRunsOut) /\ WF_vars(Provision)
    /\ WF_vars(GuardianEnd /\ host.stopped)

FairSpec == Spec /\ Fairness

-----------------------------------------------------------------------------
(* Properties.                                                             *)

Calls == [type : {"none", "create", "inspect", "stop", "previous", "lease"},
          kind : {"none", "lease"} \union Kinds, rev : Nat, epoch : Nat, reporting : Nat]

(* Every controller, call and host record has the shape of its type.       *)
TypeOK ==
    /\ StoreTypeOK
    /\ w \in [Controllers ->
              [pc : {"idle", "previous", "reserve", "dispatch", "prepare", "stop", "await",
                     "record", "unknown", "reject", "defer", "lease", "lease_unknown",
                     "lease_defer"},
               kind : {"none", "lease"} \union Kinds, rev : Nat, epoch : Nat, call : Calls,
               obs : {"none", "absent", "ready", "released", "fenced_absent"}]]
    /\ net \subseteq Calls /\ busy \in Calls
    /\ host \in [epoch : Nat, record : BOOLEAN, stopped : BOOLEAN, created : BOOLEAN,
                 rev : [Kinds -> Nat], lease : Nat]
    /\ spawned \in BOOLEAN /\ runtime \in Runtime!RuntimeStates /\ faults \in Nat

(* No process of the allocation exists and none can be started any more.   *)
Gone == runtime = "released" \/ (runtime = "unstarted" /\ ~spawned)

(* When the database has released an allocation, its capacity is reused:   *)
(* the machine is gone for good, whatever requests are still on their way. *)
ReleasedIsGone == alloc.status = "released" => Gone

(* The database reports a create as succeeded only if the guest ran.       *)
SuccessIsReal == op["create"].status = "succeeded" => runtime # "unstarted"

(* What the database reports of an allocation is what its machine did:     *)
(* released means gone, succeeded means it was launched.                   *)
OutcomesAreReal == ReleasedIsGone /\ SuccessIsReal

(* Release evidence in a controller's hands stays true however long the    *)
(* controller takes to record it: the host is stop-fenced and the machine  *)
(* gone, also when the evidence answers a superseded claim.                *)
EvidenceHolds ==
    \A c \in Controllers :
        w[c].pc = "record" /\ w[c].obs \in {"released", "fenced_absent"} =>
            host.stopped /\ Gone

(* The one case in which a destroy may stay pending for ever: the host     *)
(* moved to a newer epoch without ever having heard of the allocation, so  *)
(* it holds no record that could prove anything.                           *)
Unprovable == host.epoch > alloc.epoch /\ ~host.record

(* An admitted destroy completes, through lost calls, crashed controllers  *)
(* and host restarts, unless its release is unprovable.                    *)
DestroyCompletes ==
    op["destroy"].status \in Active ~> (op["destroy"].status \in Final \/ Unprovable)
=============================================================================
