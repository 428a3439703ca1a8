----------------------------- MODULE Retirement -----------------------------
(* Retirement of one registered allocation: the launch authority file that *)
(* every launch, cleanup and deletion checks under its lock, the host's    *)
(* journal record, the guardian's directory, and the database rows that    *)
(* order deletion before completion and completion before forgetting.      *)
(* The permit has serial 1 and belongs to supervisor epoch 1.              *)
EXTENDS Integers, FiniteSets

CONSTANTS Workers,                 \* blocking request threads of the host
          MaxClaims, MaxForgets,   \* delivery claims kept apart by revision
          MaxEpoch, MaxFaults

ASSUME RetirementAssumption ==
    /\ MaxClaims \in Nat /\ MaxForgets \in Nat
    /\ MaxEpoch \in Nat \ {0} /\ MaxFaults \in Nat

VARIABLES db,      \* hosts, allocations and allocation_retirements rows
          net,     \* requests that may still reach the host
          answers, \* replies that may still reach the controller
          host,    \* the supervisor process and its journal's epoch
          check,   \* launch_authority checkpoint in the host journal
          rec,     \* the allocation's record in the host journal
          wk,      \* requests under way at the host
          auth,    \* launch.json
          disk,    \* the allocation's directory
          vm,      \* its cgroup
          gd,      \* the guardian process
          faults

vars == <<db, net, answers, host, check, rec, wk, auth, disk, vm, gd, faults>>

Names == {"receipt", "manifest", "lock"}
NoReq == [rev |-> 0, epoch |-> 0]
NoRecord == [present |-> FALSE, manifest |-> FALSE, dispatched |-> FALSE,
             stopped |-> FALSE, released |-> FALSE, ret |-> NoReq,
             plan |-> "none"]
NewRecord == [NoRecord EXCEPT !.present = TRUE]
NoDirectory == [dir |-> FALSE, files |-> {}, receipt |-> "none"]
Msg(k) == [kind |-> k]
Registration(e) == [kind |-> "register", epoch |-> e]
Idle == [pc |-> "idle", req |-> NoReq, stop |-> FALSE]

Init ==
    /\ db = [epoch |-> 1, registered |-> 0, sent |-> FALSE, released |-> FALSE,
             rev |-> 0, repoch |-> 0, lease |-> FALSE, done |-> NoReq,
             frev |-> 0, fepoch |-> 0, flease |-> FALSE, forgotten |-> FALSE]
    /\ net = {} /\ answers = {}
    /\ host = [pc |-> "up", epoch |-> 1, saved |-> 1]
    /\ check = [epoch |-> 1, through |-> 0]
    /\ rec = NoRecord
    /\ wk = [w \in Workers |-> Idle]
    /\ auth = [epoch |-> 1, through |-> 0, state |-> "none"]
    /\ disk = NoDirectory /\ vm = "none" /\ gd = "none"
    /\ faults = 0

-----------------------------------------------------------------------------
(* The launch authority file and its lock (sandbox_supervisor::launch_authority) *)

Sharing == {"create", "prepare", "dispatch", "poll"}
SharedFree == \A w \in Workers : wk[w].pc # "delete"
ExclusiveFree ==
    /\ gd # "locked"
    /\ \A w \in Workers : wk[w].pc \notin Sharing \union {"delete"}

Closed == auth.through = 1 /\ auth.state = "none"

(* authorize: only an active permit, and only in the epoch it was issued in. *)
Authorized == SharedFree /\ auth.state = "active" /\ auth.epoch = 1

(* authorize_cleanup; its second result is whether metadata may be created. *)
MayClean == SharedFree /\ auth.state \in {"active", "fenced"}
MayCreate == auth.state = "active"

(* authorize_retirement, authorize_deletion *)
MayRetire(e) == SharedFree /\ auth.epoch = e /\ auth.state \in {"active", "fenced"}
MayDelete(e) == ExclusiveFree /\ auth.epoch = e /\ auth.state = "fenced"

(* Authority::register through AuthorityFile::register: a serial the        *)
(* frontier covers is never added again.                                   *)
RegisterPermit == IF auth.through >= 1 THEN auth
                  ELSE [auth EXCEPT !.through = 1, !.state = "active"]

-----------------------------------------------------------------------------
(* The guardian's directory and its lifecycle lock *)

GateHeld == {"prepare", "dispatch", "poll", "cleanup", "fence", "delete"}
GateFree == \A w \in Workers : wk[w].pc \notin GateHeld
LifecycleFree == gd \notin {"locked", "running"}

(* Manifest::prepare: the receipt is written before manifest.json. *)
PrepareStep(d) ==
    IF ~d.dir
    THEN [dir |-> TRUE, files |-> {"lock"}, receipt |-> "none"]
    ELSE IF "receipt" \notin d.files
    THEN [d EXCEPT !.files = @ \union {"receipt"}, !.receipt = "staging"]
    ELSE IF "manifest" \notin d.files
    THEN [d EXCEPT !.files = @ \union {"manifest"}]
    ELSE [d EXCEPT !.receipt = "prepared"]

(* Manifest::fence_unstarted and Manifest::reconcile under a free lifecycle *)
(* lock: an existing receipt ends Stopped and the cgroup is removed; with  *)
(* no receipt, an active owner may write the absence proof itself.         *)
CanFence == /\ LifecycleFree
            /\ \/ "receipt" \in disk.files
               \/ MayCreate /\ disk.files \subseteq {"lock"} /\ vm = "none"
StoppedDisk == [dir |-> TRUE, receipt |-> "stopped",
                files |-> IF "receipt" \in disk.files
                          THEN disk.files ELSE Names]

-----------------------------------------------------------------------------
(* Host: create, stop and inspect (Host::create_sync, Host::inspect_sync) *)

HostUp == host.pc = "up"

Step(w, pc) == wk' = [wk EXCEPT ![w].pc = pc]
Finish(w) == wk' = [wk EXCEPT ![w] = Idle]

(* Host::gate: a missing record needs a registered active permit of this   *)
(* epoch; a retiring allocation is refused.                                *)
GateAdmits ==
    /\ host.epoch = 1
    /\ IF rec.present THEN rec.ret = NoReq
       ELSE Authorized /\ auth.through >= check.through

CreateBegin(w) ==
    /\ HostUp /\ wk[w].pc = "idle" /\ Msg("create") \in net
    /\ Authorized /\ GateAdmits
    /\ rec' = IF rec.present THEN rec ELSE NewRecord
    /\ net' = net \ {Msg("create")}
    /\ Step(w, "create")
    /\ UNCHANGED <<db, answers, host, check, auth, disk, vm, gd, faults>>

(* Under the allocation gate: the record is read again, and admitted once. *)
CreateAdmit(w) ==
    /\ wk[w].pc = "create" /\ GateFree
    /\ \/ /\ rec.ret = NoReq /\ ~rec.manifest /\ ~rec.stopped
          /\ rec' = [rec EXCEPT !.manifest = TRUE]
          /\ Step(w, "prepare")
       \/ /\ rec.ret # NoReq \/ (~rec.manifest /\ rec.stopped)
          /\ Finish(w) /\ UNCHANGED rec
       \/ /\ rec.ret = NoReq /\ rec.manifest
          /\ Step(w, "cleanup") /\ UNCHANGED rec
    /\ UNCHANGED <<db, net, answers, host, check, auth, disk, vm, gd, faults>>

CreatePrepare(w) ==
    /\ wk[w].pc = "prepare"
    /\ disk' = PrepareStep(disk)
    /\ Step(w, IF disk'.receipt = "prepared" THEN "dispatch" ELSE "prepare")
    /\ UNCHANGED <<db, net, answers, host, check, rec, auth, vm, gd, faults>>

(* Staging or the spawn failed, or the claim ended: the record is stopped  *)
(* and cleaned up.                                                         *)
CreateFails(w) ==
    /\ wk[w].pc \in {"prepare", "dispatch"}
    /\ rec' = [rec EXCEPT !.stopped = TRUE]
    /\ Step(w, "cleanup")
    /\ UNCHANGED <<db, net, answers, host, check, auth, disk, vm, gd, faults>>

(* The dispatch is durable before the guardian is spawned. *)
CreateDispatch(w) ==
    /\ wk[w].pc = "dispatch"
    /\ IF ~rec.dispatched
       THEN rec' = [rec EXCEPT !.dispatched = TRUE] /\ UNCHANGED <<gd, wk>>
       ELSE gd' = "spawned" /\ Step(w, "poll") /\ UNCHANGED rec
    /\ UNCHANGED <<db, net, answers, host, check, auth, disk, vm, faults>>

CreateReturn(w) ==
    /\ wk[w].pc = "poll" /\ Finish(w)
    /\ UNCHANGED <<db, net, answers, host, check, rec, auth, disk, vm, gd, faults>>

(* Stop or inspect in the owning epoch; in a later one previous_allocation *)
(* accepts only a retained, stopped record.                                *)
StopBegin(w) ==
    /\ HostUp /\ wk[w].pc = "idle" /\ Msg("stop") \in net
    /\ GateAdmits \/ (rec.present /\ rec.stopped /\ rec.ret = NoReq)
    /\ rec' = IF rec.present THEN rec ELSE NewRecord
    /\ \E s \in BOOLEAN : wk' = [wk EXCEPT ![w] = [Idle EXCEPT !.pc = "gate",
                                                              !.stop = s]]
    /\ net' = net \ {Msg("stop")}
    /\ UNCHANGED <<db, answers, host, check, auth, disk, vm, gd, faults>>

StopLocked(w) ==
    /\ wk[w].pc = "gate" /\ GateFree
    /\ IF rec.present /\ rec.ret = NoReq
       THEN /\ rec' = [rec EXCEPT !.stopped = @ \/ wk[w].stop]
            /\ Step(w, "cleanup")
       ELSE Finish(w) /\ UNCHANGED rec
    /\ UNCHANGED <<db, net, answers, host, check, auth, disk, vm, gd, faults>>

(* observe_record and cleanup.  A live guardian answers and nothing is     *)
(* proved; otherwise the directory is fenced, the record released.         *)
Observe(w) ==
    /\ wk[w].pc = "cleanup" /\ Finish(w)
    /\ \/ /\ rec.manifest /\ MayClean /\ CanFence
          /\ disk' = StoppedDisk /\ vm' = "none"
          /\ rec' = [rec EXCEPT !.stopped = TRUE, !.released = TRUE]
          /\ answers' = answers \union {Msg("released")}
       \/ /\ ~rec.manifest /\ rec.stopped /\ ~disk.dir /\ vm = "none"
          /\ answers' = answers \union {Msg("released")}
          /\ UNCHANGED <<disk, vm, rec>>
       \/ UNCHANGED <<disk, vm, rec, answers>>
    /\ UNCHANGED <<db, net, host, check, auth, gd, faults>>

(* The process ends after manifest.json of an absence proof, before its    *)
(* receipt.                                                                *)
ObserveTorn(w) ==
    /\ wk[w].pc = "cleanup" /\ faults < MaxFaults
    /\ rec.manifest /\ MayClean /\ CanFence /\ disk.files \subseteq {"lock"}
    /\ disk' = [dir |-> TRUE, files |-> {"lock", "manifest"}, receipt |-> "none"]
    /\ faults' = faults + 1 /\ host' = [host EXCEPT !.pc = "down"]
    /\ wk' = [u \in Workers |-> Idle]
    /\ UNCHANGED <<db, net, answers, check, rec, auth, vm, gd>>

-----------------------------------------------------------------------------
(* The guardian process (guardian::process) *)

(* Mutant: the guardian starts without asking for its permit.              *)
StartUnauthorized ==
    /\ gd = "spawned" /\ SharedFree
    /\ disk' = IF "receipt" \in disk.files THEN disk
               ELSE [dir |-> TRUE, files |-> Names, receipt |-> "prepared"]
    /\ gd' = IF disk'.receipt = "prepared" THEN "checked" ELSE "done"
    /\ UNCHANGED <<db, net, answers, host, check, rec, wk, auth, vm, faults>>

(* launch: prepare() under the authority; a receipt that is not Prepared   *)
(* is only ever cleaned up.                                                *)
GuardianStart ==
    /\ gd = "spawned" /\ SharedFree
    /\ IF ~Authorized THEN gd' = "done" /\ UNCHANGED disk
       ELSE /\ disk' = IF "receipt" \in disk.files THEN disk
                       ELSE [dir |-> TRUE, files |-> Names, receipt |-> "prepared"]
            /\ gd' = CASE disk'.receipt = "prepared" -> "checked"
                       [] disk'.receipt = "stopped" -> "done"
                       [] OTHER -> "reconcile"
    /\ UNCHANGED <<db, net, answers, host, check, rec, wk, auth, vm, faults>>

(* Authorized a second time around the spawn of the namespace's init. *)
GuardianSpawn ==
    /\ gd = "checked" /\ SharedFree
    /\ gd' = IF Authorized THEN "init" ELSE "done"
    /\ UNCHANGED <<db, net, answers, host, check, rec, wk, auth, disk, vm, faults>>

(* namespace_init authorizes a third time and keeps the shared lock until  *)
(* the receipt says Running; the lifecycle lock dies with the process.     *)
GuardianInit ==
    /\ gd = "init" /\ SharedFree
    /\ gd' = IF Authorized /\ disk.receipt = "prepared" THEN "locked"
             ELSE "reconcile"
    /\ UNCHANGED <<db, net, answers, host, check, rec, wk, auth, disk, vm, faults>>

GuardianLaunch ==
    /\ gd = "locked"
    /\ vm' = "live" /\ disk' = [disk EXCEPT !.receipt = "running"]
    /\ gd' = "running"
    /\ UNCHANGED <<db, net, answers, host, check, rec, wk, auth, faults>>

(* Its death, by a stop, the deadline or a fault, takes the namespace with *)
(* it and leaves the cgroup.                                               *)
GuardianExit ==
    /\ gd \in {"locked", "running"}
    /\ gd' = "reconcile" /\ vm' = IF vm = "live" THEN "dead" ELSE vm
    /\ UNCHANGED <<db, net, answers, host, check, rec, wk, auth, disk, faults>>

GuardianReconcile ==
    /\ gd = "reconcile" /\ SharedFree /\ gd' = "done"
    /\ \/ /\ MayClean /\ "receipt" \in disk.files
          /\ disk' = [disk EXCEPT !.receipt = "stopped"] /\ vm' = "none"
       \/ UNCHANGED <<disk, vm>>
    /\ UNCHANGED <<db, net, answers, host, check, rec, wk, auth, faults>>

-----------------------------------------------------------------------------
(* Host: fencing and metadata deletion (Host::retire_allocation_metadata_sync) *)

(* A claim is usable until the database may hand out the next one. *)
Live(req) == req.rev = db.rev /\ db.lease
LiveForget(r) == r = db.frev /\ db.flease

(* retirement::scope *)
Scope == ~rec.present \/ rec.stopped \/ (~rec.manifest /\ ~rec.dispatched)

(* fence_allocation_sync: the request is durable in the record before the  *)
(* authority file is fenced.  An older claim never replaces a newer one.   *)
FenceRecord(w) ==
    /\ HostUp /\ wk[w].pc = "idle" /\ GateFree
    /\ \E r \in 1..MaxClaims, e \in 1..MaxEpoch :
          LET req == [rev |-> r, epoch |-> e] IN
          /\ [kind |-> "retire", req |-> req] \in net
          /\ Live(req) /\ e = host.epoch /\ MayRetire(e)
          /\ Scope /\ r >= rec.ret.rev
          /\ rec' = [(IF rec.present THEN rec ELSE NewRecord)
                        EXCEPT !.ret = req, !.stopped = TRUE]
          /\ wk' = [wk EXCEPT ![w] = [Idle EXCEPT !.pc = "fence", !.req = req]]
          /\ net' = net \ {[kind |-> "retire", req |-> req]}
    /\ UNCHANGED <<db, answers, host, check, auth, disk, vm, gd, faults>>

FenceRoot(w) ==
    /\ wk[w].pc = "fence"
    /\ \/ /\ ExclusiveFree /\ auth.epoch = host.epoch /\ ~Closed
          /\ auth' = [auth EXCEPT !.state = IF @ = "active" THEN "fenced" ELSE @]
          /\ Step(w, "reopen")
       \/ ~ExclusiveFree /\ Finish(w) /\ UNCHANGED auth
    /\ UNCHANGED <<db, net, answers, host, check, rec, disk, vm, gd, faults>>

(* Session::open: the exact fence, no cgroup, the lifecycle lock if there  *)
(* is one, and the complete original inventory unless a saved plan already *)
(* names it.                                                               *)
Inventory ==
    \/ rec.plan # "none" /\ (disk.dir => rec.manifest)
    \/ ~rec.manifest /\ ~disk.dir
    \/ rec.manifest /\ disk.files = Names /\ disk.receipt = "stopped"
SessionOpens(e) ==
    MayDelete(e) /\ vm = "none" /\ LifecycleFree /\ Inventory

(* Mutant: deletion starts before its plan is journalled.                  *)
OpenUnsaved(w) ==
    /\ wk[w].pc = "reopen" /\ GateFree
    /\ rec.present /\ rec.ret = wk[w].req /\ SessionOpens(host.epoch)
    /\ Step(w, "delete")
    /\ UNCHANGED <<db, net, answers, host, check, rec, auth, disk, vm, gd, faults>>

(* The claim is compared again under the gate, and the plan is durable     *)
(* before the first unlink.                                                *)
OpenSession(w) ==
    /\ wk[w].pc = "reopen"
    /\ IF /\ GateFree /\ rec.present /\ rec.ret = wk[w].req /\ Live(wk[w].req)
          /\ SessionOpens(host.epoch)
          /\ rec.plan = "removed" => ~disk.dir
       THEN /\ rec' = [rec EXCEPT !.plan = IF @ = "none" THEN "saved" ELSE @]
            /\ Step(w, "delete")
       ELSE Finish(w) /\ UNCHANGED rec
    /\ UNCHANGED <<db, net, answers, host, check, auth, disk, vm, gd, faults>>

(* Session::remove_next: the lifecycle lock goes last. *)
RemoveOrder == <<"receipt", "manifest", "lock">>
RemoveNext(w) ==
    /\ wk[w].pc = "delete" /\ disk.dir
    /\ IF disk.files = {} THEN disk' = NoDirectory
       ELSE LET i == CHOOSE n \in 1..3 :
                        /\ RemoveOrder[n] \in disk.files
                        /\ \A k \in 1..(n - 1) : RemoveOrder[k] \notin disk.files
            IN disk' = [disk EXCEPT !.files = @ \ {RemoveOrder[i]}]
    /\ UNCHANGED <<db, net, answers, host, check, rec, wk, auth, vm, gd, faults>>

(* Mutant: removal is reported before the directory is gone.               *)
RemovedEarly(w) ==
    /\ wk[w].pc = "delete"
    /\ rec' = [rec EXCEPT !.plan = "removed"]
    /\ answers' = answers \union {[kind |-> "removed", req |-> wk[w].req]}
    /\ Finish(w)
    /\ UNCHANGED <<db, net, host, check, auth, disk, vm, gd, faults>>

Removed(w) ==
    /\ wk[w].pc = "delete" /\ ~disk.dir
    /\ rec' = [rec EXCEPT !.plan = "removed"]
    /\ answers' = IF Live(wk[w].req)
                  THEN answers \union {[kind |-> "removed", req |-> wk[w].req]}
                  ELSE answers
    /\ Finish(w)
    /\ UNCHANGED <<db, net, host, check, auth, disk, vm, gd, faults>>

-----------------------------------------------------------------------------
(* Host: forgetting (Host::forget_allocation_sync).  One call holds the    *)
(* journal and the exclusive lock throughout; it may stop after any of its *)
(* three durable writes: completion, record removal, root forgetting.      *)

(* Mutant: forgetting needs the record it removes.                         *)
ForgetNeedsRecord(meta) ==
    /\ ~disk.dir /\ vm = "none"
    /\ IF rec.present
       THEN ~Closed /\ rec.ret = meta /\ rec.plan = "removed" /\ rec.stopped
       ELSE Closed

(* metadata_retirement::verify_forgetting, guardian::retirement::verify_absent *)
Forgettable(meta) ==
    /\ ~disk.dir /\ vm = "none"
    /\ IF rec.present
       THEN ~Closed /\ rec.ret = meta /\ rec.plan = "removed" /\ rec.stopped
       ELSE Closed \/ auth.state = "complete"
Forget(w) ==
    /\ HostUp /\ wk[w].pc = "idle"
    /\ rec.present => GateFree
    /\ ExclusiveFree /\ auth.epoch = host.epoch
    /\ Closed \/ auth.state \in {"fenced", "complete"}
    /\ \E m \in net :
          /\ m.kind = "forget"
          /\ LiveForget(m.req.rev) /\ m.req.epoch = host.epoch
          /\ Forgettable(m.meta)
          /\ net' = net \ {m}
          /\ \E writes \in 0..3 :
                /\ faults' = IF writes = 3 THEN faults ELSE faults + 1
                /\ faults' <= MaxFaults
                /\ auth' = [auth EXCEPT !.state = IF Closed \/ writes = 3 THEN "none"
                                             ELSE IF writes > 0 THEN "complete"
                                             ELSE @]
                /\ rec' = IF writes > 1 THEN NoRecord ELSE rec
                /\ answers' = IF writes = 3 /\ LiveForget(m.req.rev)
                              THEN answers \union {[kind |-> "forgotten", req |-> m.req]}
                              ELSE answers
    /\ UNCHANGED <<db, host, check, wk, disk, vm, gd>>

-----------------------------------------------------------------------------
(* Host: registration and restart *)

(* allocation_authority_sync: the authority file, then the checkpoint.  A  *)
(* batch with a forgotten serial is refused and an empty one inspects.     *)
RegisterRoot(w) ==
    /\ HostUp /\ wk[w].pc = "idle" /\ Registration(host.epoch) \in net
    /\ ExclusiveFree /\ auth.epoch = host.epoch
    /\ auth' = RegisterPermit
    /\ net' = net \ {Registration(host.epoch)}
    /\ Step(w, "check")
    /\ UNCHANGED <<db, answers, host, check, rec, disk, vm, gd, faults>>

RegisterCheck(w) ==
    /\ wk[w].pc = "check" /\ auth.through >= check.through
    /\ check' = [epoch |-> auth.epoch, through |-> auth.through]
    /\ answers' = answers \union {[kind |-> "registered", epoch |-> host.epoch]}
    /\ Finish(w)
    /\ UNCHANGED <<db, net, host, rec, auth, disk, vm, gd, faults>>

Crash ==
    /\ host.pc # "down" /\ faults < MaxFaults /\ faults' = faults + 1
    /\ host' = [host EXCEPT !.pc = "down"]
    /\ wk' = [w \in Workers |-> Idle]
    /\ UNCHANGED <<db, net, answers, check, rec, auth, disk, vm, gd>>

(* What journal::load requires of a retained record besides a free lock:   *)
(* retirement::validate_retained, metadata_retirement::validate_retained.  *)
RetainedValid ==
    /\ auth.epoch >= check.epoch /\ auth.through >= check.through
    /\ rec.present => /\ rec.dispatched => rec.manifest
                      /\ rec.released => rec.stopped /\ rec.manifest
                      /\ (rec.released /\ rec.plan = "none")
                            => disk.receipt = "stopped" /\ "receipt" \in disk.files
    /\ rec.ret # NoReq =>
          /\ rec.ret.epoch <= auth.epoch /\ Scope
          /\ CASE rec.plan = "none" -> auth.state \in {"active", "fenced"}
               [] rec.plan = "saved" -> /\ auth.state = "fenced" /\ vm = "none"
                                        /\ LifecycleFree /\ Inventory
               [] OTHER -> /\ auth.state \in {"fenced", "complete"}
                           /\ ~disk.dir /\ vm = "none"
    /\ rec.plan # "none" => rec.ret # NoReq

(* Every start takes a later epoch than the journal's.  The journal is     *)
(* saved with every retained record stopped, then the authority file       *)
(* advances, then its checkpoint is journaled.                             *)
Load ==
    /\ host.pc = "down" /\ host.saved < MaxEpoch
    /\ IF rec.plan = "none" THEN SharedFree ELSE ExclusiveFree
    /\ RetainedValid
    /\ host' = [pc |-> "loaded", epoch |-> host.saved + 1, saved |-> host.saved + 1]
    /\ rec' = [rec EXCEPT !.stopped = @ \/ rec.present]
    /\ UNCHANGED <<db, net, answers, check, wk, auth, disk, vm, gd, faults>>

AdvanceEpoch ==
    /\ host.pc = "loaded" /\ ExclusiveFree
    /\ auth.epoch >= check.epoch /\ auth.through >= check.through
    /\ auth' = [auth EXCEPT !.epoch = host.epoch]
    /\ host' = [host EXCEPT !.pc = "advanced"]
    /\ UNCHANGED <<db, net, answers, check, rec, wk, disk, vm, gd, faults>>

Started ==
    /\ host.pc = "advanced"
    /\ host' = [host EXCEPT !.pc = "up"]
    /\ check' = [epoch |-> auth.epoch, through |-> auth.through]
    /\ UNCHANGED <<db, net, answers, rec, wk, auth, disk, vm, gd, faults>>

-----------------------------------------------------------------------------
(* Database and controller *)

(* A controller starts against the host's current epoch. *)
Activate ==
    /\ HostUp /\ db.epoch < host.epoch
    /\ db' = [db EXCEPT !.epoch = host.epoch]
    /\ UNCHANGED <<net, answers, host, check, rec, wk, auth, disk, vm, gd, faults>>

(* sync_allocation_authority sends the issued permits it has no frontier for. *)
SendRegistration ==
    /\ db.registered = 0 /\ Registration(db.epoch) \notin net
    /\ net' = net \union {Registration(db.epoch)}
    /\ UNCHANGED <<db, answers, host, check, rec, wk, auth, disk, vm, gd, faults>>

(* record_allocation_registration *)
RecordRegistration ==
    /\ db.registered = 0 /\ [kind |-> "registered", epoch |-> db.epoch] \in answers
    /\ db' = [db EXCEPT !.registered = 1]
    /\ UNCHANGED <<net, answers, host, check, rec, wk, auth, disk, vm, gd, faults>>

(* prepare_launch_permit: a create is sent only for a registered permit. *)
SendCreate ==
    /\ db.registered = 1 /\ ~db.released /\ Msg("create") \notin net
    /\ db' = [db EXCEPT !.sent = TRUE] /\ net' = net \union {Msg("create")}
    /\ UNCHANGED <<answers, host, check, rec, wk, auth, disk, vm, gd, faults>>

SendStop ==
    /\ db.sent /\ ~db.released /\ Msg("stop") \notin net
    /\ net' = net \union {Msg("stop")}
    /\ UNCHANGED <<db, answers, host, check, rec, wk, auth, disk, vm, gd, faults>>

(* The release a destroy observed, or a create rejected before dispatch. *)
RecordRelease ==
    /\ ~db.released
    /\ ~db.sent \/ Msg("released") \in answers
    /\ db' = [db EXCEPT !.released = TRUE]
    /\ UNCHANGED <<net, answers, host, check, rec, wk, auth, disk, vm, gd, faults>>

(* Nothing of a claim is under way any more: it was issued for an earlier  *)
(* epoch, or its request was refused, lost with the host or timed out.     *)
Spent(kind, req, reply) ==
    \/ req.epoch # host.epoch
    \/ /\ \A m \in net : m.kind = kind => m.req # req
       /\ \A w \in Workers : wk[w].req # req
       /\ \A m \in answers : m.kind = reply => m.req # req
RetireClaim == [rev |-> db.rev, epoch |-> db.repoch]
ForgetClaim == [rev |-> db.frev, epoch |-> db.fepoch]

(* The bound on revisions: a spent last revision stands for the next one. *)
Following(rev, limit) == IF rev < limit THEN rev + 1 ELSE rev

(* next_allocation_retirement: released, registered, no delivery under way. *)
Candidate == /\ db.released /\ db.registered = 1 /\ ~db.forgotten
             /\ ~db.lease /\ ~db.flease

(* prepare_allocation_retirement: the frozen intent is the same on every   *)
(* retry; revision and epoch are new.                                      *)
PrepareRetirement ==
    /\ Candidate /\ db.done = NoReq
    /\ LET r == Following(db.rev, MaxClaims)
       IN /\ db' = [db EXCEPT !.rev = r, !.repoch = db.epoch, !.lease = TRUE]
          /\ net' = net \union {[kind |-> "retire",
                                  req |-> [rev |-> r, epoch |-> db.epoch]]}
    /\ UNCHANGED <<answers, host, check, rec, wk, auth, disk, vm, gd, faults>>

(* complete_allocation_retirement *)
CompleteRetirement ==
    /\ db.lease /\ db.repoch = db.epoch
    /\ [kind |-> "removed", req |-> RetireClaim] \in answers
    /\ db' = [db EXCEPT !.done = RetireClaim, !.lease = FALSE]
    /\ UNCHANGED <<net, answers, host, check, rec, wk, auth, disk, vm, gd, faults>>

(* prepare_allocation_forgetting *)
PrepareForgetting ==
    /\ Candidate /\ db.done # NoReq
    /\ LET r == Following(db.frev, MaxForgets)
       IN /\ db' = [db EXCEPT !.frev = r, !.fepoch = db.epoch, !.flease = TRUE]
          /\ net' = net \union {[kind |-> "forget", meta |-> db.done,
                                  req |-> [rev |-> r, epoch |-> db.epoch]]}
    /\ UNCHANGED <<answers, host, check, rec, wk, auth, disk, vm, gd, faults>>

(* complete_allocation_forgetting *)
CompleteForgetting ==
    /\ db.flease /\ db.fepoch = db.epoch
    /\ [kind |-> "forgotten", req |-> ForgetClaim] \in answers
    /\ db' = [db EXCEPT !.forgotten = TRUE, !.flease = FALSE]
    /\ UNCHANGED <<net, answers, host, check, rec, wk, auth, disk, vm, gd, faults>>

(* A delivery lease runs out, at the host and in the database: at any time *)
(* while revisions are left to tell the requests apart, later only spent.  *)
Lapse ==
    /\ \/ /\ db.lease
          /\ db.rev < MaxClaims \/ Spent("retire", RetireClaim, "removed")
          /\ db' = [db EXCEPT !.lease = FALSE]
       \/ /\ db.flease
          /\ db.frev < MaxForgets \/ Spent("forget", ForgetClaim, "forgotten")
          /\ db' = [db EXCEPT !.flease = FALSE]
    /\ UNCHANGED <<net, answers, host, check, rec, wk, auth, disk, vm, gd, faults>>

-----------------------------------------------------------------------------
HostStep(w) ==
    \/ CreateBegin(w) \/ CreateAdmit(w) \/ CreatePrepare(w) \/ CreateFails(w)
    \/ CreateDispatch(w) \/ CreateReturn(w)
    \/ StopBegin(w) \/ StopLocked(w) \/ Observe(w) \/ ObserveTorn(w)
    \/ FenceRecord(w) \/ FenceRoot(w) \/ OpenSession(w)
    \/ RemoveNext(w) \/ Removed(w) \/ Forget(w)
    \/ RegisterRoot(w) \/ RegisterCheck(w)
GuardianStep ==
    \/ GuardianStart \/ GuardianSpawn \/ GuardianInit \/ GuardianLaunch
    \/ GuardianExit \/ GuardianReconcile
DatabaseStep ==
    \/ Activate \/ SendRegistration \/ RecordRegistration
    \/ SendCreate \/ SendStop \/ RecordRelease
    \/ PrepareRetirement \/ CompleteRetirement
    \/ PrepareForgetting \/ CompleteForgetting \/ Lapse

Next ==
    \/ \E w \in Workers : HostStep(w)
    \/ GuardianStep
    \/ Crash \/ Load \/ AdvanceEpoch \/ Started
    \/ DatabaseStep

Spec == Init /\ [][Next]_vars

(* A request taken up is carried on, an idle thread takes up the next one, *)
(* the guardian and its watchdog run, the host is restarted, and the       *)
(* controller's retirement worker ticks.  A thread blocked on the          *)
(* allocation gate gets it: its holders keep it for one call, and retries  *)
(* of a claim are a lease apart.                                           *)
Progress(w) ==
    \/ CreateAdmit(w) \/ CreatePrepare(w) \/ CreateDispatch(w) \/ CreateReturn(w)
    \/ StopLocked(w) \/ Observe(w) \/ FenceRecord(w) \/ FenceRoot(w)
    \/ OpenSession(w) \/ RemoveNext(w) \/ Removed(w) \/ Forget(w)
    \/ RegisterRoot(w) \/ RegisterCheck(w)
Fairness ==
    /\ \A w \in Workers : /\ WF_vars(Progress(w))
                          /\ SF_vars(CreateAdmit(w)) /\ SF_vars(StopLocked(w))
    /\ WF_vars(GuardianStep)
    /\ WF_vars(Load \/ AdvanceEpoch \/ Started)
    /\ WF_vars(Activate)
    /\ WF_vars(SendRegistration) /\ WF_vars(RecordRegistration)
    /\ WF_vars(PrepareRetirement \/ CompleteRetirement)
    /\ WF_vars(PrepareForgetting \/ CompleteForgetting)
    /\ WF_vars(Lapse)
FairSpec == Spec /\ Fairness

-----------------------------------------------------------------------------
(* What each variable holds. *)
Requests == [rev : 0..MaxClaims, epoch : 0..MaxEpoch]
TypeOK ==
    /\ {db.sent, db.released, db.lease, db.flease, db.forgotten} \subseteq BOOLEAN
    /\ db.rev \in 0..MaxClaims /\ db.frev \in 0..MaxForgets /\ db.done \in Requests
    /\ {db.epoch, host.epoch, host.saved, check.epoch, auth.epoch} \subseteq 1..MaxEpoch
    /\ host.pc \in {"up", "down", "loaded", "advanced"}
    /\ db.registered \in 0..1 /\ check.through \in 0..1 /\ auth.through \in 0..1
    /\ auth.state \in {"none", "active", "fenced", "complete"}
    /\ rec \in [present : BOOLEAN, manifest : BOOLEAN, dispatched : BOOLEAN,
               stopped : BOOLEAN, released : BOOLEAN, ret : Requests,
               plan : {"none", "saved", "removed"}]
    /\ wk \in [Workers -> [req : Requests, stop : BOOLEAN,
                           pc : Sharing \union GateHeld \union
                                {"idle", "gate", "reopen", "check"}]]
    /\ disk \in [dir : BOOLEAN, files : SUBSET Names,
                receipt : {"none", "staging", "prepared", "running", "stopped"}]
    /\ vm \in {"none", "live", "dead"}
    /\ gd \in {"none", "spawned", "checked", "init", "locked", "running",
              "reconcile", "done"}
    /\ faults \in 0..MaxFaults

(* Once the serial is fenced or closed, no late create, no delayed guardian *)
(* and no restart starts a machine or writes its directory again: the VM   *)
(* never appears and files only go.                                        *)
FencedStaysDown ==
    [][auth.through = 1 /\ auth.state # "active"
         => /\ vm' # vm => vm' = "none" \/ vm = "live"
            /\ disk'.files \subseteq disk.files]_vars

(* Completion in the database is true: the directory and the cgroup are    *)
(* gone and the serial can never launch, whichever claim reported it.      *)
CompletionIsReal ==
    db.done # NoReq => /\ ~disk.dir /\ vm = "none"
                       /\ auth.through = 1 /\ auth.state # "active"

(* The host forgets last: while the record or the root entry is missing,   *)
(* the database already holds the completion the record answered for.      *)
ForgottenIsCompleted ==
    /\ Closed \/ auth.state = "complete" => db.done # NoReq
    /\ Closed => ~rec.present
    /\ rec.present /\ db.done # NoReq => rec.ret = db.done /\ rec.plan = "removed"
    /\ db.forgotten => Closed

(* Each layer forgets only after the one below: the host completed after   *)
(* the guardian removed, the database after the host completed.            *)
CompletionsAreReal == CompletionIsReal /\ ForgottenIsCompleted

(* A host that is down accepts its own journal again: no crash between the *)
(* writes of the authority file, the journal and the directory leaves a    *)
(* combination the next start refuses.                                     *)
Restartable == host.pc # "up" => RetainedValid

(* A directory a crash left without one of its three files: prepare stops  *)
(* between the receipt and manifest.json, fence_unstarted between          *)
(* manifest.json and the receipt.  Session::open refuses it for good.      *)
Torn == rec.manifest /\ rec.plan = "none" /\ disk.files # Names

(* Every released allocation is deleted, completed and forgotten in the    *)
(* end, through lapsed claims, lost answers and restarts, unless a crash   *)
(* tore its directory.                                                     *)
EventuallyForgotten == db.released ~> (db.forgotten \/ Torn)
=============================================================================
