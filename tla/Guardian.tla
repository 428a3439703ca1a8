------------------------------ MODULE Guardian ------------------------------
(***************************************************************************)
(* The allocation guardian of one allocation on one host:                  *)
(*   sandbox-supervisor/src/guardian/mod.rs     the journal (receipt), the *)
(*                                              lifecycle lock, cleanup    *)
(*   sandbox-supervisor/src/guardian/process.rs launch wrapper, namespace  *)
(*                                              init, watchdog, control    *)
(*   sandbox-supervisor/src/lease.rs            the deadline word          *)
(*                                                                         *)
(* Callers are the threads and processes that run prepare, launch,         *)
(* fence_unstarted and reconcile on the allocation: supervisor threads,    *)
(* launch wrappers, operators.  Each launch wrapper may own one namespace  *)
(* init, which survives the death of its wrapper.  The lifecycle flock is  *)
(* held exactly while its holder is between two program points, so it is   *)
(* not a variable: LockFree reads it off the program counters.             *)
(***************************************************************************)
EXTENDS Integers

CONSTANTS
    Callers,        \* threads and processes working on this allocation
    GuestBoots,     \* boot identities a guest may report
    StartExpires,   \* Manifest.start.expires_unix_ms
    IdentityUntil,  \* Receipt.identity_expires_unix_ms
    MaxLease,       \* the 300 s of Deadline::convert
    MaxNow,         \* bound: clock
    MaxSkew,        \* bound: wall clock minus boot clock
    MaxRevision,    \* bound: renewal revisions requested
    MaxFaults       \* bound: crashes, failed writes and host reboots

ASSUME GuardianAssumption ==
    /\ StartExpires \in Nat /\ IdentityUntil \in Nat /\ MaxLease \in Nat
    /\ MaxNow \in Nat /\ MaxSkew \in Nat /\ MaxRevision \in Nat
    /\ MaxFaults \in Nat
    /\ 0 \notin GuestBoots

VARIABLES
    pc,         \* [Callers -> program point of the call]
    init,       \* [Callers -> program point of the namespace init it spawned]
    receipt,    \* the durable journal record
    manifest,   \* manifest.json was written by a fence that has no record yet
    mem,        \* the record in the memory of the serving init
    renewing,   \* the renewal whose record is durable and not yet in force
    hellos,     \* boot identities authenticated by handshakes in progress
    deadline,   \* the Deadline word of the live init
    group,      \* inode of the allocation cgroup, 0 when it does not exist
    made,       \* cgroups created so far: the inode of the last one
    vm,         \* the jailer and Firecracker processes
    boot,       \* host boots so far
    now,        \* CLOCK_BOOTTIME
    skew,       \* wall clock - boot clock
    faults      \* faults so far

callVars  == <<pc, init>>
diskVars  == <<receipt, manifest>>
memVars   == <<mem, renewing, hellos, deadline>>
hostVars  == <<group, made, vm>>
clockVars == <<now, skew>>
vars == <<callVars, diskVars, memVars, hostVars, boot, clockVars, faults>>

-----------------------------------------------------------------------------
(* State *)

NoGuest  == 0       \* guest_boot_id: None
Unarmed  == -1      \* no namespace init has a deadline
States   == {"none", "staging", "prepared", "launch_intent", "running",
             "stopping", "fenced", "stopped"}      \* "none": no record file
Absent   == [state |-> "none", boot |-> 0, inode |-> 0, rev |-> 0,
             expires |-> 0, guest |-> NoGuest]
Fresh(state, b) == [state |-> state, boot |-> b, inode |-> 0, rev |-> 0,
                    expires |-> StartExpires, guest |-> NoGuest]
Renewed(r, rev, expires) == [r EXCEPT !.rev = rev, !.expires = expires]
Idle     == [on |-> FALSE, prior |-> 0, next |-> 0, rev |-> 0, expires |-> 0]

CallPoints == {"idle", "staging", "spawn", "waiting", "reconcile",
               "manifest", "cleaning", "removed"}
InitPoints == {"none", "forked", "owned", "armed", "intent", "spawned",
               "serving"}

(* The points at which a caller, or a namespace init, holds the flock.     *)
CallHolds == {"staging", "manifest", "cleaning", "removed"}
InitHolds == {"owned", "armed", "intent", "spawned", "serving"}

LockFree == \A c \in Callers : pc[c] \notin CallHolds /\ init[c] \notin InitHolds

wall == now + skew

(* Deadline::convert: the boot time at which a wall-clock expiry falls.    *)
Convertible(expires) == expires - wall \in 1..MaxLease
Convert(expires)     == now + (expires - wall)

Receipts == [state : States, boot : Nat, inode : Nat, rev : Nat,
             expires : Int, guest : GuestBoots \cup {NoGuest}]

Renewals == [on : BOOLEAN, prior : Int, next : Int, rev : Nat, expires : Int]

TypeOK ==
    /\ pc \in [Callers -> CallPoints]
    /\ init \in [Callers -> InitPoints]
    /\ receipt \in Receipts
    /\ manifest \in BOOLEAN
    /\ mem \in Receipts
    /\ renewing \in Renewals
    /\ hellos \in SUBSET GuestBoots
    /\ deadline \in Int
    /\ group \in Nat /\ made \in Nat
    /\ vm \in {"none", "joining", "alive", "dying", "gone"}
    /\ boot \in Nat /\ now \in Nat /\ skew \in Nat
    /\ faults \in Nat

Init ==
    /\ pc = [c \in Callers |-> "idle"]
    /\ init = [c \in Callers |-> "none"]
    /\ receipt = Absent /\ manifest = FALSE
    /\ mem = Absent /\ renewing = Idle /\ hellos = {} /\ deadline = Unarmed
    /\ group = 0 /\ made = 0 /\ vm = "none"
    /\ boot = 0 /\ now = 0 /\ skew = 0
    /\ faults = 0

Fault == faults < MaxFaults /\ faults' = faults + 1

-----------------------------------------------------------------------------
(* Callers: prepare, launch, fence_unstarted, reconcile *)

(* Manifest::prepare, first durable step: without a record, and with no    *)
(* unowned cgroup or file, a Staging record is written under the lock.     *)
PrepareNew(c) ==
    /\ pc[c] = "idle" /\ init[c] = "none" /\ LockFree
    /\ receipt.state = "none" /\ group = 0 /\ ~manifest
    /\ Convertible(StartExpires)
    /\ receipt' = Fresh("staging", boot)
    /\ pc' = [pc EXCEPT ![c] = "staging"]
    /\ UNCHANGED <<init, manifest, memVars, hostVars, boot, clockVars, faults>>

(* Staging succeeded: Prepared is durable, the lock is released.           *)
PrepareDone(c) ==
    /\ pc[c] = "staging"
    /\ receipt' = [receipt EXCEPT !.state = "prepared"]
    /\ pc' = [pc EXCEPT ![c] = "spawn"]
    /\ UNCHANGED <<init, manifest, memVars, hostVars, boot, clockVars, faults>>

(* Staging failed: the allocation is fenced and cleaned up.                *)
PrepareFailed(c) ==
    /\ pc[c] = "staging" /\ Fault
    /\ receipt' = [receipt EXCEPT !.state = "fenced"]
    /\ pc' = [pc EXCEPT ![c] = "cleaning"]
    /\ UNCHANGED <<init, manifest, memVars, hostVars, boot, clockVars>>

(* prepare with a record returns it; launch then chooses by what it read,  *)
(* which may be stale when it acts on it.                                  *)
PrepareExisting(c) ==
    /\ pc[c] = "idle" /\ init[c] = "none" /\ LockFree
    /\ receipt.state \notin {"none", "stopped"}
    /\ \/ receipt.state # "prepared" /\ pc' = [pc EXCEPT ![c] = "reconcile"]
       \/ /\ receipt.state = "prepared" /\ receipt.boot = boot
          /\ pc' = [pc EXCEPT ![c] = "spawn"]
    /\ UNCHANGED <<init, diskVars, memVars, hostVars, boot, clockVars, faults>>

(* A caller that only prepares (the supervisor, before it starts the       *)
(* wrapper) is done.                                                       *)
PrepareReturns(c) ==
    /\ pc[c] = "spawn"
    /\ pc' = [pc EXCEPT ![c] = "idle"]
    /\ UNCHANGED <<init, diskVars, memVars, hostVars, boot, clockVars, faults>>

(* launch: the wrapper forks the namespace init and waits for it.          *)
SpawnInit(c) ==
    /\ pc[c] = "spawn"
    /\ pc' = [pc EXCEPT ![c] = "waiting"]
    /\ init' = [init EXCEPT ![c] = "forked"]
    /\ UNCHANGED <<diskVars, memVars, hostVars, boot, clockVars, faults>>

(* child.wait returned: launch goes on to reconcile.                       *)
InitReaped(c) ==
    /\ pc[c] = "waiting" /\ init[c] = "none"
    /\ pc' = [pc EXCEPT ![c] = "reconcile"]
    /\ UNCHANGED <<init, diskVars, memVars, hostVars, boot, clockVars, faults>>

(* Manifest::reconcile with a free lock.  A stopped record is returned.    *)
Reconcile(c) ==
    /\ pc[c] = "reconcile" /\ LockFree /\ receipt.state # "none"
    /\ \/ /\ receipt.state = "stopped"
          /\ pc' = [pc EXCEPT ![c] = "idle"]
          /\ UNCHANGED receipt
       \/ /\ receipt.state # "stopped"
          /\ receipt' = [receipt EXCEPT !.state = "fenced"]
          /\ pc' = [pc EXCEPT ![c] = "cleaning"]
    /\ UNCHANGED <<init, manifest, memVars, hostVars, boot, clockVars, faults>>

(* The lock is busy: OwnershipBusy, and the wrapper exits.                 *)
ReconcileBusy(c) ==
    /\ pc[c] = "reconcile" /\ ~LockFree
    /\ pc' = [pc EXCEPT ![c] = "idle"]
    /\ UNCHANGED <<init, diskVars, memVars, hostVars, boot, clockVars, faults>>

(* fence_unstarted with an unfinished record.                              *)
FenceRecord(c) ==
    /\ pc[c] = "idle" /\ LockFree
    /\ receipt.state \notin {"none", "stopped"}
    /\ receipt' = [receipt EXCEPT !.state = "fenced"]
    /\ pc' = [pc EXCEPT ![c] = "cleaning"]
    /\ UNCHANGED <<init, manifest, memVars, hostVars, boot, clockVars, faults>>

(* fence_unstarted with no record: the manifest, then a Stopped record.  A *)
(* directory with a file of unknown origin proves nothing.                 *)
FenceAbsent(c) ==
    /\ pc[c] = "idle" /\ LockFree
    /\ receipt.state = "none" /\ group = 0 /\ ~manifest
    /\ manifest' = TRUE
    /\ pc' = [pc EXCEPT ![c] = "manifest"]
    /\ UNCHANGED <<init, receipt, memVars, hostVars, boot, clockVars, faults>>

FenceWrite(c) ==
    /\ pc[c] = "manifest"
    /\ receipt' = Fresh("stopped", boot)
    /\ manifest' = FALSE
    /\ pc' = [pc EXCEPT ![c] = "idle"]
    /\ UNCHANGED <<init, memVars, hostVars, boot, clockVars, faults>>

(* finish_cleanup: kill a populated cgroup, but only one whose host boot   *)
(* and inode the record pins.                                              *)
CleanKill(c) ==
    /\ pc[c] = "cleaning" /\ group # 0 /\ vm \in {"alive", "dying"}
    /\ receipt.boot = boot /\ receipt.inode = group
    /\ vm' = "dying"
    /\ UNCHANGED <<callVars, diskVars, memVars, group, made, boot, clockVars, faults>>

(* Mutant of CleanRemove: cleanup does not wait for an empty cgroup.       *)
CleanRemoveUnwaited(c) ==
    /\ pc[c] = "cleaning"
    /\ group' = 0
    /\ pc' = [pc EXCEPT ![c] = "removed"]
    /\ UNCHANGED <<init, diskVars, memVars, made, vm, boot, clockVars, faults>>

(* finish_cleanup: an absent or empty cgroup; it and the run files go.     *)
CleanRemove(c) ==
    /\ pc[c] = "cleaning"
    /\ group # 0 => vm \notin {"alive", "dying"}
    /\ group' = 0
    /\ pc' = [pc EXCEPT ![c] = "removed"]
    /\ UNCHANGED <<init, diskVars, memVars, made, vm, boot, clockVars, faults>>

(* finish_cleanup: Stopped, the only record with cleanup_confirmed.        *)
CleanStop(c) ==
    /\ pc[c] = "removed"
    /\ receipt' = [receipt EXCEPT !.state = "stopped"]
    /\ pc' = [pc EXCEPT ![c] = "idle"]
    /\ UNCHANGED <<init, manifest, memVars, hostVars, boot, clockVars, faults>>

(* The caller dies, or returns an error: every early return on this path   *)
(* leaves the disk as it is and releases the lock.                         *)
CallerFails(c) ==
    /\ pc[c] # "idle" /\ Fault
    /\ pc' = [pc EXCEPT ![c] = "idle"]
    /\ UNCHANGED <<init, diskVars, memVars, hostVars, boot, clockVars>>

-----------------------------------------------------------------------------
(* The namespace init *)

(* What the kernel does when namespace init exits: the flock is released,  *)
(* a jailer that has not joined the cgroup is gone, and members of the     *)
(* cgroup are doomed (the kernel kills them in a step of its own).         *)
Doomed == CASE vm = "joining" -> "gone"
            [] vm = "alive"   -> "dying"
            [] OTHER          -> vm

Exit(c) ==
    /\ init' = [init EXCEPT ![c] = "none"]
    /\ IF init[c] \in InitHolds
       THEN /\ vm' = Doomed /\ deadline' = Unarmed
            /\ mem' = Absent /\ renewing' = Idle /\ hellos' = {}
       ELSE UNCHANGED <<vm, memVars>>

(* Mutant of InitLock: trusts what the wrapper read before the fork.       *)
InitLockStale(c) ==
    /\ init[c] = "forked" /\ LockFree
    /\ init' = [init EXCEPT ![c] = "owned"]
    /\ UNCHANGED <<pc, diskVars, memVars, hostVars, boot, clockVars, faults>>

(* namespace_init: takes the lock and rechecks what the wrapper had read.  *)
InitLock(c) ==
    /\ init[c] = "forked" /\ LockFree
    /\ receipt.state = "prepared" /\ receipt.boot = boot
    /\ init' = [init EXCEPT ![c] = "owned"]
    /\ UNCHANGED <<pc, diskVars, memVars, hostVars, boot, clockVars, faults>>

InitRefused(c) ==
    /\ init[c] = "forked"
    /\ ~(LockFree /\ receipt.state = "prepared" /\ receipt.boot = boot)
    /\ init' = [init EXCEPT ![c] = "none"]
    /\ UNCHANGED <<pc, diskVars, memVars, hostVars, boot, clockVars, faults>>

(* The deadline, the cgroup and the watchdog thread.                       *)
InitArm(c) ==
    /\ init[c] = "owned" /\ Convertible(receipt.expires) /\ group = 0
    /\ deadline' = Convert(receipt.expires)
    /\ made' = made + 1 /\ group' = made + 1
    /\ init' = [init EXCEPT ![c] = "armed"]
    /\ UNCHANGED <<pc, diskVars, mem, renewing, hellos, vm, boot, clockVars, faults>>

(* A lease that is over, or a cgroup left by a lost init: Deadline::new or *)
(* create_dir fails, init exits.                                           *)
InitArmFails(c) ==
    /\ init[c] = "owned" /\ ~(Convertible(receipt.expires) /\ group = 0)
    /\ Exit(c)
    /\ UNCHANGED <<pc, diskVars, group, made, boot, clockVars, faults>>

(* LaunchIntent pins the cgroup inode before a process can join it.        *)
InitIntent(c) ==
    /\ init[c] = "armed"
    /\ receipt' = [receipt EXCEPT !.state = "launch_intent", !.inode = group]
    /\ init' = [init EXCEPT ![c] = "intent"]
    /\ UNCHANGED <<pc, manifest, memVars, hostVars, boot, clockVars, faults>>

InitSpawn(c) ==
    /\ init[c] = "intent"
    /\ vm' = "joining"
    /\ init' = [init EXCEPT ![c] = "spawned"]
    /\ UNCHANGED <<pc, diskVars, memVars, group, made, boot, clockVars, faults>>

(* The pid file and /proc confirm Firecracker: Running is durable, control *)
(* requests are served.                                                    *)
InitConfirm(c) ==
    /\ init[c] = "spawned" /\ vm = "alive"
    /\ receipt' = [receipt EXCEPT !.state = "running"]
    /\ mem' = receipt'
    /\ init' = [init EXCEPT ![c] = "serving"]
    /\ UNCHANGED <<pc, manifest, renewing, hellos, deadline, hostVars, boot, clockVars, faults>>

(* Firecracker is gone before it was confirmed: an error, init exits.      *)
InitUnconfirmed(c) ==
    /\ init[c] = "spawned" /\ vm = "gone"
    /\ Exit(c)
    /\ UNCHANGED <<pc, diskVars, group, made, boot, clockVars, faults>>

(* The serve loop reaps Firecracker: Stopping is written, init exits.      *)
InitReaps(c) ==
    /\ init[c] = "serving" /\ vm = "gone" /\ ~renewing.on
    /\ receipt' = [mem EXCEPT !.state = "stopping"]
    /\ Exit(c)
    /\ UNCHANGED <<pc, manifest, group, made, boot, clockVars, faults>>

(* The watchdog thread: expiry fences the word, then a fenced word kills   *)
(* the cgroup and exits.                                                   *)
WatchdogExpire(c) ==
    /\ init[c] \in InitHolds \ {"owned"}
    /\ deadline > 0 /\ now >= deadline
    /\ deadline' = 0
    /\ UNCHANGED <<callVars, diskVars, mem, renewing, hellos, hostVars, boot, clockVars, faults>>

(* Mutant of WatchdogExit: the watchdog lives in the wrapper.              *)
WatchdogExitWithWrapper(c) ==
    /\ init[c] \in InitHolds \ {"owned"} /\ deadline = 0 /\ pc[c] = "waiting"
    /\ Exit(c)
    /\ UNCHANGED <<pc, diskVars, group, made, boot, clockVars, faults>>

WatchdogExit(c) ==
    /\ init[c] \in InitHolds \ {"owned"} /\ deadline = 0
    /\ Exit(c)
    /\ UNCHANGED <<pc, diskVars, group, made, boot, clockVars, faults>>

(* SIGKILL, or any error return of namespace_init.                         *)
InitDies(c) ==
    /\ init[c] # "none" /\ Fault
    /\ Exit(c)
    /\ UNCHANGED <<pc, diskVars, group, made, boot, clockVars>>

-----------------------------------------------------------------------------
(* Control requests; the registry mutex is held while renewing.on *)

Live == deadline > now /\ mem.state = "running"

(* Stop: the record is written, then the word is fenced even when the      *)
(* write failed.                                                           *)
HandleStop(c) ==
    /\ init[c] = "serving" /\ ~renewing.on
    /\ mem' = [mem EXCEPT !.state = "stopping"]
    /\ deadline' = 0
    /\ \/ receipt' = mem' /\ UNCHANGED faults
       \/ Fault /\ UNCHANGED receipt
    /\ UNCHANGED <<callVars, manifest, renewing, hellos, hostVars, boot, clockVars>>

(* Mutant of RenewPersist: the renewal takes force without its record.     *)
RenewPersistUnsaved(c, rev, expires) ==
    /\ init[c] = "serving" /\ ~renewing.on
    /\ expires < IdentityUntil /\ Live
    /\ rev > mem.rev /\ expires >= mem.expires /\ Convertible(expires)
    /\ renewing' = [on |-> TRUE, prior |-> deadline, next |-> 0,
                    rev |-> rev, expires |-> expires]
    /\ UNCHANGED <<callVars, diskVars, mem, hellos, deadline, hostVars, boot, clockVars, faults>>

(* Renew with a new revision: checked, then made durable.  A write that    *)
(* may or may not have happened fences the allocation.                     *)
RenewPersist(c, rev, expires) ==
    /\ init[c] = "serving" /\ ~renewing.on
    /\ expires < IdentityUntil /\ Live
    /\ rev > mem.rev /\ expires >= mem.expires /\ Convertible(expires)
    /\ LET renewed == Renewed(mem, rev, expires) IN
       \/ /\ receipt' = renewed
          /\ renewing' = [on |-> TRUE, prior |-> deadline, next |-> 0,
                          rev |-> rev, expires |-> expires]
          /\ UNCHANGED <<deadline, faults>>
       \/ /\ Fault /\ receipt' \in {receipt, renewed}
          /\ deadline' = 0
          /\ UNCHANGED renewing
    /\ UNCHANGED <<callVars, manifest, mem, hellos, hostVars, boot, clockVars>>

(* Deadline::extend reads the clocks and checks ...                        *)
ExtendChecks(prior, expires) ==
    Convertible(expires) /\ prior > now /\ Convert(expires) >= prior

RenewCheck(c) ==
    /\ init[c] = "serving" /\ renewing.on /\ renewing.next = 0
    /\ renewing' = IF ExtendChecks(renewing.prior, renewing.expires)
                   THEN [renewing EXCEPT !.next = Convert(renewing.expires)]
                   ELSE Idle
    /\ UNCHANGED <<callVars, diskVars, mem, hellos, deadline, hostVars, boot, clockVars, faults>>

(* Mutant of Exchangeable: a plain store in place of compare_exchange.     *)
ExchangeableAlways(prior) == TRUE

(* ... and compare_exchange, which time may have overtaken, decides.  Only *)
(* then does the registry take the renewed record.                         *)
Exchangeable(prior) == deadline = prior

RenewExchange(c) ==
    /\ init[c] = "serving" /\ renewing.on /\ renewing.next # 0
    /\ \/ /\ Exchangeable(renewing.prior)
          /\ deadline' = renewing.next
          /\ mem' = Renewed(mem, renewing.rev, renewing.expires)
       \/ /\ ~Exchangeable(renewing.prior)
          /\ UNCHANGED <<deadline, mem>>
    /\ renewing' = Idle
    /\ UNCHANGED <<callVars, diskVars, hellos, hostVars, boot, clockVars, faults>>

(* BindGuest: liveness is checked, the guest is greeted without the mutex, *)
(* and everything is checked again before the identity becomes durable.    *)
BindHello(c, b) ==
    /\ init[c] = "serving" /\ ~renewing.on /\ Live /\ vm = "alive"
    /\ hellos' = hellos \cup {b}
    /\ UNCHANGED <<callVars, diskVars, mem, renewing, deadline, hostVars, boot, clockVars, faults>>

(* Mutant of Bindable: the identity bound meanwhile is not looked at.      *)
BindableAnyGuest(b) == Live /\ wall < IdentityUntil

Bindable(b) == Live /\ wall < IdentityUntil /\ mem.guest \in {NoGuest, b}

BindCommit(c, b) ==
    /\ init[c] = "serving" /\ ~renewing.on /\ b \in hellos
    /\ hellos' = hellos \ {b}
    /\ LET bound == [mem EXCEPT !.guest = b] IN
       \/ /\ Bindable(b) /\ mem.guest # b
          /\ \/ mem' = bound /\ receipt' = bound /\ UNCHANGED <<deadline, faults>>
             \/ /\ Fault /\ deadline' = 0 /\ receipt' \in {receipt, bound}
                /\ UNCHANGED mem
       \/ /\ ~Bindable(b) \/ mem.guest = b
          /\ UNCHANGED <<mem, receipt, deadline, faults>>
    /\ UNCHANGED <<callVars, manifest, renewing, hostVars, boot, clockVars>>

-----------------------------------------------------------------------------
(* Kernel, guest and clocks (external) *)

JailerJoin ==
    /\ vm = "joining" /\ vm' = "alive"
    /\ UNCHANGED <<callVars, diskVars, memVars, group, made, boot, clockVars, faults>>

VmExit ==
    /\ vm \in {"alive", "dying"} /\ vm' = "gone"
    /\ UNCHANGED <<callVars, diskVars, memVars, group, made, boot, clockVars, faults>>

Tick ==
    /\ now < MaxNow /\ now' = now + 1
    /\ UNCHANGED <<callVars, diskVars, memVars, hostVars, boot, skew, faults>>

WallStep ==
    /\ skew' \in 0..MaxSkew
    /\ UNCHANGED <<callVars, diskVars, memVars, hostVars, boot, now, faults>>

HostReboot ==
    /\ Fault /\ boot' = boot + 1
    /\ pc' = [c \in Callers |-> "idle"]
    /\ init' = [c \in Callers |-> "none"]
    /\ mem' = Absent /\ renewing' = Idle /\ hellos' = {} /\ deadline' = Unarmed
    /\ group' = 0
    /\ vm' = IF vm = "none" THEN "none" ELSE "gone"
    /\ UNCHANGED <<diskVars, made, clockVars>>

-----------------------------------------------------------------------------
CallStep(c) ==
    \/ PrepareNew(c) \/ PrepareDone(c) \/ PrepareFailed(c)
    \/ PrepareExisting(c) \/ PrepareReturns(c) \/ SpawnInit(c)
    \/ InitReaped(c) \/ Reconcile(c) \/ ReconcileBusy(c)
    \/ FenceRecord(c) \/ FenceAbsent(c) \/ FenceWrite(c)
    \/ CleanKill(c) \/ CleanRemove(c) \/ CleanStop(c) \/ CallerFails(c)

InitStep(c) ==
    \/ InitLock(c) \/ InitRefused(c) \/ InitArm(c) \/ InitArmFails(c)
    \/ InitIntent(c) \/ InitSpawn(c) \/ InitConfirm(c) \/ InitUnconfirmed(c)
    \/ InitReaps(c) \/ WatchdogExpire(c) \/ WatchdogExit(c) \/ InitDies(c)

ControlStep(c) ==
    \/ HandleStop(c)
    \/ \E rev \in 1..MaxRevision, expires \in 1..IdentityUntil :
           RenewPersist(c, rev, expires)
    \/ RenewCheck(c) \/ RenewExchange(c)
    \/ \E b \in GuestBoots : BindHello(c, b) \/ BindCommit(c, b)

KernelStep == JailerJoin \/ VmExit \/ Tick \/ WallStep \/ HostReboot

Next == \/ \E c \in Callers : CallStep(c) \/ InitStep(c) \/ ControlStep(c)
        \/ KernelStep

Spec == Init /\ [][Next]_vars

(* The scheduling the code relies on: threads that can move do, the        *)
(* watchdog polls every 10 ms, the kernel kills what is doomed, and the    *)
(* host keeps calling fence_unstarted (Host::reconcile_one).               *)
Fairness ==
    /\ \A c \in Callers :
          /\ WF_vars(PrepareDone(c))
          /\ WF_vars(InitReaped(c)) /\ WF_vars(Reconcile(c) \/ ReconcileBusy(c))
          /\ WF_vars(FenceRecord(c)) /\ WF_vars(CleanKill(c))
          /\ WF_vars(CleanRemove(c)) /\ WF_vars(CleanStop(c))
          /\ WF_vars(InitLock(c) \/ InitRefused(c))
          /\ WF_vars(InitArm(c) \/ InitArmFails(c))
          /\ WF_vars(InitIntent(c)) /\ WF_vars(InitSpawn(c))
          /\ WF_vars(InitConfirm(c) \/ InitUnconfirmed(c))
          /\ WF_vars(InitReaps(c)) /\ WF_vars(RenewCheck(c) \/ RenewExchange(c))
          /\ WF_vars(WatchdogExpire(c)) /\ WF_vars(WatchdogExit(c))
    /\ WF_vars(JailerJoin) /\ WF_vars(vm = "dying" /\ VmExit)
    /\ WF_vars(Tick)

FairSpec == Spec /\ Fairness

-----------------------------------------------------------------------------
(* Properties *)

(* A receipt with cleanup_confirmed is the only release evidence the       *)
(* database ever gets (finish_cleanup, fence_unstarted).  Whatever crashed *)
(* or raced before it, no process of the allocation exists, its cgroup is  *)
(* gone and no namespace init is past the check that would let it launch.  *)
StoppedMeansGone ==
    receipt.state = "stopped" =>
        /\ vm \in {"none", "gone"} /\ group = 0
        /\ \A c \in Callers : init[c] \notin InitHolds

(* Recovery never kills an unproven cgroup, so a populated one must be     *)
(* provable: while a process of the allocation exists, the durable record  *)
(* names this host boot and the inode of its cgroup.                       *)
LiveVmIsProvable ==
    vm \in {"joining", "alive", "dying"} =>
        /\ group # 0 /\ receipt.inode = group /\ receipt.boot = boot

(* A renewal or binding that was acknowledged (mem) is on disk: the record *)
(* is written before the word or the registry changes.                     *)
DurableBeforeAck ==
    \A c \in Callers : init[c] = "serving" =>
        /\ receipt.rev >= mem.rev /\ receipt.expires >= mem.expires
        /\ mem.guest \in {NoGuest, receipt.guest}

(* The durable record is never behind what others rely on: recovery finds  *)
(* a live VM from it, and an acknowledged renewal or binding is in it.     *)
ReceiptIsAhead == LiveVmIsProvable /\ DurableBeforeAck

(* Zero fences the word for good: no renewal in flight revives a lease     *)
(* that expired, was stopped or failed to persist.                         *)
FenceIrrevocable == [][deadline = 0 => deadline' \in {0, Unarmed}]_vars

(* A renewal never moves the deadline of a live lease backwards, even when *)
(* the wall clock stepped between the request and the write.               *)
RenewalNeverShortens ==
    [][deadline > 0 /\ deadline' > 0 => deadline' >= deadline]_vars

(* The deadline word only moves one way: a fenced allocation is never      *)
(* rearmed in its boot, and no renewal, however late, shortens the lease.  *)
DeadlineNeverRevives == FenceIrrevocable /\ RenewalNeverShortens

(* Two handshakes in progress may have met two guests; the durable         *)
(* identity never turns into the other one.                                *)
BoundGuestStable ==
    [][receipt.guest # NoGuest /\ receipt'.guest # NoGuest
           => receipt'.guest = receipt.guest]_vars

(* The state of the allocation as the rest of the system sees it.          *)
RuntimeState ==
    IF receipt.state = "stopped" THEN "released"
    ELSE IF vm = "none" THEN "unstarted"
    ELSE IF vm = "gone" THEN "ended"
    ELSE "live"

Runtime == INSTANCE AllocationRuntime WITH runtime <- RuntimeState

(* The contract the rest of the system builds on: the virtual machine is   *)
(* launched once, ends once, and a release is final.                       *)
ImplementsRuntime == Runtime!RuntimeSpec

(* An expired or stopped allocation does not run on: the watchdog kills it *)
(* although the wrapper, the supervisor or a control thread is lost.       *)
ExpiredVmDies ==
    (vm = "alive" /\ deadline # Unarmed /\ deadline <= now) ~> (vm = "gone")

(* An allocation that is being torn down reaches the release evidence once *)
(* faults cease.                                                           *)
TeardownCompletes ==
    (receipt.state \in {"stopping", "fenced"}) ~> (receipt.state = "stopped")

(* Machines end: an expired VM dies, and a teardown reaches its receipt.   *)
MachinesEnd == ExpiredVmDies /\ TeardownCompletes
=============================================================================
