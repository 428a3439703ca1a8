# A formal model of hudson-sandbox

hudson-sandbox runs untrusted commands in Firecracker virtual machines. A user
asks an HTTP API for a sandbox; a PostgreSQL database records the request as an
*operation*; a *controller* claims the operation, reserves an *allocation* on a
host and calls the host's *supervisor*; the supervisor journals the allocation
and spawns a *guardian*, which owns the machine's namespace, cgroup, files and
lease. Everything in the chain can crash, every call can be lost or arrive late,
and the promise of the whole is small and hard: **an allocation is started at
most once, and its capacity is given to somebody else only when its machine is
gone for good.** Inside the machine an *agent* runs the user's commands; the
promise about them is of the same kind: **a command is started at most once, and
what the database says of its outcome is what happened.**

This directory holds TLA+ modules that model that chain, TLC configurations that
check it on small instances, and proofs checked by TLAPS for all values of the
constants. Paths below are relative to the repository.

## 1. Inventory

| part | source | state | operations | hard behaviour |
|---|---|---|---|---|
| store | `crates/sandbox-store` | operation, sandbox, allocation, host, command, output and upload rows | one transaction per public function | claims with leases and revisions; callers come back with stale claims; a destroy supersedes a create |
| controller | `crates/sandbox-controller` | a tick in progress: claim, configured epoch, the call it waits for | health check, maintenance tick, create/destroy/execute tick, previous-epoch recovery | crash at every await; a request outlives its caller; evidence is recorded long after it was produced |
| host supervisor | `crates/sandbox-supervisor/src/host` | journal in memory and on disk, poison flag, one gate per allocation | create, inspect, stop, lease, previous-epoch recovery, maintenance pass, command/file/archive requests, retirement | eight workers and a maintenance pass interleave; crash between journal writes; failed write after rename |
| guardian | `crates/sandbox-supervisor/src/guardian`, `lease.rs` | receipt on disk, lifecycle lock, deadline word, cgroup, processes | prepare, launch, namespace init, watchdog, control (stop, renew, bind), reconcile, fence | lock handed from process to process; watchdog races renewals; reboot, clock steps, partial writes |
| launch authority, retirement | `launch_authority.rs`, `host/authority.rs`, `host/metadata_retirement.rs`, `host/forgetting.rs`, `guardian/retirement.rs`, store `allocation_retirement` | registered serials and their state, the journal's checkpoint, deletion plans, completion and forgetting rows | register, authorize, fence, delete metadata, complete, forget | a shared and an exclusive lock; a delayed guardian; crash between any two of the durable writes; superseded claims |
| guest agent | `crates/sandbox-guest` | one receipt file per command, registry, history barrier, cgroup per command | execute, inspect, cancel, retire history, shutdown, reopen; begin, write, commit and abort an upload | a launcher joins its group while cleanup removes it; failed writes with the file in place; the agent dies under a command |
| output publication | store `output.rs`, `output_cleanup.rs`, controller and host `archive.rs` | output columns of a command, its cleanup row, the host's archive record | claim, ticket, plan, capture, upload, publish, expire, clean | takeover of a claim in the middle of an upload; late writes; publication against cleanup |
| uploads | store `uploads/`, controller `uploads.rs`, `host/files.rs`, guest `files/` | upload row, the host's file record, receipt and staged file in the guest | admit, store source, begin, write chunk, commit, abort, observe, freeze, retire source | one dispatch of each intent; a rename whose outcome is lost; a source deleted while requests are on their way |
| artifacts, cleanup | `crates/sandbox-artifacts`, `crates/sandbox-cleanup` | objects and their versions in an object store | put, verify, mark, delete version | answers lost, writes applied late |
| API, client, CLI, SDKs | `crates/sandbox-api`, `-client`, `-cli`, `sdk/` | none of their own | parse, authenticate, store a source, stream | - |

How they interact: the API writes rows; controllers read and write rows and send
gRPC requests that carry an *ownership tuple* (host, project, sandbox,
allocation, operation, generation, supervisor epoch, claim revision, deadline);
the supervisor compares the tuple with its journal, and spawns, signals and
reads the guardian through files, a lock and a Unix socket. Only two answers
change the database irrevocably: *ready*, and release evidence (*released*,
*fenced absent*).

What makes each part correct:

* guardian: a `Stopped` receipt with confirmed cleanup means that nothing of the
  allocation is left or can come; a live machine is always named by a durable
  receipt; a lease that ended is never revived, and an expired machine dies.
* supervisor: evidence that left the host is durable and stays true; a guardian
  is spawned once, after its intent is durable; capacity is never oversold;
  the next process accepts whatever a crash left; fenced allocations get cleaned.
* store: the transition pointer, the unfinished operations, the allocation and
  the charged capacity tell one story, whatever stale caller turns up.
* guest agent: a command runs once, confirmed cleanup and reported exits are
  true, and the agent accepts whatever its predecessor left on disk.
* commands: a terminal row is final and true, a "never started" stays true however
  late the Execute arrives, and a completed cancellation reports its target's end.
* outputs: what is served is whole and what the plan says; what was cleaned never
  comes back.
* uploads: the reported outcome is what the guest published, exactly once or never;
  no acknowledged byte is lost; a frozen source is quiet and stays deleted; every
  upload ends.
* retirement: a fenced serial never starts again; the three layers forget in order,
  through crashes, and do forget.
* end to end: a released allocation is gone, a success is real, a destroy ends.

## 2. Modules

| module | models |
|---|---|
| `AllocationRuntime` | the contract: unstarted → live → ended → released, each once |
| `Guardian` | one allocation's guardian: callers of `prepare`, `launch`, `reconcile`, `fence_unstarted`; the namespace init; watchdog; control threads; kernel, clocks, reboot |
| `GuardianProofs` | theorems about `Guardian` |
| `HostSupervisor` | the supervisor process: worker threads, gates, journal in memory and on disk, poisoning, crash, restart at a newer epoch |
| `HostProofs` | theorems about `HostSupervisor` |
| `StoreLifecycle` | the database rows of one sandbox; one action per store transaction |
| `Lifecycle` | composes `StoreLifecycle` (EXTENDS) with controllers, a network and an abstract host |
| `LifecycleProofs` | theorems about `StoreLifecycle`, and about `Lifecycle`, to which it lifts them |
| `CommandRuntime` | the guest's contract about commands: started once, a known outcome never changes |
| `GuestRunner` | the agent's command runner: registry, receipts on disk, the task of the running command, its launcher and cgroup, restart |
| `GuestProofs` | theorems about `GuestRunner` |
| `CommandStore` | the execute and cancel rows of one allocation; one action per transaction |
| `Commands` | composes `CommandStore` (EXTENDS) with controllers, the host's command journal and a guest that follows `CommandRuntime` |
| `CommandProofs` | theorems about `Commands` |
| `Outputs` | publication and cleanup of one command's output: archivers, host workers, archive record, bucket, cleanup workers |
| `OutputProofs` | theorems about `Outputs` |
| `Retirement` | one allocation serial: launch authority, guardian, deletion of its metadata, completion and forgetting in host and database |
| `RetirementProofs` | theorems about `Retirement` |
| `Uploads` | one file upload from the API to the guest's workspace, and the retirement of its source object |
| `UploadProofs` | theorems about `Uploads` |
| `MC*` | instances for TLC |

### AllocationRuntime

Two modules are checked against this one contract and proved to implement it, each
through a refinement mapping: `Guardian` (`ImplementsRuntime`) and `HostSupervisor`
(`RuntimeContract`). The guardian's `prepared` receipt is *unstarted*, its `Stopped`
receipt is *released*. A third, `Retirement`, is proved to implement it
(`RetirementImplementsRuntime`); there a fenced serial is *released* too, once its machine
is gone. `Lifecycle` stands above the contract: the machine of its abstract host makes
the contract's moves by definition, so nothing is claimed of it there.

### Guardian

A *caller* is a process that runs `launch` (prepare, then spawn the namespace
init) or a thread of the supervisor in `fence_unstarted`/`reconcile`. `pc[c]` is
where the call is, `init[c]` where its namespace init is; both are cut at the
points where another process can see a difference (lock taken, receipt written,
group created or removed, process spawned). The `flock` itself is not a variable:
it is held exactly at the program points in `CallHolds` and `InitHolds`.
`receipt` is the durable record, `mem` what the serving init answers from,
`deadline` the atomic word of `lease.rs` (0 is the irrevocable fence), `renewal`
a control thread between its checks and its compare-and-exchange. Clocks: `now`
is boot time, the wall clock is `now + skew` and steps. A fault is a failed write
or a process that dies; `HostReboot` ends every process and starts a new boot id.

Taken from outside the repository: the kernel kills the members of a PID
namespace with its init; a jailer that has not joined the cgroup dies with it, one
that has joined dies in a later step; `cgroup.kill` kills all members.

### HostSupervisor

A worker's handler is split at every critical section of the journal mutex
(find the record, claim fence, admit, dispatched mark, stop mark, release) and at
every guardian call. `Save` is one critical section: memory changes, and either
the disk follows or the journal is poisoned with the old or the new contents on
disk. `Open` is a restart: it demands what `journal.rs` demands of every retained
record, fences all of them and needs an advanced epoch. `reconcile_one` takes its
copy of the record before the gate, as the code does. `dir` abstracts the
guardian to what `fence_unstarted` and `control` can tell apart. Requests carry
any claim revision, so reordered and repeated requests are included. `Refuse` is
every early error return (deadline, stale revision, stop fence, capacity, changed
input, record limits).

### StoreLifecycle

One action per transaction. The transactions lock the rows they read, so they are
atomic. Parameters are what the caller brings, and in `StoreSpec` the caller is
arbitrary: any revision, any configured epoch. Time is "a lease has run out",
possible in every state. `next_retry_at` only delays and is left out.
Authorization, image and health checks that can fail for outside reasons are
"the transaction may not happen". One sandbox has one allocation in its life:
placement reserves at generation 0 only. A destroy of a destroyed sandbox and an
admission refused as busy change no modelled row.

### Lifecycle

A controller's tick is one step per transaction, call and answer. `net` holds the
requests that were sent; they may be delivered after the caller gave up. A host
handler holds the allocation's gate from fence to answer, so it is two steps here;
its inside is `HostSupervisor`. `AnswerReleased`, `HostReconcile`, `GuardianLaunch` and
`GuardianEnd` take from `AllocationRuntime` what may happen to the machine, and when a
release may be answered; that the supervisor and the guardian keep to it is their
modules' theorem and this module's assumption. The code runs maintenance and then one operation
per tick; here these are separate ticks, which only adds interleavings. A
supervisor restart advances the epoch and fences the record; the operator then
provisions the epoch in the database.

### GuestRunner

`mem` is the registry under the agent's mutex, `disk` the receipt files; a failed
write leaves either the old or the new file. `task` is the task of the running
command from `execute` through `cleanup` and `reap` to the commit; it shares
nothing with the requests but the watch channel (`signal`) and the final commit.
`proc` is the launcher: it joins the command's cgroup on its own, becomes the
command, and exits; it can outlive the agent. Cleanup is two steps (kill the group,
remove it), because a launcher can join between them. `OpenBegins`, `RecoverKills`,
`RecoverMarks` and `OpenReady` are `Runner::open`. Operation ids are numbers, since
a history barrier compares them. `Seen` is what a caller sees of a command, and the
refinement mapping to `CommandRuntime` (`ContractHolds`, checked and proved).

### CommandStore and Commands

`CommandStore` has no next-state relation of its own: `Commands` takes its
transactions through a controller's tick (claim, prepare, call, record), one step
per transaction, call and answer. `net` holds requests to the host, `wire` Execute
calls to the guest; both outlive their callers. A handler of the host holds the
allocation's gate from the claim fence to its answer (`busy`), and is cut at the
journal write, at the call to the guest and at its answer. The wall-clock checks of
a claim may fail whenever they are made. A host that restarts has a newer epoch and
refuses all command requests of the allocation, so an undispatched command is
deferred and a dispatched one becomes unknown. The guest is an abstraction of the
runner whose outcomes make the moves of `CommandRuntime`, all but retirement: a command
starts when its Execute arrives and nothing runs, and becomes unknown once it was called.
That the runner makes no other moves is what `GuestRunner` shows (`ContractHolds`); that
the abstract guest covers every order in which the runner can make them is argued from
the two modules and not stated by a theorem.

Two mechanisms keep a delayed Execute out after "never started" was reported: the
claim fence (`fence`) and the tombstone record that `inspect_or_cancel` commits.
On the run's instance each is enough alone, and without both
`NeverStartedIsTrue` fails; so dropping one of them is no mutant of that property,
and its mutant ignores the dispatch intent instead.

### Outputs

One command that has completed at time 0. `row` and `clean` are the output columns
and the cleanup row; a transaction is one step. An archiver claims, gets a ticket
(attempt and expiry), asks the host to capture, saves the plan, asks the host to
upload, and publishes; its host request (`wk`) is cut at the journalled takeover
(`Setup`), at each read and write of the bucket and at the final journal write. A
write enters `puts` and is applied now, later or never, so the confirming read is
what makes it known. Cleanup freezes the inventory, waits for the grace, writes a
*marker* over each key by a conditional write and deletes the version below it: the
marker is what stops a late create-only write. `Digests` are the contents a capture
may find; a guest that answers differently the second time is included.
`lapsed` are claims whose lease time has passed while the row still shows them.

### Retirement

`auth` is the root's authority file, `check` the copy of its frontier in the host's
journal, `rec` the allocation's journal record, `disk` which of the guardian's three
files exist, `gd` where the guardian process is. A lock is not a variable: the
exclusive one is held at the program point `delete`, the shared one at the points in
`Sharing` and by a guardian that is about to launch. The guardian asks for its permit
three times, as the code does (prepare, spawn, namespace init). Forgetting stops after
any of its three durable writes; a restart loads the journal, advances the epoch and
compares journal, authority file and directories, and refuses to start if they do not
fit (`RetainedValid`). Database claims lapse and are replaced; requests and answers of
the old claim stay in `net` and `answers`.

### Uploads

The clock has four phases: the source may be written; the operation may act; its
deadline has passed; every claim issued before the deadline has run out. A
controller's tick is claim, prepare (which picks one of source, begin, write, commit,
abort, inspect), call, observe. Begin, commit and abort go to the guest once each;
after that the host and the database only inspect. The guest's operations are cut at
each file operation (staged file, receipt, rename), since the agent may die between
any two. A claim revision only matters by its order among the revisions still in use,
so `Claim` numbers it one above those; `MaxClaims` bounds how many are in use at once
and not how often the upload is claimed, which is what lets liveness be checked.

An observation that is not a property of a run: the source object may be written and
never accepted, when the controller arrives after the write deadline. The upload ends
`file_not_started`; cleanup finds the object and records it as `previous`, while the
frozen row has selected nothing. `cleanup::validate_retired` demands that the two are
equal, so `history/evidence.rs` answers `Error::Evidence` for this upload from then on,
although its `!begun` branch is there to reclaim exactly such uploads, and the
contiguous prefix of its allocation's file history ends before it. The data is kept, so
this is fail-closed. `RetiredIsReclaimable` states it; added to the invariants of
`MCUploads.cfg` it is violated in 14 states without any fault.

## 3. Runs

| run | question | instance |
|---|---|---|
| `guardian_safety` | lock, crash, reboot and renewal races around one allocation | 2 callers, 2 guest boots, leases of 3 ticks, 2 faults |
| `guardian_liveness` | expired machines die, teardowns end | 2 callers, 1 fault |
| `host_journal` | evidence, launch intent, restart, contract | 1 allocation, 2 threads, all requests, 2 revisions, 3 epochs, 1 failed write |
| `host_capacity` | capacity across crashes | 2 allocations for room for one, 2 threads |
| `host_liveness` | fenced allocations get released by maintenance | 1 allocation, 2 threads |
| `lifecycle_safety` | release and success are real end to end, over host restarts; rows agree and stay final | 2 controllers, 2 claims, 2 epochs, 2 faults |
| `lifecycle_liveness` | destroys complete | 1 controller, 4 claims, 3 stops, 2 epochs, 1 fault |
| `guest_runner` | runs once, true receipts, reopen, contract; accepted commands end | 2 commands, 2 faults |
| `commands` | dispatch, observation and cancellation races end to end; journal slots against admission | 2 commands for 1 slot, 1 cancellation, 2 controllers, 2 claims, 2 faults |
| `outputs` | publication against takeover, late writes and cleanup | 2 archivers, 2 host workers, 1 cleaner, 2 contents, 2 claims, 1 fault, versioned bucket |
| `retirement` | no start after the fence, true completions, restart, and forgetting ends | 2 host workers, 2 deletion claims, 1 forget claim, 2 epochs, 1 fault |
| `uploads` | true outcome, kept bytes, quiet and final source; the upload ends unless its guest or host is gone for good (`Unresolved`) | 2 controllers, 1 cleaner, 1 chunk, 2 revisions in use, 1 fault, versioned bucket |

The type invariant is proved for every module. Several of the checked formulas are conjunctions of properties
that belong together (`ReceiptIsAhead`, `RowsConsistent`, `StagingIsKept`, ...); each
part is stated and commented on its own.

The bounds: two callers, threads or controllers are one that acts and one that
overtakes it; the code has no case that needs three at one allocation, because
all waiting is on one lock, gate or claim. Two claims are a stale and a current
one; two epochs an old and a new one (three in `host_journal`, so that a restart
can meet what an earlier restart left). A lease of three ticks leaves room to
renew, to let it expire and to step the clock. Two claims of a command are the one that dispatched it and the one
that resolves it, and the last one can still be lost and late. Two commands in the guest are one that runs and one that
is refused, follows, or is behind the history barrier. `MaxCommands` stands for the
32 retained commands of an allocation and `MaxRecords` for the receipts the agent
keeps. `MaxStops` stands for the 100 stop
attempts of `prepare_destroy`. One chunk of a file is enough for a cursor that can be
behind, at and (wrongly) ahead of the staged bytes, and for a write that is repeated.
One fault in the newer runs is one death, timeout, refusal or lost answer at any step;
late delivery of a request or of a bucket write is free and needs no fault. Symmetry is used over threads, allocations and
controllers in safety runs only. Deadlock is not checked: every instance ends
when its claims, epochs and faults are used up, and a released allocation is an
end in the system too.

### Fairness

* guardian: threads that can move do; the watchdog polls every 10 ms; the kernel
  finishes killing; boot time advances; the host keeps calling `fence_unstarted`
  (its maintenance pass runs every 100 ms). Faults and reboots are not fair.
* supervisor: handlers run to their end (they are plain threads and every wait has
  a timeout); a guardian whose record is stop-fenced ends, because
  `lease_sync` renews no stopped record and leases last at most five minutes;
  and, strongly fair, the maintenance pass finds a free worker and gate sooner or
  later. Weak fairness would not do, because requests can take the gate between
  its attempts; strong fairness is justified by the 100 ms period against
  controllers that retry after seconds.
* guest: only the task of the running command is fair. The agent polls it, its
  waits have deadlines, and cleanup gives up after a bound (the receipt is then
  unknown). The command's process owes nothing, and the agent may die.
* retirement: host workers, guardian, restart and the controller's retirement ticks
  move; lapsed claims are replaced. Two steps that wait for the allocation's gate (a
  mutex) are strongly fair: the mutex is not held for ever, but another request may
  take it between two looks.
* uploads: controllers tick, the host answers, so does the guest's service while it
  is up, time passes and the cleanup loop runs; strongly fair only for the claim of
  cleanup, which an operation's own claim disables now and then. Faults, eligibility,
  stops and the reopening of the guest's service are not fair: `boot.rs` runs the agent
  once and gives up when it exits (`docs/guest-bootstrap.md`: "Agent exit is not an
  automatic workload restart or replay"), and a transfer engine fenced by a failed
  metadata write stays fenced as long as its agent runs.
* lifecycle: controllers keep ticking, the host answers what it takes up,
  abandoned claims expire, the operator provisions a new epoch. Faults are finite.

`DestroyCompletes` has one exception, stated as `Unprovable`: a host that moved to
a newer epoch without a record of the allocation has nothing to prove absence
with, and `previous.rs` refuses. `docs/real-supervisor.md`
says so: "Missing journal entries and inconsistent ownership fail closed".

`EventuallyForgotten` exempts a directory that a crash tore (`Torn`): between the
receipt and `manifest.json` of `prepare`, or between `manifest.json` and the receipt of
`fence_unstarted`. `Session::open` refuses it, and no document promises otherwise.
`UploadSettles` exempts what the code leaves unknown on purpose (`Unresolved`): a host
that moved to another epoch, a stopped machine, a file service that is down or fenced and
stays so, a rename whose outcome is uncertain, and an abort, dispatched once, that never
reached the guest. The source is retired even then, and the run shows for its instance
that there is no other way to stay open.

## 4. Proofs

`GuardianProofs` proves, for every set of callers and all values of the bounds:
the types, `StoppedMeansGone`, `ReceiptIsAhead` (`LiveVmIsProvable` and
`DurableBeforeAck`), `DeadlineNeverRevives` (`FenceIrrevocable` and
`RenewalNeverShortens`), `BoundGuestStable`, and that
`Guardian` implements `AllocationRuntime`. Assumptions: `GuardianAssumption`
(types and order of the constants). The inductive invariant `IInv` says that at
most one process holds the lifecycle lock, in one role; what the holder's program
point implies for the receipt, the group and the machine (`CallerKnows`,
`InitKnows`); that a machine that is joining or alive has an init that owns it
(`VmHasInit`); and that the deadline word belongs to an armed init. It is needed
because `StoppedMeansGone` alone does not survive `CleanStop`: only the knowledge
of how the caller came to hold the lock rules out a live machine there.
`ControlKnows` adds what a control thread in the middle of a renewal or a binding
knows about the durable record; it carries the two theorems about the deadline word,
durability and guest binding.

`LifecycleProofs` proves about `StoreLifecycle`, for any number of claims, epochs and stop attempts:
`StoreTypeOK`, `RowsConsistent` (`ActiveIsOwner`, `SupersededIsOwned`,
`CapacityIsOwned`, `DispatchedOnce`), `FinalIsFinal` and `ClaimsAreFresh`. They are
about `StoreSpec`, in which the caller of a transaction is arbitrary;
`LifecycleImplementsStore` lifts them to the callers the system has, for which the run
`lifecycle_safety` checks the same formulas. Assumption:
`StoreAssumption`. The invariants hold together: each needs the others (a
completed destroy keeps `CapacityIsOwned` only because an uncertain create that is
not the transition pointer's must be superseded), plus `Books`: rows not yet
inserted are blank, the desired state follows the admitted operations, and
finished or superseded operations hold no lease.

`HostProofs` proves, for any finite set of allocations and any number of threads, claim
revisions, epochs and failed writes: the types, `JournalSound`, `EvidenceDurable`,
`CapacityHolds`, and that the supervisor implements `AllocationRuntime` for each
allocation. Assumption: `HostAssumption`. The properties relate the disk to the
directories, while a handler acts on what it remembers of the record in memory;
`HostInv` closes the gap. `Gated`: a handler past the gate holds it, so what it
remembers is current. `Journal`: an unpoisoned journal has memory equal to disk, a
poisoned one is never written again. `Handling`: what each handler's program point
implies for the record. `Files`: a directory has a record on disk, a spawn its
dispatched mark, a release a stopped directory. Capacity needs one more invariant,
`Room`: what is reserved fits, both in memory and on disk, since either may be what
the next process counts.

`LifecycleProofs` goes on to prove about `Lifecycle`, for any number of controllers,
claims, epochs and faults: the types, `OutcomesAreReal`, `EvidenceHolds`, `RowsConsistent`,
`FinalIsFinal`, and that the composed system implements `StoreLifecycle`. Assumptions:
`StoreAssumption`, `LifecycleAssumption`, and, built into the host's actions, the contract
`AllocationRuntime`, which `HostProofs` and `GuardianProofs` prove of the two parts that
keep it. Each step is shown to be a
transaction of `StoreNext` or to leave the rows alone. `LifeInv` adds to the store's
invariant `HostOK` (intent, request, record, spawn and launch each imply the ones before,
so nothing of a create reaches the host ahead of its committed intent), `Concluded`
(what the rows conclude is so) and `Ticks` (the evidence a tick carries is true, and
stays true because it is only given behind the fence).

`GuestProofs` proves, for any number of commands, retained records and faults: the
types, `RunsOnce`, `ReceiptsAreTrue`, `Reopenable`, and that the runner implements
`CommandRuntime`. Assumption: `GuestAssumption`. `GuestInv` is one statement per command
(`CommandOK`: its processes are inside its cgroup or cannot join it any more, its receipts
in memory and on disk are true, and how the two may differ after a failed write) and one
about the agent (`Controlled`: barrier and floor, and what the task knows at each of its
places). It is needed because `ReceiptsAreTrue` says nothing of the window between
killing and removing the group, where a launcher may still join.

`CommandProofs` proves, for any finite set of commands and any number of cancellations,
controllers, claims and faults: the types, `NeverStartedIsTrue`, `AnswersAreTrue`,
`CalledOnce`, `TerminalIsFinal` and `DispatchedHasRoom`. Assumptions: `CommandAssumption`,
`ControllersAssumption`. `CommandInv` follows the evidence: a row gets its dispatch intent
before anything of it reaches the host (`Rows`), the host journals a record before it
calls the guest, and that record is fenced or pending for good (`Journalled`), and what a
tick is about to record is already true (`Ticks`). `DispatchedHasRoom` adds that the
admitted commands fit the slots and only admitted ones have a record.
The guest's actions are moves of `CommandRuntime` by definition; `GuestProofs` proves the
contract of the runner.

`OutputProofs` proves, for any number of archivers, host workers, cleaners, contents,
claims and faults, and for versioned and unversioned buckets: the types,
`PublishedIsReadable`, `CleanedStaysClean`, `UploadMatchesPlan` and `ExpiredIsFinal`.
Assumption: `OutputsAssumption`. `OutInv` says what a suspended process may rely on: the
ticket and the plan it carries are the row's, what it saw confirmed is still there unless
the row has expired, and what it buried stays buried. Nothing in it mentions the clock:
leases and deadlines decide who goes first, and safety does not rest on them. `Grows`
lists what no step undoes; every process that a step leaves alone keeps its part of the
invariant by it.

`RetirementProofs` proves, for any number of host workers, claims, epochs and faults: the
types, `CompletionsAreReal`, `Restartable` and `FencedStaysDown`. Assumption:
`RetirementAssumption`. `RetInv` relates the epochs, the database row, the authority file,
the journal record and the deletion plan (`Shared`), what requests and replies on their
way still mean (`Messages`), and what each worker knows under the gate and the two locks
(`Threads`). Its centre: a claim that was ever issued is no later than the row's, in
revision and epoch, and a reply that says *removed* implies that the files are gone and
that its claim is no later than the one in the record. So when the database accepts a
completion, the record was retired under that very claim, and a superseded worker cannot
have moved it. `RetirementImplementsRuntime` shows that `Retirement` implements
`AllocationRuntime`. `RuntimeState` maps a machine that is not there to *released* when
its receipt says Stopped or its serial is fenced, and to *unstarted* otherwise. The proof
adds to `RetInv` that a machine has a running guardian, and none exists before the launch
(`MachineOK`), and that a Stopped receipt stays where it is, or the serial is fenced, and
is never met by `prepare` (`StoppedOK`): a directory is staged only for a record without a
manifest, and whoever writes a Stopped receipt for an active serial has one.

`UploadProofs` proves, for any number of controllers, chunks, claims and faults, any
finite set of cleaners, and for versioned and unversioned buckets: the types,
`OutcomeIsReal`, `StagingIsKept`, `RetiredStaysRetired` and `FrozenIsQuiet`. Assumption:
`UploadsAssumption`; the cleaners are finitely many because a cleanup claim is numbered
above all that are in use. `UpInv` follows the evidence from the guest outwards. The
receipt and the worker's place in its job fix how often the file was renamed
(`GuestOK`); the host's record is no better than the receipt, and one that is fenced or
missing means that the guest was never called (`HostOK`); every answer on its way is
still true, and every request that changes the guest was sent before the deadline, so
that none is left when the grace is over (`Messages`); nothing is sent before
`begin_requested` is in the row, and a final status has its reason in the guest or in the
fence (`RowOK`); a marker over the source is final, and a cleaner past a step knows its
effect (`Sources`). It is needed because `OutcomeIsReal` speaks of the row and the rename
only, while a controller records an answer given long before: only an answer that cannot
become false makes that step safe. Claims and leases do not occur in it: they decide who
acts, and safety does not rest on them.

The inductive invariants also hold under TLC on the instances of the safety runs: TLC is
the quicker judge of a strengthening that is wrong. Where a `Spec` has fairness, the
theorems use only its safety part.

Every safety property that a run checks is thereby proved. Only model-checked is
liveness, which is out of the prover's reach: `MachinesEnd`, `FencedIsReleased`,
`DestroyCompletes`, `AcceptedEnds`, `EventuallyForgotten`, `UploadSettles`.

## 5. Not modelled

* Retirement of command and file history (the barrier that store, host and guest
  advance one after the other); in `GuestRunner` the guest's part of it is modelled.
* Downloads, live output and streams: they read and keep nothing.
* Bytes, limits and budgets of outputs and files. A failed capture is one of the ways
  a run ends unknown.
* Several outputs, uploads or serials at once: rows, records and keys are per
  operation, and the shared budgets are left out.
* Liveness of output publication: it may give up at its deadline by design.
* In `Commands`, retirement of history (it would free journal slots) and liveness:
  claims are numbered and bounded there, and a command whose host moved on stays
  unknown by design.
* Placement among several hosts and the arithmetic of capacities; `HostSupervisor`
  gives each allocation one unit.
* The previous-generation check of `admit`: one sandbox has one allocation.
* Renewal deadlines as numbers in the store; the guardian has them.
* Framing, TLS, JSON, hashing, digests, authentication, HTTP, streaming, the fake
  host, SDKs and scripts.
* A crash in the first journal write ever, which leaves `journal.next` without
  `host.json` and which every later start refuses.
* What the code gives up on by choice: a destroy whose 100 stop attempts all failed,
  and a command whose host moved to a newer epoch, which stays unknown.

## 6. Plan

1. done: guardian, store rows, supervisor, lifecycle; guest runner and commands end
   to end; output publication and cleanup; uploads and their sources; launch
   authority and allocation retirement; proofs of the safety properties of all of these.
2. History retirement of commands and files: the barrier in store, host and guest, and
   with it the eligibility question of section 2, *Uploads*.
