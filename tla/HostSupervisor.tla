--------------------------- MODULE HostSupervisor ---------------------------
(***************************************************************************)
(* The host supervisor: a multi-threaded server whose RPC handlers and     *)
(* maintenance pass share one journal (an in-memory map under a mutex and  *)
(* host.json on disk) and act on allocations under a per-allocation gate.  *)
(* A handler takes several critical sections of the journal with guardian  *)
(* calls and a process spawn between them; the process can crash between   *)
(* any two, a journal write can fail before or after its rename, and a     *)
(* restarted supervisor sees only what was durable.                        *)
(*                                                                         *)
(* The guardian is abstracted to the state of the allocation's directory   *)
(* and processes (Guardian models it).  Allocations belong to distinct     *)
(* sandboxes, as placement issues them; each needs one unit of capacity.   *)
(* Requests carry the identity and epoch their allocation was reserved     *)
(* with; launch permits are not required in this configuration.            *)
(***************************************************************************)
EXTENDS Integers, FiniteSets

CONSTANTS
    Allocs,         \* allocations placed on the host
    Threads,        \* worker threads (eight in the code)
    None,           \* no thread
    Requests,       \* the kinds of mutation requests that arrive
    Capacity,       \* allocations the host has room for
    MaxRev,         \* bound on claim revisions
    MaxEpoch,       \* bound on supervisor epochs
    MaxFaults       \* bound on failed journal writes and guardian file errors

ASSUME HostAssumption ==
    /\ None \notin Threads /\ IsFiniteSet(Allocs)
    /\ Requests \subseteq {"create", "inspect", "stop", "lease"}
    /\ Capacity \in Nat /\ MaxRev \in Nat \ {0} /\ MaxEpoch \in Nat \ {0} /\ MaxFaults \in Nat

VARIABLES
    epoch,      \* the configured epoch of the last started process
    alive,      \* the process runs and has opened its journal
    mem,        \* the journal's records in memory
    disk,       \* host.json
    poisoned,   \* an uncertain write: nothing is served until restart
    gate,       \* who holds each allocation's gate
    thr,        \* each worker thread
    reserved,   \* the epoch each allocation was reserved at (0: not yet)
    dir,        \* the allocation's directory and processes
    spawned,    \* guardian processes spawned for the allocation
    said,       \* release evidence the host has ever replied with
    faults

journalVars == <<mem, disk, poisoned>>
guardVars == <<dir, spawned>>
vars == <<epoch, alive, journalVars, gate, thr, reserved, guardVars, said, faults>>

Claims == {"create", "destroy", "lease"}
Records == [present : BOOLEAN, rev : [Claims -> Nat], created : BOOLEAN,
            dispatched : BOOLEAN, stopped : BOOLEAN, released : BOOLEAN]
NoRecord == [present |-> FALSE, rev |-> [k \in Claims |-> 0], created |-> FALSE,
             dispatched |-> FALSE, stopped |-> FALSE, released |-> FALSE]

Idle == [pc |-> "idle", alloc |-> None, kind |-> "none", rev |-> 0, created |-> FALSE,
         stopped |-> FALSE]

Init ==
    /\ epoch = 1 /\ alive = TRUE /\ poisoned = FALSE /\ faults = 0
    /\ mem = [a \in Allocs |-> NoRecord] /\ disk = mem
    /\ gate = [a \in Allocs |-> None] /\ thr = [t \in Threads |-> Idle]
    /\ reserved = [a \in Allocs |-> 0]
    /\ dir = [a \in Allocs |-> "none"] /\ spawned = [a \in Allocs |-> 0]
    /\ said = [a \in Allocs |-> {}]

-----------------------------------------------------------------------------
(* Threads.                                                                *)

Fault == faults < MaxFaults /\ faults' = faults + 1

Alloc(t) == thr[t].alloc
At(t, pc) == alive /\ thr[t].pc = pc
Goto(t, pc) == thr' = [thr EXCEPT ![t].pc = pc] /\ UNCHANGED gate

(* The handler returns: its gate guard is dropped.                         *)
Return(t) ==
    /\ thr' = [thr EXCEPT ![t] = Idle]
    /\ gate' = [a \in Allocs |-> IF gate[a] = t THEN None ELSE gate[a]]

(* An answer leaves the host; the maintenance pass has nobody to answer.   *)
Evidence == {"released", "fenced_absent"}
Reply(t, state) ==
    /\ Return(t)
    /\ said' = IF thr[t].kind = "reconcile" \/ state \notin Evidence THEN said
               ELSE [said EXCEPT ![Alloc(t)] = @ \union {state}]

Steady == UNCHANGED <<epoch, alive, reserved>>

(* An error reply without any effect.                                      *)
Fails(t) ==
    /\ Return(t)
    /\ Steady /\ UNCHANGED <<journalVars, guardVars, said, faults>>

(* One critical section that replaces the record and writes the journal.   *)
(* A failed write poisons the journal; what is on disk is then unknown,    *)
(* the old or the new contents.                                            *)
Save(t, r, next) ==
    /\ ~poisoned
    /\ mem' = [mem EXCEPT ![Alloc(t)] = r]
    /\ \/ disk' = mem' /\ thr' = [thr EXCEPT ![t] = next]
          /\ UNCHANGED <<poisoned, gate, faults>>
       \/ Fault /\ poisoned' = TRUE /\ disk' \in {disk, mem'} /\ Return(t)

-----------------------------------------------------------------------------
(* Requests.                                                               *)

(* owner(): the request names this host and this epoch.                    *)
Owned(a) == reserved[a] = epoch

ClaimOf(kind) == CASE kind = "create" -> "create" [] kind = "lease" -> "lease"
                   [] OTHER -> "destroy"

Request(t, a, kind, rev, pc) ==
    thr' = [thr EXCEPT ![t] = [pc |-> pc, alloc |-> a, kind |-> kind, rev |-> rev,
                               created |-> FALSE, stopped |-> FALSE]]

Receive(t, a, kind, rev) ==
    /\ At(t, "idle") /\ Owned(a)
    /\ Request(t, a, kind, rev, "gate")
    /\ Steady /\ UNCHANGED <<journalVars, gate, guardVars, said, faults>>

(* gate(): find the record, or admit and journal a new one.                *)
FindGate(t) ==
    LET a == Alloc(t)
    IN  /\ At(t, "gate") /\ ~poisoned
        /\ \/ /\ mem[a].present
              /\ Goto(t, "lock") /\ UNCHANGED <<journalVars, faults>>
           \/ /\ ~mem[a].present /\ thr[t].kind # "lease"
              /\ Save(t, [NoRecord EXCEPT !.present = TRUE], [thr[t] EXCEPT !.pc = "lock"])
        /\ Steady /\ UNCHANGED <<guardVars, said>>

(* A lease request never creates a record; its answer is no evidence.      *)
LeaseAbsent(t) ==
    /\ At(t, "gate") /\ thr[t].kind = "lease" /\ ~mem[Alloc(t)].present
    /\ Fails(t)

LockGate(t) ==
    LET a == Alloc(t)
    IN  /\ At(t, "lock") /\ gate[a] = None
        /\ gate' = [gate EXCEPT ![a] = t]
        /\ thr' = [thr EXCEPT ![t].pc = "fence"]
        /\ Steady /\ UNCHANGED <<journalVars, guardVars, said, faults>>

(* What a handler remembers of the record it read.                         *)
Snapshot(t, r, pc) ==
    [thr[t] EXCEPT !.created = r.created, !.stopped = r.stopped, !.pc = pc]

AfterFence(kind) ==
    CASE kind = "create" -> "create" [] kind = "stop" -> "halt" [] OTHER -> "observe"

(* fence(): no newer claim of the same operation has been seen.            *)
Fence(t) ==
    LET r == mem[Alloc(t)]  k == ClaimOf(thr[t].kind)
    IN  /\ At(t, "fence") /\ thr[t].rev >= r.rev[k]
        /\ Save(t, [r EXCEPT !.rev[k] = thr[t].rev], Snapshot(t, r, AfterFence(thr[t].kind)))
        /\ Steady /\ UNCHANGED <<guardVars, said>>

-----------------------------------------------------------------------------
(* Create.                                                                 *)

(* Mutant: a retry of an admitted create launches again.                   *)
CreateAgainRelaunches(t) ==
    /\ At(t, "create") /\ thr[t].created
    /\ Goto(t, "dispatch")
    /\ Steady /\ UNCHANGED <<journalVars, guardVars, said, faults>>

(* A retry of an admitted create only observes it.                         *)
CreateAgain(t) ==
    /\ At(t, "create") /\ thr[t].created
    /\ Goto(t, "observe")
    /\ Steady /\ UNCHANGED <<journalVars, guardVars, said, faults>>

(* Mutant: capacity counts only allocations whose launch was dispatched.   *)
UsedDispatched == {a \in Allocs : mem[a].dispatched /\ ~mem[a].released}

Used == {a \in Allocs : mem[a].created /\ ~mem[a].released}

(* admit(): capacity of every unreleased allocation stays reserved.        *)
Admit(t) ==
    /\ At(t, "create") /\ ~thr[t].created /\ ~thr[t].stopped
    /\ Cardinality(Used) < Capacity
    /\ Save(t, [mem[Alloc(t)] EXCEPT !.created = TRUE],
            [thr[t] EXCEPT !.pc = "prepare", !.created = TRUE])
    /\ Steady /\ UNCHANGED <<guardVars, said>>

(* manifest.prepare(): staged; or failed before the directory exists, with *)
(* a fenced directory, a cleaned one, or one that proves nothing.          *)
Prepare(t) ==
    LET a == Alloc(t)
    IN  /\ At(t, "prepare")
        /\ \/ /\ dir[a] = "none" /\ dir' = [dir EXCEPT ![a] = "staged"]
              /\ Goto(t, "dispatch") /\ UNCHANGED faults
           \/ /\ Fault /\ dir[a] = "none"
              /\ \E s \in {"none", "staged", "stopped", "partial"} : dir' = [dir EXCEPT ![a] = s]
              /\ Goto(t, "halt")
           \/ dir[a] # "none" /\ Goto(t, "halt") /\ UNCHANGED <<dir, faults>>
        /\ Steady /\ UNCHANGED <<journalVars, spawned, said>>

(* The claim's deadline passed during preparation.                         *)
PrepareLate(t) ==
    /\ At(t, "dispatch")
    /\ Goto(t, "halt")
    /\ Steady /\ UNCHANGED <<journalVars, guardVars, said, faults>>

Dispatch(t) ==
    /\ At(t, "dispatch")
    /\ Save(t, [mem[Alloc(t)] EXCEPT !.dispatched = TRUE], [thr[t] EXCEPT !.pc = "spawn"])
    /\ Steady /\ UNCHANGED <<guardVars, said>>

Spawn(t) ==
    /\ At(t, "spawn")
    /\ \/ spawned' = [spawned EXCEPT ![Alloc(t)] = @ + 1] /\ Goto(t, "wait") /\ UNCHANGED faults
       \/ Fault /\ Goto(t, "halt") /\ UNCHANGED spawned
    /\ Steady /\ UNCHANGED <<journalVars, dir, said>>

(* Up to four seconds for the guest to be bound; no answer is uncertainty. *)
WaitReady(t) ==
    /\ At(t, "wait") /\ dir[Alloc(t)] = "live"
    /\ Reply(t, "ready")
    /\ Steady /\ UNCHANGED <<journalVars, guardVars, faults>>

-----------------------------------------------------------------------------
(* Stop, and the observation every handler ends with.                      *)

(* Mutant: the stop fence is set in memory and not written.                *)
HaltInMemory(t) ==
    /\ At(t, "halt") /\ ~poisoned
    /\ mem' = [mem EXCEPT ![Alloc(t)].stopped = TRUE]
    /\ thr' = [thr EXCEPT ![t] = [@ EXCEPT !.pc = "observe", !.stopped = TRUE]]
    /\ Steady /\ UNCHANGED <<disk, poisoned, gate, guardVars, said, faults>>

(* stopped(): the stop fence is durable before anything is observed.       *)
Halt(t) ==
    /\ At(t, "halt")
    /\ Save(t, [mem[Alloc(t)] EXCEPT !.stopped = TRUE],
            [thr[t] EXCEPT !.pc = "observe", !.stopped = TRUE])
    /\ Steady /\ UNCHANGED <<guardVars, said>>

(* Never admitted: absent, for good once the stop fence is set.            *)
ObserveAbsent(t) ==
    /\ At(t, "observe") /\ ~thr[t].created
    /\ thr[t].stopped => dir[Alloc(t)] = "none"
    /\ Reply(t, IF thr[t].stopped THEN "fenced_absent" ELSE "absent")
    /\ Steady /\ UNCHANGED <<journalVars, guardVars, faults>>

ObserveReady(t) ==
    /\ At(t, "observe") /\ thr[t].created /\ ~thr[t].stopped
    /\ dir[Alloc(t)] = "live"
    /\ Reply(t, "ready")
    /\ Steady /\ UNCHANGED <<journalVars, guardVars, faults>>

(* Mutant: the fence does not ask whether the guardian is still active.    *)
ObserveFenceBusy(t) ==
    LET a == Alloc(t)
    IN  /\ At(t, "observe") /\ thr[t].created /\ dir[a] # "partial"
        /\ dir' = [dir EXCEPT ![a] = "stopped"] /\ Goto(t, "release")
        /\ Steady /\ UNCHANGED <<journalVars, spawned, said, faults>>

(* fence_unstarted() with the lifecycle lock free; a failing write can     *)
(* leave a new directory that proves nothing.                              *)
ObserveFence(t) ==
    LET a == Alloc(t)
    IN  /\ At(t, "observe") /\ thr[t].created /\ dir[a] \notin {"live", "partial"}
        /\ \/ dir' = [dir EXCEPT ![a] = "stopped"] /\ Goto(t, "release") /\ UNCHANGED faults
           \/ /\ Fault /\ Return(t)
              /\ dir' = IF dir[a] = "none" THEN [dir EXCEPT ![a] = "partial"] ELSE dir
        /\ Steady /\ UNCHANGED <<journalVars, spawned, said>>

(* The guardian is still active, or the directory proves nothing.          *)
ObserveUncertain(t) ==
    /\ At(t, "observe") /\ dir[Alloc(t)] \in {"live", "partial"}
    /\ Fails(t)

(* released(): journalled once, then the evidence may leave the host.      *)
Release(t) ==
    LET r == mem[Alloc(t)]
    IN  /\ At(t, "release") /\ ~poisoned
        /\ \/ r.released /\ Goto(t, "reply") /\ UNCHANGED <<journalVars, faults>>
           \/ /\ ~r.released
              /\ Save(t, [r EXCEPT !.stopped = TRUE, !.released = TRUE],
                      [thr[t] EXCEPT !.pc = "reply"])
        /\ Steady /\ UNCHANGED <<guardVars, said>>

ReplyReleased(t) ==
    /\ At(t, "reply")
    /\ Reply(t, "released")
    /\ Steady /\ UNCHANGED <<journalVars, guardVars, faults>>

(* Every handler can end in an error: a poisoned journal, an expired       *)
(* claim, no capacity, a stop fence, a stale revision, changed create      *)
(* input, no readiness in time.                                            *)
Mute == {"gate", "lock", "fence", "create", "wait"}
Refuse(t) ==
    /\ alive
    /\ \/ thr[t].pc \in Mute
       \/ poisoned /\ thr[t].pc \in {"dispatch", "halt", "release"}
    /\ Fails(t)

-----------------------------------------------------------------------------
(* Release of an allocation of an older epoch.                             *)

ReceivePrevious(t, a) ==
    /\ At(t, "idle") /\ ~poisoned
    /\ reserved[a] # 0 /\ reserved[a] < epoch
    /\ mem[a].present /\ mem[a].stopped
    /\ Request(t, a, "previous", 0, "try")
    /\ Steady /\ UNCHANGED <<journalVars, gate, guardVars, said, faults>>

(* Mutant: allocations admitted but never dispatched are not picked.       *)
ReconcilePickDispatched(t, a) ==
    /\ At(t, "idle") /\ ~poisoned
    /\ mem[a].dispatched /\ ~mem[a].released /\ (mem[a].stopped \/ dir[a] # "live")
    /\ thr' = [thr EXCEPT ![t] = [pc |-> "try", alloc |-> a, kind |-> "reconcile", rev |-> 0,
                                  created |-> mem[a].created, stopped |-> mem[a].stopped]]
    /\ Steady /\ UNCHANGED <<journalVars, gate, guardVars, said, faults>>

(* reconcile_one(): pick an unreleased allocation that is not known to run *)
(* and copy its record before the gate is tried.                           *)
ReconcilePick(t, a) ==
    /\ At(t, "idle") /\ ~poisoned
    /\ mem[a].created /\ ~mem[a].released /\ (mem[a].stopped \/ dir[a] # "live")
    /\ thr' = [thr EXCEPT ![t] = [pc |-> "try", alloc |-> a, kind |-> "reconcile", rev |-> 0,
                                  created |-> mem[a].created, stopped |-> mem[a].stopped]]
    /\ Steady /\ UNCHANGED <<journalVars, gate, guardVars, said, faults>>

(* try_lock(): recovery re-reads the record under the gate, the            *)
(* maintenance pass goes on with its copy.                                 *)
TryGate(t) ==
    LET a == Alloc(t)
    IN  /\ At(t, "try")
        /\ \/ /\ gate[a] = None
              /\ gate' = [gate EXCEPT ![a] = t]
              /\ \/ /\ thr[t].kind = "previous" /\ ~poisoned /\ mem[a].stopped
                    /\ thr' = [thr EXCEPT ![t] = Snapshot(t, mem[a], "observe")]
                 \/ /\ thr[t].kind = "reconcile"
                    /\ thr' = [thr EXCEPT ![t].pc = "observe"]
           \/ /\ gate[a] # None \/ (thr[t].kind = "previous" /\ poisoned)
              /\ Return(t)
        /\ Steady /\ UNCHANGED <<journalVars, guardVars, said, faults>>

-----------------------------------------------------------------------------
(* The process, its guardians and its operator.                            *)

Crash ==
    /\ alive
    /\ alive' = FALSE
    /\ thr' = [t \in Threads |-> Idle] /\ gate' = [a \in Allocs |-> None]
    /\ UNCHANGED <<epoch, journalVars, reserved, guardVars, said, faults>>

(* What open() demands of every retained record.                           *)
Acceptable(a) ==
    /\ disk[a].released => disk[a].stopped /\ disk[a].created
    /\ disk[a].dispatched => disk[a].created
    /\ disk[a].released => dir[a] = "stopped"
    /\ disk[a].created => disk[a].present

(* open(): the epoch must advance and every retained owner is fenced.  A   *)
(* failed write leaves the process down and the disk old or new.           *)
Open ==
    /\ ~alive /\ epoch < MaxEpoch
    /\ \A a \in Allocs : disk[a].present => Acceptable(a)
    /\ epoch' = epoch + 1
    /\ mem' = [a \in Allocs |-> IF disk[a].present THEN [disk[a] EXCEPT !.stopped = TRUE]
                                                   ELSE NoRecord]
    /\ \/ disk' = mem' /\ alive' = TRUE /\ poisoned' = FALSE /\ UNCHANGED faults
       \/ Fault /\ disk' \in {disk, mem'} /\ UNCHANGED <<alive, poisoned>>
    /\ UNCHANGED <<gate, thr, reserved, guardVars, said>>

(* Placement reserves an allocation at the host's current epoch.           *)
Reserve(a) ==
    /\ alive /\ reserved[a] = 0
    /\ reserved' = [reserved EXCEPT ![a] = epoch]
    /\ UNCHANGED <<epoch, alive, journalVars, gate, thr, guardVars, said, faults>>

(* A spawned guardian takes the lifecycle lock of a staged allocation.     *)
GuardianLaunch(a) ==
    /\ spawned[a] > 0 /\ dir[a] = "staged"
    /\ dir' = [dir EXCEPT ![a] = "live"]
    /\ Steady /\ UNCHANGED <<journalVars, gate, thr, spawned, said, faults>>

GuardianEnd(a) ==
    /\ dir[a] = "live"
    /\ dir' = [dir EXCEPT ![a] = "ended"]
    /\ Steady /\ UNCHANGED <<journalVars, gate, thr, spawned, said, faults>>

-----------------------------------------------------------------------------
Work(t) ==
    \/ FindGate(t) \/ LeaseAbsent(t) \/ LockGate(t) \/ Fence(t)
    \/ CreateAgain(t) \/ Admit(t) \/ Prepare(t) \/ PrepareLate(t) \/ Dispatch(t)
    \/ Spawn(t) \/ WaitReady(t) \/ Halt(t)
    \/ ObserveAbsent(t) \/ ObserveReady(t) \/ ObserveFence(t) \/ ObserveUncertain(t)
    \/ Release(t) \/ ReplyReleased(t) \/ TryGate(t) \/ Refuse(t)

Next ==
    \/ \E t \in Threads :
          \/ Work(t)
          \/ \E a \in Allocs :
                \/ \E kind \in Requests, rev \in 1..MaxRev :
                      Receive(t, a, kind, rev)
                \/ ReceivePrevious(t, a) \/ ReconcilePick(t, a)
    \/ \E a \in Allocs : Reserve(a) \/ GuardianLaunch(a) \/ GuardianEnd(a)
    \/ Crash \/ Open

Spec == Init /\ [][Next]_vars

(* Handlers and guardians make progress; a stop-fenced guardian is not     *)
(* renewed, so it ends; and the maintenance pass, every 100 ms, sooner or  *)
(* later finds a worker and the gate free: requests for one allocation     *)
(* arrive seconds apart.                                                   *)
Fairness ==
    /\ \A t \in Threads : WF_vars(Work(t))
    /\ \A a \in Allocs :
          /\ WF_vars(GuardianEnd(a) /\ mem[a].stopped)
          /\ SF_vars(\E t \in Threads : gate[a] = None /\ ReconcilePick(t, a))
          /\ SF_vars(\E t \in Threads : thr[t].kind = "reconcile" /\ gate[a] = None /\ TryGate(t))

FairSpec == Spec /\ Fairness

-----------------------------------------------------------------------------
(* Properties.                                                             *)

(* Every variable has its declared shape; a directory is in one of the     *)
(* states the guardian's receipts tell apart.                              *)
TypeOK ==
    /\ epoch \in Nat /\ alive \in BOOLEAN /\ poisoned \in BOOLEAN /\ faults \in Nat
    /\ mem \in [Allocs -> Records] /\ disk \in [Allocs -> Records]
    /\ gate \in [Allocs -> Threads \union {None}]
    /\ reserved \in [Allocs -> Nat] /\ spawned \in [Allocs -> Nat]
    /\ dir \in [Allocs -> {"none", "staged", "partial", "live", "ended", "stopped"}]

(* Whatever the crash left on disk, the next process accepts it: a host    *)
(* is never locked out of its own journal.                                 *)
RestartAccepts == \A a \in Allocs : disk[a].present => Acceptable(a)

Gone(a) == dir[a] = "stopped" \/ (dir[a] = "none" /\ spawned[a] = 0)

(* Release evidence that has left the host is true for ever, over crashes, *)
(* lost writes and restarts, and the fence behind it is durable.           *)
EvidenceDurable ==
    \A a \in Allocs : said[a] # {} =>
        disk[a].stopped /\ Gone(a)

(* Allocations with files or processes on the host never exceed capacity,  *)
(* whatever was forgotten by a crash.                                      *)
CapacityHolds ==
    Cardinality({a \in Allocs : dir[a] \in {"staged", "partial", "live", "ended"}}) <= Capacity

(* A guardian is spawned at most once per allocation, and only after its   *)
(* intent is on disk, so every later process knows of the machine.         *)
LaunchIsDurable ==
    \A a \in Allocs : spawned[a] <= 1 /\ (spawned[a] = 1 => disk[a].created /\ disk[a].dispatched)

(* Any journal a crash can leave is one the next process accepts, and it   *)
(* holds the intent of every launch that happened.                         *)
JournalSound == RestartAccepts /\ LaunchIsDurable

(* A fenced allocation is cleaned and journalled as released without any   *)
(* further request, unless the process stops serving or its directory      *)
(* proves nothing.                                                         *)
FencedIsReleased ==
    \A a \in Allocs :
        alive /\ mem[a].stopped /\ mem[a].created
            ~> mem[a].released \/ dir[a] = "partial" \/ poisoned \/ ~alive

RuntimeOf(a) ==
    CASE dir[a] \in {"none", "staged", "partial"} -> "unstarted"
      [] dir[a] = "stopped" -> "released"
      [] OTHER -> dir[a]

Runtime(a) == INSTANCE AllocationRuntime WITH runtime <- RuntimeOf(a)

(* The host starts a machine at most once and never after its release.     *)
RuntimeContract ==
    /\ \A a \in Allocs : Runtime(a)!RuntimeInit
    /\ [][\A a \in Allocs : Runtime(a)!RuntimeNext \/ RuntimeOf(a)' = RuntimeOf(a)]_vars
=============================================================================
