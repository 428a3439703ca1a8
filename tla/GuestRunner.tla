---------------------------- MODULE GuestRunner -----------------------------
(***************************************************************************)
(* The command runner of the agent inside a virtual machine.  It journals  *)
(* one receipt per command, runs one command at a time in a cgroup of its  *)
(* own, and answers Execute, Inspect, Cancel and RetireHistory from an     *)
(* in-memory registry under one mutex.  The task that runs a command takes *)
(* that mutex only to commit its result; the launcher process joins the    *)
(* cgroup on its own, so a cleanup can race with it; the agent can die at  *)
(* any point and leave the launcher behind; and a write of a receipt can   *)
(* fail before or after its rename.                                        *)
(*                                                                         *)
(* Operation ids are ordered (they are time-ordered UUIDs), which is what  *)
(* a history barrier relies on.  Output bytes and the files they go to are *)
(* left out; a failed capture is one of the ways a run fails.              *)
(***************************************************************************)
EXTENDS Integers, FiniteSets

CONSTANTS
    LastOp,         \* operation ids are 1..LastOp
    MaxRecords,     \* receipts the agent retains
    MaxFaults       \* bound on failed writes, failed cleanups and agent deaths

ASSUME GuestAssumption == LastOp \in Nat \ {0} /\ MaxRecords \in Nat /\ MaxFaults \in Nat

Commands == 1..LastOp
None == 0

VARIABLES
    agent,      \* "down", "opening" (Runner::open) or "up"
    mem,        \* the registry's receipts
    disk,       \* the receipt files
    barrier,    \* history retired through this id, in the registry
    floor,      \* the same in context.json
    active,     \* the command whose task runs
    signal,     \* the watch channel of that task: cancellation was sent
    task,       \* the task: where it is and its result so far
    failed, closed,
    closing,    \* the command an orderly shutdown still has to cancel
    proc,       \* the launcher of each command and what it became
    cgroup,     \* each command's cgroup directory exists
    ran,        \* how often each command was really executed
    report,     \* the exit report its launcher wrote
    faults

registry == <<mem, barrier, active, signal, failed, closed, closing>>
processes == <<proc, cgroup, ran, report>>
vars == <<agent, registry, disk, floor, task, processes, faults>>

Known == {"exited0", "exited1", "timed_out", "cancelled"}
Receipts == [state : Known \union {"none", "intent", "unknown"}, asked : BOOLEAN, clean : BOOLEAN]
NoReceipt == [state |-> "none", asked |-> FALSE, clean |-> FALSE]
Present(r) == r.state # "none"
Terminal(r) == r.state \notin {"none", "intent"}

(* open(): what a restarted agent must clean up and mark unknown.          *)
Unresolved(r) == Present(r) /\ (~Terminal(r) \/ ~r.clean)

Idle == [pc |-> "idle", cmd |-> None, result |-> "none", waited |-> FALSE, cleaned |-> FALSE]
Live(c) == proc[c] \in {"inside", "running"}

Covers(b, c) == c <= b
Pruned(receipts, b) == [c \in Commands |-> IF Covers(b, c) THEN NoReceipt ELSE receipts[c]]

Init ==
    /\ agent = "up" /\ mem = [c \in Commands |-> NoReceipt] /\ disk = mem
    /\ barrier = 0 /\ floor = 0
    /\ active = None /\ signal = FALSE /\ task = Idle
    /\ failed = FALSE /\ closed = FALSE /\ closing = None
    /\ proc = [c \in Commands |-> "none"] /\ cgroup = [c \in Commands |-> FALSE]
    /\ ran = [c \in Commands |-> 0] /\ report = [c \in Commands |-> "none"]
    /\ faults = 0

Fault == faults < MaxFaults /\ faults' = faults + 1

(* A failed write leaves the old file or, after its rename, the new one.   *)
WriteFails(c, r) == Fault /\ disk' \in {disk, [disk EXCEPT ![c] = r]}
Written(c, r) == disk' = [disk EXCEPT ![c] = r] /\ UNCHANGED faults

-----------------------------------------------------------------------------
(* Requests.                                                               *)

Intent == [NoReceipt EXCEPT !.state = "intent"]

(* Mutant: the durable barrier is not consulted.                           *)
StartableRetired(c) ==
    /\ agent = "up" /\ ~Present(mem[c])
    /\ ~closed /\ ~failed /\ active = None
    /\ Cardinality({d \in Commands : Present(mem[d])}) < MaxRecords

Startable(c) ==
    /\ agent = "up" /\ ~Covers(barrier, c) /\ ~Present(mem[c])
    /\ ~closed /\ ~failed /\ active = None
    /\ Cardinality({d \in Commands : Present(mem[d])}) < MaxRecords

(* start(): the intent is durable before the task exists.                  *)
Start(c) ==
    /\ Startable(c)
    /\ \/ /\ Written(c, Intent)
          /\ mem' = [mem EXCEPT ![c] = Intent]
          /\ active' = c /\ signal' = FALSE
          /\ task' = [Idle EXCEPT !.pc = "begin", !.cmd = c]
       \/ WriteFails(c, Intent) /\ UNCHANGED <<mem, active, signal, task>>
    /\ UNCHANGED <<agent, barrier, floor, failed, closed, closing, processes>>

(* cancel(): durable before the task is told; a finished command keeps its *)
(* receipt.                                                                *)
CancelReceipt(c) ==
    LET asked == [mem[c] EXCEPT !.asked = TRUE]
    IN  \/ /\ mem[c].state = "intent"
           /\ \/ /\ Written(c, asked) /\ mem' = [mem EXCEPT ![c] = asked]
                 /\ signal' = (signal \/ active = c)
              \/ WriteFails(c, asked) /\ UNCHANGED <<mem, signal>>
        \/ mem[c].state # "intent" /\ UNCHANGED <<mem, disk, signal, faults>>

Cancel(c) ==
    /\ agent = "up" /\ mem[c].state = "intent"
    /\ CancelReceipt(c)
    /\ UNCHANGED <<agent, barrier, floor, active, task, failed, closed, closing, processes>>

Retirable(t) ==
    /\ agent = "up" /\ ~failed /\ ~closed /\ t > barrier
    /\ active = None \/ ~Covers(t, active)
    /\ \A c \in Commands : Covers(t, c) =>
          /\ Present(mem[c]) => mem[c].state \in Known /\ mem[c].clean
          /\ Present(disk[c]) => ~cgroup[c]

(* retire_history(): the barrier is durable before any receipt is removed. *)
RetireHistory(t) ==
    /\ Retirable(t)
    /\ \/ /\ Fault /\ failed' = TRUE /\ floor' \in {floor, t}       \* context.json
          /\ UNCHANGED <<barrier, disk, mem>>
       \/ /\ floor' = t /\ barrier' = t
          /\ \/ /\ disk' = Pruned(disk, t) /\ mem' = Pruned(mem, t)
                /\ UNCHANGED <<failed, faults>>
             \/ /\ Fault /\ failed' = TRUE                          \* an unlink
                /\ disk' \in {disk, Pruned(disk, t)} /\ UNCHANGED mem
    /\ UNCHANGED <<agent, active, signal, task, closed, closing, processes>>

(* shutdown(): admission is fenced first, then the active command is       *)
(* cancelled in a second critical section.                                 *)
Shutdown ==
    /\ agent = "up" /\ ~closed
    /\ closed' = TRUE /\ closing' = active
    /\ UNCHANGED <<agent, mem, barrier, active, signal, failed, disk, floor, task,
                   processes, faults>>

ShutdownCancels ==
    /\ agent = "up" /\ closing # None
    /\ CancelReceipt(closing) /\ closing' = None
    /\ UNCHANGED <<agent, barrier, floor, active, task, failed, closed, processes>>

-----------------------------------------------------------------------------
(* The task of the active command.                                         *)

At(pc) == agent = "up" /\ task.pc = pc
Goto(pc) == task' = [task EXCEPT !.pc = pc]
Result(r, pc) == task' = [task EXCEPT !.pc = pc, !.result = r]
TaskLocal == UNCHANGED <<agent, registry, disk, floor>>

(* execute(), before the launcher: cancelled or late already, or a cgroup, *)
(* file or process could not be created.                                   *)
NoLaunch ==
    LET c == task.cmd
    IN  /\ At("begin") /\ TaskLocal
        /\ \/ signal /\ Result("cancelled", "kill2") /\ UNCHANGED <<cgroup, faults>>
           \/ ~signal /\ Result("timed_out", "kill2") /\ UNCHANGED <<cgroup, faults>>
           \/ /\ ~signal /\ Fault /\ Result("error", "kill2")
              /\ \E made \in BOOLEAN : cgroup' = [cgroup EXCEPT ![c] = made]
        /\ UNCHANGED <<proc, ran, report>>

Launch ==
    LET c == task.cmd
    IN  /\ At("begin") /\ ~signal
        /\ cgroup' = [cgroup EXCEPT ![c] = TRUE]
        /\ proc' = [proc EXCEPT ![c] = "launcher"]
        /\ Goto("wait")
        /\ TaskLocal /\ UNCHANGED <<ran, report, faults>>

(* Mutant: a launcher that failed counts as an exited command.             *)
WaitAnyExit ==
    /\ At("wait") /\ TaskLocal /\ UNCHANGED <<processes, faults>>
    /\ \/ signal /\ Result("cancelled", "kill1")
       \/ Result("timed_out", "kill1")
       \/ Result("unknown", "kill1")
       \/ /\ proc[task.cmd] \in {"ok", "gone"}
          /\ task' = [task EXCEPT !.pc = "kill1", !.waited = TRUE, !.result = "exited"]

(* Mutant: the deadline does not end the wait.                             *)
WaitNoDeadline ==
    /\ At("wait") /\ TaskLocal /\ UNCHANGED <<processes, faults>>
    /\ \/ signal /\ Result("cancelled", "kill1")
       \/ /\ proc[task.cmd] \in {"ok", "gone"}
          /\ task' = [task EXCEPT !.pc = "kill1", !.waited = TRUE,
                        !.result = IF proc[task.cmd] = "ok" THEN "exited" ELSE "unknown"]

(* The select loop: cancellation, the deadline, a failed capture, or the   *)
(* launcher's exit, successful or not.                                     *)
Wait ==
    /\ At("wait") /\ TaskLocal /\ UNCHANGED <<processes, faults>>
    /\ \/ signal /\ Result("cancelled", "kill1")
       \/ Result("timed_out", "kill1")
       \/ Result("unknown", "kill1")
       \/ /\ proc[task.cmd] \in {"ok", "gone"}
          /\ task' = [task EXCEPT !.pc = "kill1", !.waited = TRUE,
                        !.result = IF proc[task.cmd] = "ok" THEN "exited" ELSE "unknown"]

(* cleanup(), first half: cgroup.kill, and wait until it is empty.         *)
KillGroup(c) == proc' = [proc EXCEPT ![c] = IF Live(c) THEN "gone" ELSE @]

(* cleanup(), second half: rmdir, which refuses a cgroup in use.           *)
RemoveGroup(c) == cgroup' = [cgroup EXCEPT ![c] = @ /\ Live(c)]

CleanupKills ==
    /\ task.pc \in {"kill1", "kill2"} /\ agent = "up"
    /\ TaskLocal /\ UNCHANGED <<cgroup, ran, report>>
    /\ \/ /\ cgroup[task.cmd] /\ KillGroup(task.cmd)
          /\ Goto(IF task.pc = "kill1" THEN "rmdir1" ELSE "rmdir2")
          /\ UNCHANGED faults
       \/ /\ ~cgroup[task.cmd] /\ UNCHANGED <<proc, faults>>
          /\ task' = [task EXCEPT !.cleaned = TRUE,
                                  !.pc = IF @ = "kill1" THEN "reap" ELSE "commit"]
       \/ /\ cgroup[task.cmd] /\ Fault /\ UNCHANGED proc
          /\ task' = [task EXCEPT !.cleaned = FALSE,
                                  !.pc = IF @ = "kill1" THEN "reap" ELSE "commit"]

CleanupRemoves ==
    /\ task.pc \in {"rmdir1", "rmdir2"} /\ agent = "up"
    /\ RemoveGroup(task.cmd)
    /\ task' = [task EXCEPT !.cleaned = ~cgroup'[task.cmd],
                            !.pc = IF @ = "rmdir1" THEN "reap" ELSE "commit"]
    /\ TaskLocal /\ UNCHANGED <<proc, ran, report, faults>>

(* The launcher is killed unless it was waited for; its outputs may not    *)
(* end in time; then execute() returns and run() cleans up once more.      *)
Reap ==
    LET c == task.cmd
    IN  /\ At("reap")
        /\ IF task.waited \/ proc[c] \in {"ok", "gone"} THEN UNCHANGED proc
           ELSE \E p \in (IF Live(c) THEN {proc[c], "gone"} ELSE {"gone"}) :
                    proc' = [proc EXCEPT ![c] = p]
        /\ \/ task.cleaned /\ Goto("kill2")
           \/ Result("error", "kill2")
        /\ TaskLocal /\ UNCHANGED <<cgroup, ran, report, faults>>

ExitState(c) == IF report[c] = "zero" THEN "exited0" ELSE "exited1"

(* Mutant: cleanup is claimed whatever it returned.                        *)
OutcomeClaimed(c) == [mem[c] EXCEPT !.clean = TRUE, !.state = "unknown"]

(* run(): the receipt of the finished run.                                 *)
Outcome(c) ==
    IF task.cleaned /\ task.result # "error"
    THEN [mem[c] EXCEPT !.clean = TRUE,
                        !.state = IF task.result = "exited" THEN ExitState(c) ELSE task.result]
    ELSE [mem[c] EXCEPT !.clean = task.cleaned, !.state = "unknown"]

Commit ==
    LET c == task.cmd  r == Outcome(c)
    IN  /\ At("commit")
        /\ \/ /\ Written(c, r) /\ mem' = [mem EXCEPT ![c] = r]
              /\ failed' = (failed \/ ~task.cleaned)
           \/ /\ WriteFails(c, r) /\ failed' = TRUE
              /\ mem' = [mem EXCEPT ![c] = [r EXCEPT !.state = "unknown"]]
        /\ active' = None /\ signal' = FALSE /\ task' = Idle
        /\ UNCHANGED <<agent, barrier, floor, closed, closing, processes>>

-----------------------------------------------------------------------------
(* The launcher, an independent process.                                   *)

Apart == UNCHANGED <<agent, registry, disk, floor, task, faults>>

(* It joins its cgroup first, and fails where that was removed; it reads   *)
(* its input to the end before that, which a dead agent may have cut off.  *)
LauncherJoins(c) ==
    /\ proc[c] = "launcher"
    /\ proc' = [proc EXCEPT ![c] = IF cgroup[c] THEN "inside" ELSE "gone"]
    /\ Apart /\ UNCHANGED <<cgroup, ran, report>>

LauncherFails(c) ==
    /\ proc[c] \in {"launcher", "inside", "running"}
    /\ proc' = [proc EXCEPT ![c] = "gone"]
    /\ Apart /\ UNCHANGED <<cgroup, ran, report>>

LauncherExecutes(c) ==
    /\ proc[c] = "inside"
    /\ proc' = [proc EXCEPT ![c] = "running"] /\ ran' = [ran EXCEPT ![c] = @ + 1]
    /\ Apart /\ UNCHANGED <<cgroup, report>>

CommandExits(c) ==
    /\ proc[c] = "running"
    /\ \E code \in {"zero", "nonzero"} : report' = [report EXCEPT ![c] = code]
    /\ proc' = [proc EXCEPT ![c] = "ok"]
    /\ Apart /\ UNCHANGED <<cgroup, ran>>

-----------------------------------------------------------------------------
(* Death and reopening of the agent.                                       *)

(* The process is gone: at any point, or at the end of a shutdown.         *)
AgentDies ==
    /\ agent # "down"
    /\ Fault \/ (closed /\ closing = None /\ active = None /\ UNCHANGED faults)
    /\ agent' = "down" /\ mem' = [c \in Commands |-> NoReceipt]
    /\ barrier' = 0 /\ active' = None /\ signal' = FALSE /\ task' = Idle
    /\ failed' = FALSE /\ closed' = FALSE /\ closing' = None
    /\ UNCHANGED <<disk, floor, processes>>

(* open(): finish the pruning that the durable barrier demands.            *)
OpenBegins ==
    /\ agent = "down"
    /\ \A c \in Commands : Covers(floor, c) /\ Present(disk[c]) => ~cgroup[c]
    /\ agent' = "opening" /\ disk' = Pruned(disk, floor) /\ barrier' = floor
    /\ UNCHANGED <<mem, active, signal, failed, closed, closing, floor, task, processes,
                   faults>>

Lost(r) == [r EXCEPT !.state = "unknown", !.clean = TRUE]

(* Mutant: every retained receipt is marked unknown.                       *)
RecoverKillsAny(c) ==
    /\ agent = "opening" /\ task.pc = "idle" /\ Present(disk[c])
    /\ disk[c] # Lost(disk[c])
    /\ KillGroup(c)
    /\ task' = [Idle EXCEPT !.pc = "recover", !.cmd = c]
    /\ UNCHANGED <<agent, registry, disk, floor, cgroup, ran, report, faults>>

RecoverKills(c) ==
    /\ agent = "opening" /\ task.pc = "idle" /\ Unresolved(disk[c])
    /\ KillGroup(c)
    /\ task' = [Idle EXCEPT !.pc = "recover", !.cmd = c]
    /\ UNCHANGED <<agent, registry, disk, floor, cgroup, ran, report, faults>>

RecoverMarks ==
    LET c == task.cmd
    IN  /\ agent = "opening" /\ task.pc = "recover"
        /\ RemoveGroup(c) /\ task' = Idle
        /\ \/ ~cgroup'[c] /\ Written(c, Lost(disk[c])) /\ UNCHANGED agent
           \/ ~cgroup'[c] /\ WriteFails(c, Lost(disk[c])) /\ agent' = "down"
           \/ cgroup'[c] /\ agent' = "down" /\ UNCHANGED <<disk, faults>>
        /\ UNCHANGED <<registry, floor, proc, ran, report>>

OpenReady ==
    /\ agent = "opening" /\ task.pc = "idle"
    /\ \A c \in Commands : ~Unresolved(disk[c]) /\ ~cgroup[c]
    /\ Cardinality({c \in Commands : Present(disk[c])}) <= MaxRecords
    /\ agent' = "up" /\ mem' = disk
    /\ UNCHANGED <<barrier, active, signal, failed, closed, closing, disk, floor, task,
                   processes, faults>>

-----------------------------------------------------------------------------
TaskStep ==
    NoLaunch \/ Launch \/ Wait \/ CleanupKills \/ CleanupRemoves \/ Reap \/ Commit

OpenStep == OpenBegins \/ (\E c \in Commands : RecoverKills(c)) \/ RecoverMarks \/ OpenReady

Next ==
    \/ \E c \in Commands : Start(c) \/ Cancel(c) \/ RetireHistory(c)
    \/ Shutdown \/ ShutdownCancels
    \/ TaskStep
    \/ \E c \in Commands : \/ LauncherJoins(c) \/ LauncherFails(c)
                           \/ LauncherExecutes(c) \/ CommandExits(c)
    \/ AgentDies
    \/ OpenStep

Spec == Init /\ [][Next]_vars

(* The run task is polled, and each of its waits is bounded: the deadline, *)
(* three seconds of cleanup, two of capture.                               *)
Fairness == WF_vars(TaskStep)
FairSpec == Spec /\ Fairness

-----------------------------------------------------------------------------
(* Properties.                                                             *)

(* Every variable has its type.                                            *)
TypeOK ==
    /\ agent \in {"down", "opening", "up"}
    /\ mem \in [Commands -> Receipts] /\ disk \in [Commands -> Receipts]
    /\ barrier \in 0..LastOp /\ floor \in 0..LastOp
    /\ active \in 0..LastOp /\ closing \in 0..LastOp
    /\ signal \in BOOLEAN /\ failed \in BOOLEAN /\ closed \in BOOLEAN
    /\ task \in [pc : {"idle", "begin", "wait", "kill1", "rmdir1", "reap", "kill2", "rmdir2",
                       "commit", "recover"},
                 cmd : 0..LastOp, waited : BOOLEAN, cleaned : BOOLEAN,
                 result : {"none", "exited", "timed_out", "cancelled", "unknown", "error"}]
    /\ proc \in [Commands -> {"none", "launcher", "inside", "running", "ok", "gone"}]
    /\ cgroup \in [Commands -> BOOLEAN] /\ ran \in [Commands -> Nat]
    /\ report \in [Commands -> {"none", "zero", "nonzero"}] /\ faults \in 0..MaxFaults

(* A command is executed at most once, through retries of Execute, agent   *)
(* restarts and the retirement of its receipt ("Reopening never replays a  *)
(* nonterminal receipt").                                                  *)
RunsOnce == \A c \in Commands : ran[c] <= 1

(* A receipt that confirms cleanup is right: no process of the command     *)
(* runs and none can start, because a launcher left outside the cgroup has *)
(* nothing to join.                                                        *)
CleanMeansGone ==
    \A c \in Commands : mem[c].clean \/ disk[c].clean => ~Live(c) /\ ~cgroup[c]

(* Receipt::validate().                                                    *)
Valid(r) ==
    /\ r.state = "intent" => ~r.clean
    /\ r.state \in Known => r.clean
    /\ r.state = "cancelled" => r.asked

(* Runner::open() accepts what a death at any point leaves: every receipt  *)
(* file is valid, and every cgroup belongs to one that is still unresolved *)
(* and not retired, so that open may clean it up.                          *)
Reopenable ==
    \A c \in Commands :
        Valid(disk[c]) /\ (cgroup[c] => Unresolved(disk[c]) /\ ~Covers(floor, c))

(* An exit status is the one the command really had.                       *)
ExitIsReal ==
    \A c \in Commands : \A r \in {mem[c], disk[c]} :
        /\ r.state = "exited0" => report[c] = "zero"
        /\ r.state = "exited1" => report[c] = "nonzero"

(* Receipts tell the truth: confirmed cleanup left no process, and an exit *)
(* status is the command's own.                                            *)
ReceiptsAreTrue == CleanMeansGone /\ ExitIsReal

(* What the host sees of a command; of a dead agent, what its successor    *)
(* will answer.                                                            *)
Seen(receipts, b, c) ==
    IF Covers(b, c) THEN "retired"
    ELSE IF agent # "up" /\ Unresolved(receipts[c]) THEN "unknown" ELSE receipts[c].state
outcome ==
    [c \in Commands |-> IF agent = "up" THEN Seen(mem, barrier, c) ELSE Seen(disk, floor, c)]

(* The runner implements the contract of CommandRuntime across crashes and *)
(* failed writes.                                                          *)
Contract == INSTANCE CommandRuntime
ContractHolds == Contract!Spec

(* An accepted command ends without help from the host, by its exit or its *)
(* deadline, as long as the agent lives (its death forgets the registry).  *)
AcceptedEnds == \A c \in Commands : mem[c].state = "intent" ~> mem[c].state # "intent"
=============================================================================
