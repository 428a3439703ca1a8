---------------------------- MODULE GuestProofs -----------------------------
(***************************************************************************)
(* Proofs about GuestRunner: for any number of commands, records and       *)
(* faults, a command is executed at most once, receipts tell the truth,    *)
(* a death at any point leaves what open accepts, and the runner           *)
(* implements CommandRuntime.  The invariant is a statement about each     *)
(* command, its two receipts and its processes, and one about the task.    *)
(***************************************************************************)
EXTENDS GuestRunner, TLAPS

(* Nothing of the command was ever started.                                *)
Fresh(c) == proc[c] = "none" /\ ran[c] = 0 /\ ~cgroup[c] /\ report[c] = "none"

(* Its processes: what runs is inside its cgroup, and ran once.            *)
Processes(c) ==
    /\ Live(c) => cgroup[c]
    /\ proc[c] \in {"none", "launcher", "inside"} => ran[c] = 0
    /\ ran[c] <= 1
    /\ proc[c] = "ok" => report[c] # "none"

(* A receipt of it, in memory or on disk.                                  *)
Truthful(c, r) ==
    /\ Valid(r)
    /\ r.clean => ~cgroup[c]
    /\ r.state = "exited0" => report[c] = "zero"
    /\ r.state = "exited1" => report[c] = "nonzero"

Receipted(c) ==
    /\ Truthful(c, mem[c]) /\ Truthful(c, disk[c])
    /\ cgroup[c] => Unresolved(disk[c]) /\ ~Covers(floor, c)
    /\ ~Covers(floor, c) /\ ~Present(disk[c]) => Fresh(c)

(* What a registry that is open knows compared to the disk.                *)
Registered(c) ==
    /\ ~Covers(barrier, c) /\ ~Present(mem[c]) => Fresh(c)
    /\ c = active <=> mem[c].state = "intent"
    /\ c = active => disk[c].state = "intent" /\ ~Covers(floor, c)
    /\ Covers(floor, c) /\ ~Covers(barrier, c) => mem[c].state \in Known \union {"none"}
    /\ ~Covers(floor, c) =>
          /\ mem[c].state = "none" => disk[c].state \in {"none", "intent"}
          /\ mem[c].state \in Known => disk[c] = mem[c]
          /\ mem[c].state = "unknown" => Present(disk[c])

CommandOK(c) == Processes(c) /\ Receipted(c) /\ (agent = "up" => Registered(c))

(* The agent, and the task of the active command.                          *)
Working == {"begin", "wait", "kill1", "rmdir1", "reap", "kill2", "rmdir2", "commit"}
Tasked ==
    /\ signal => mem[active].asked
    /\ task.result = "cancelled" => mem[active].asked
    /\ task.result = "exited" => report[active] # "none"
    /\ task.pc = "begin" => Fresh(active)
    /\ task.pc \in {"begin", "wait"} <=> task.result = "none"
    /\ task.pc = "commit" /\ task.cleaned => ~cgroup[active]

Controlled ==
    /\ barrier <= floor
    /\ agent = "up" /\ ~failed => barrier = floor
    /\ agent = "opening" => barrier = floor
    /\ active = None => ~signal
    /\ agent = "up" /\ active = None => task.pc = "idle"
    /\ active # None => /\ agent = "up" /\ task.cmd = active /\ task.pc \in Working
                        /\ Tasked
    /\ agent = "down" => task.pc = "idle"
    /\ agent = "opening" =>
          task.pc = "idle" \/ (task.pc = "recover" /\ task.cmd \in Commands
                               /\ Unresolved(disk[task.cmd]))

GuestInv == TypeOK /\ Controlled /\ \A c \in Commands : CommandOK(c)
-----------------------------------------------------------------------------
(* Frames.                                                                 *)

TaskRecords == [pc : {"idle", "begin", "wait", "kill1", "rmdir1", "reap", "kill2", "rmdir2",
                      "commit", "recover"},
                cmd : 0..LastOp, waited : BOOLEAN, cleaned : BOOLEAN,
                result : {"none", "exited", "timed_out", "cancelled", "unknown", "error"}]
ProcStates == {"none", "launcher", "inside", "running", "ok", "gone"}
ProcTypes ==
    /\ proc \in [Commands -> ProcStates] /\ cgroup \in [Commands -> BOOLEAN]
    /\ ran \in [Commands -> Nat] /\ report \in [Commands -> {"none", "zero", "nonzero"}]

(* The processes of a command are as they were.                            *)
SameProcesses(c) ==
    proc'[c] = proc[c] /\ cgroup'[c] = cgroup[c] /\ ran'[c] = ran[c] /\ report'[c] = report[c]

(* Command ids, and that none is None.                                     *)
LEMMA Ids ==
    /\ Commands \subseteq 0..LastOp /\ None \in 0..LastOp /\ None \notin Commands
    /\ \A c \in 0..LastOp : c # None => c \in Commands
    /\ \A c \in Commands : c \in Nat /\ c \in 1..LastOp
  BY GuestAssumption DEF Commands, None

(* A command that a step leaves alone.                                     *)
LEMMA SameCommand ==
    ASSUME NEW c \in Commands, CommandOK(c), UNCHANGED <<agent, barrier, floor>>,
           c = active' <=> c = active, mem'[c] = mem[c], disk'[c] = disk[c], SameProcesses(c)
    PROVE  CommandOK(c)'
  <1>1. Fresh(c)' <=> Fresh(c)  BY DEF Fresh, SameProcesses
  <1>2. Processes(c)'  BY DEF CommandOK, Processes, Live, SameProcesses
  <1>3. Receipted(c)'
    BY <1>1 DEF CommandOK, Receipted, Truthful, Valid, Unresolved, Present, Terminal, Covers,
       SameProcesses
  <1>4. agent' = "up" => Registered(c)'
    BY <1>1 DEF CommandOK, Registered, Present, Covers
  <1> QED BY <1>2, <1>3, <1>4 DEF CommandOK

(* The parts of the type of a state that a step may disturb.               *)
LEMMA TypeParts ==
    ASSUME GuestInv
    PROVE  /\ agent \in {"down", "opening", "up"}
           /\ mem \in [Commands -> Receipts] /\ disk \in [Commands -> Receipts]
           /\ barrier \in 0..LastOp /\ floor \in 0..LastOp
           /\ active \in 0..LastOp /\ closing \in 0..LastOp
           /\ signal \in BOOLEAN /\ failed \in BOOLEAN /\ closed \in BOOLEAN
           /\ task \in TaskRecords /\ ProcTypes /\ faults \in 0..MaxFaults
  BY DEF GuestInv, TypeOK, TaskRecords, ProcTypes, ProcStates

(* A bounded fault.                                                        *)
LEMMA FaultType ==
    ASSUME GuestInv, Fault
    PROVE  faults' \in 0..MaxFaults
  <1>1. faults \in 0..MaxFaults  BY TypeParts
  <1> QED BY <1>1, GuestAssumption DEF Fault

(* What holds while a task runs.                                           *)
LEMMA TaskFacts ==
    ASSUME GuestInv, agent = "up", task.pc # "idle"
    PROVE  /\ active \in Commands /\ active # None /\ task.cmd = active /\ task.pc \in Working
           /\ Tasked /\ CommandOK(active) /\ Registered(active)
           /\ mem[active].state = "intent" /\ ~mem[active].clean
           /\ disk[active].state = "intent" /\ ~disk[active].clean /\ ~Covers(floor, active)
  <1>1. active # None /\ task.cmd = active /\ task.pc \in Working /\ Tasked
    BY DEF GuestInv, Controlled
  <1>2. active \in Commands  BY <1>1, Ids, TypeParts
  <1>3. CommandOK(active) /\ Registered(active)  BY <1>2 DEF GuestInv, CommandOK
  <1>4. mem[active].state = "intent" /\ disk[active].state = "intent" /\ ~Covers(floor, active)
    BY <1>3 DEF Registered
  <1>5. ~mem[active].clean /\ ~disk[active].clean
    BY <1>3, <1>4 DEF CommandOK, Receipted, Truthful, Valid
  <1> QED BY <1>1, <1>2, <1>3, <1>4, <1>5

(* A step of the task that writes no receipt.                              *)
LEMMA TaskFrame ==
    ASSUME GuestInv, agent = "up", task.pc # "idle", TaskLocal, faults' \in 0..MaxFaults,
           NEW c \in Commands, c = active,
           ProcTypes', \A d \in Commands \ {c} : SameProcesses(d),
           task' \in TaskRecords, task'.cmd = c, task'.pc \in Working,
           Tasked', Processes(c)'
    PROVE  GuestInv'
  <1>1. UNCHANGED <<agent, mem, barrier, active, signal, failed, closed, closing, disk, floor>>
    BY DEF TaskLocal, registry
  <1>2. TypeOK'
    BY <1>1, TypeParts DEF TypeOK, ProcTypes, ProcStates, TaskRecords
  <1>3. Controlled'
    BY <1>1, TaskFacts DEF GuestInv, Controlled
  <1>4. CommandOK(c)'
    <2>1. Receipted(c)'
      BY <1>1, TaskFacts DEF CommandOK, Receipted, Truthful, Valid, Unresolved, Present,
         Terminal, Covers
    <2>2. Registered(c)'
      BY <1>1, TaskFacts DEF Registered, Present, Covers
    <2> QED BY <1>1, <2>1, <2>2 DEF CommandOK
  <1>5. ASSUME NEW d \in Commands PROVE CommandOK(d)'
    <2>1. CASE d = c  BY <1>1, <1>4, <2>1
    <2>2. CASE d # c
      <3>1. CommandOK(d) /\ SameProcesses(d)  BY <2>2 DEF GuestInv
      <3> QED BY <1>1, <3>1, SameCommand
    <2> QED BY <2>1, <2>2
  <1> QED BY <1>2, <1>3, <1>5 DEF GuestInv

(* A step of the registry for one command, with its receipt on disk.       *)
LEMMA ReceiptFrame ==
    ASSUME GuestInv, agent = "up", UNCHANGED <<agent, barrier, floor, processes>>,
           NEW c \in Commands, NEW m \in Receipts, NEW d \in Receipts,
           mem' = [mem EXCEPT ![c] = m], disk' = [disk EXCEPT ![c] = d],
           active' \in 0..LastOp, closing' \in 0..LastOp, signal' \in BOOLEAN,
           failed' \in BOOLEAN, closed' \in BOOLEAN, failed => failed',
           task' \in TaskRecords, faults' \in 0..MaxFaults,
           \A x \in Commands \ {c} : x = active' <=> x = active,
           CommandOK(c)', Controlled'
    PROVE  GuestInv'
  <1>1. UNCHANGED <<proc, cgroup, ran, report>>  BY DEF processes
  <1>2. mem' \in [Commands -> Receipts] /\ disk' \in [Commands -> Receipts]  BY TypeParts
  <1>3. TypeOK'
    BY <1>1, <1>2, TypeParts DEF TypeOK, ProcTypes, ProcStates, TaskRecords
  <1>4. ASSUME NEW x \in Commands PROVE CommandOK(x)'
    <2>1. CASE x = c  BY <2>1
    <2>2. CASE x # c
      <3>1. CommandOK(x) /\ SameProcesses(x)  BY <1>1 DEF GuestInv, SameProcesses
      <3>2. mem'[x] = mem[x] /\ disk'[x] = disk[x]  BY <2>2, TypeParts
      <3> QED BY <2>2, <3>1, <3>2, SameCommand
    <2> QED BY <2>1, <2>2
  <1> QED BY <1>3, <1>4 DEF GuestInv

-----------------------------------------------------------------------------
(* The task of the active command.                                         *)

(* Before the launcher.                                                    *)
LEMMA TaskBegins ==
    ASSUME GuestInv, NoLaunch \/ Launch
    PROVE  GuestInv'
  <1>1. agent = "up" /\ task.pc = "begin" /\ TaskLocal /\ task.pc # "idle"
    BY DEF NoLaunch, Launch, At
  <1>2. PICK c : c = active  OBVIOUS
  <1>3. c \in Commands /\ task.cmd = c /\ Tasked /\ Fresh(c) /\ CommandOK(c)
    BY <1>1, <1>2, TaskFacts DEF Tasked
  <1>4. ProcTypes /\ task \in TaskRecords  BY TypeParts
  <1>5. UNCHANGED <<active, signal, mem>>  BY <1>1 DEF TaskLocal, registry
  <1>6. faults' \in 0..MaxFaults  BY FaultType, TypeParts DEF NoLaunch, Launch
  <1>7. /\ proc' \in {proc, [proc EXCEPT ![c] = "launcher"]}
        /\ \E made \in BOOLEAN : cgroup' = [cgroup EXCEPT ![c] = made]
        /\ proc' # proc => cgroup' = [cgroup EXCEPT ![c] = TRUE]
        /\ UNCHANGED <<ran, report>>
    <2>1. CASE NoLaunch
      <3>1. cgroup = [cgroup EXCEPT ![c] = cgroup[c]] /\ cgroup[c] \in BOOLEAN
        BY <1>3, <1>4 DEF ProcTypes
      <3> QED BY <1>3, <2>1, <3>1 DEF NoLaunch
    <2>2. CASE Launch  BY <1>3, <2>2 DEF Launch
    <2> QED BY <2>1, <2>2
  <1>8. ProcTypes'  BY <1>3, <1>4, <1>7 DEF ProcTypes, ProcStates
  <1>9. \A d \in Commands \ {c} : SameProcesses(d)
    BY <1>3, <1>4, <1>7 DEF ProcTypes, SameProcesses
  <1>10. Processes(c)'
    BY <1>3, <1>4, <1>7 DEF ProcTypes, Processes, Fresh, Live
  <1>11. /\ task' \in TaskRecords /\ task'.cmd = c /\ task'.pc \in {"wait", "kill2"}
         /\ task'.result = "cancelled" => signal
         /\ task'.result # "exited" /\ (task'.pc = "kill2" <=> task'.result # "none")
    <2>1. CASE Launch
      <3>1. task' = [task EXCEPT !.pc = "wait"]  BY <2>1 DEF Launch, Goto
      <3>2. task.result = "none"  BY <1>1, <1>3 DEF Tasked
      <3> QED BY <1>3, <1>4, <3>1, <3>2 DEF TaskRecords
    <2>2. CASE NoLaunch
      <3>1. \E r \in {"cancelled", "timed_out", "error"} :
               (r = "cancelled" => signal) /\ task' = [task EXCEPT !.pc = "kill2", !.result = r]
        BY <2>2 DEF NoLaunch, Result
      <3> QED BY <1>3, <1>4, <3>1 DEF TaskRecords
    <2> QED BY <2>1, <2>2
  <1>12. Tasked'  BY <1>2, <1>3, <1>5, <1>11 DEF Tasked
  <1> QED BY <1>1, <1>2, <1>3, <1>6, <1>8, <1>9, <1>10, <1>11, <1>12, TaskFrame DEF Working

(* The wait, which touches no process.                                     *)
LEMMA TaskWaits ==
    ASSUME GuestInv, Wait
    PROVE  GuestInv'
  <1>1. agent = "up" /\ task.pc = "wait" /\ TaskLocal /\ task.pc # "idle"
        /\ UNCHANGED <<processes, faults>>
    BY DEF Wait, At
  <1>2. PICK c : c = active  OBVIOUS
  <1>3. c \in Commands /\ task.cmd = c /\ Tasked /\ CommandOK(c)
    BY <1>1, <1>2, TaskFacts
  <1>4. ProcTypes /\ task \in TaskRecords /\ faults \in 0..MaxFaults  BY TypeParts
  <1>5. UNCHANGED <<active, signal, mem, proc, cgroup, ran, report, faults>>
    BY <1>1 DEF TaskLocal, registry, processes
  <1>6. ProcTypes' /\ (\A d \in Commands : SameProcesses(d)) /\ Processes(c)'
        /\ faults' \in 0..MaxFaults
    BY <1>3, <1>4, <1>5 DEF ProcTypes, SameProcesses, CommandOK, Processes, Live
  <1>7. /\ task' \in TaskRecords /\ task'.cmd = c /\ task'.pc = "kill1"
        /\ task'.result = "cancelled" => signal
        /\ task'.result = "exited" => proc[c] = "ok"
        /\ task'.result # "none"
    <2>1. CASE \E r \in {"cancelled", "timed_out", "unknown"} :
                 (r = "cancelled" => signal) /\ task' = [task EXCEPT !.pc = "kill1", !.result = r]
      BY <1>3, <1>4, <2>1 DEF TaskRecords
    <2>2. CASE task' = [task EXCEPT !.pc = "kill1", !.waited = TRUE,
                          !.result = IF proc[task.cmd] = "ok" THEN "exited" ELSE "unknown"]
      <3>1. PICK r : r = IF proc[c] = "ok" THEN "exited" ELSE "unknown"  OBVIOUS
      <3>2. r \in {"exited", "unknown"} /\ (r = "exited" => proc[c] = "ok")  BY <3>1
      <3>3. task' = [task EXCEPT !.pc = "kill1", !.waited = TRUE, !.result = r]
        BY <1>3, <2>2, <3>1
      <3> QED BY <1>3, <1>4, <3>2, <3>3 DEF TaskRecords
    <2> QED BY <2>1, <2>2 DEF Wait, Result
  <1>8. proc[c] = "ok" => report[c] # "none"  BY <1>3 DEF CommandOK, Processes
  <1>9. Tasked'  BY <1>2, <1>3, <1>5, <1>7, <1>8 DEF Tasked
  <1> QED BY <1>1, <1>2, <1>3, <1>6, <1>7, <1>9, TaskFrame DEF Working

(* Cleanup of the cgroup and of the launcher.                              *)
LEMMA TaskCleans ==
    ASSUME GuestInv, CleanupKills \/ CleanupRemoves \/ Reap
    PROVE  GuestInv'
  <1>1. agent = "up" /\ TaskLocal /\ task.pc # "idle"
        /\ task.pc \in {"kill1", "kill2", "rmdir1", "rmdir2", "reap"}
    BY DEF CleanupKills, CleanupRemoves, Reap, At
  <1>2. PICK c : c = active  OBVIOUS
  <1>3. c \in Commands /\ task.cmd = c /\ Tasked /\ CommandOK(c) /\ task.result # "none"
    BY <1>1, <1>2, TaskFacts DEF Tasked
  <1>4. ProcTypes /\ task \in TaskRecords /\ faults \in 0..MaxFaults  BY TypeParts
  <1>5. UNCHANGED <<active, signal, mem>>  BY <1>1 DEF TaskLocal, registry
  <1>6. faults' \in 0..MaxFaults
    BY <1>4, FaultType DEF CleanupKills, CleanupRemoves, Reap
  <1>7. /\ UNCHANGED <<ran, report>>
        /\ \E p \in {proc[c], "gone"} : proc' = [proc EXCEPT ![c] = p]
        /\ \E g \in BOOLEAN : /\ cgroup' = [cgroup EXCEPT ![c] = g]
                              /\ g => cgroup[c]
                              /\ ~g => ~cgroup[c] \/ (~Live(c) /\ proc' = proc)
    <2>0. /\ proc = [proc EXCEPT ![c] = proc[c]] /\ cgroup = [cgroup EXCEPT ![c] = cgroup[c]]
          /\ cgroup[c] \in BOOLEAN
      BY <1>3, <1>4 DEF ProcTypes
    <2>1. CASE CleanupKills
      <3>1. UNCHANGED <<ran, report, cgroup>>  BY <2>1 DEF CleanupKills
      <3>2. \E p \in {proc[c], "gone"} : proc' = [proc EXCEPT ![c] = p]
        BY <1>3, <2>0, <2>1 DEF CleanupKills, KillGroup
      <3> QED BY <2>0, <3>1, <3>2
    <2>2. CASE CleanupRemoves
      <3>1. UNCHANGED <<ran, report, proc>>  BY <2>2 DEF CleanupRemoves
      <3>2. PICK g : g = (cgroup[c] /\ Live(c))  OBVIOUS
      <3>3. g \in BOOLEAN /\ (g => cgroup[c]) /\ (~g => ~cgroup[c] \/ ~Live(c))  BY <3>2
      <3>4. cgroup' = [cgroup EXCEPT ![c] = g]  BY <1>3, <2>2, <3>2 DEF CleanupRemoves, RemoveGroup
      <3> QED BY <2>0, <3>1, <3>3, <3>4
    <2>3. CASE Reap
      <3>1. UNCHANGED <<ran, report, cgroup>>  BY <2>3 DEF Reap
      <3>2. \E p \in {proc[c], "gone"} : proc' = [proc EXCEPT ![c] = p]
        BY <1>3, <2>0, <2>3 DEF Reap
      <3> QED BY <2>0, <3>1, <3>2
    <2> QED BY <2>1, <2>2, <2>3
  <1>8. PICK p \in {proc[c], "gone"}, g \in BOOLEAN :
           /\ proc' = [proc EXCEPT ![c] = p] /\ cgroup' = [cgroup EXCEPT ![c] = g]
           /\ g => cgroup[c]
           /\ ~g => ~cgroup[c] \/ (~Live(c) /\ proc' = proc)
    BY <1>7
  <1>9. p \in ProcStates  BY <1>3, <1>4 DEF ProcTypes, ProcStates
  <1>10. proc'[c] = p /\ cgroup'[c] = g /\ ProcTypes'
    BY <1>3, <1>4, <1>7, <1>8, <1>9 DEF ProcTypes
  <1>11. \A d \in Commands \ {c} : SameProcesses(d)
    BY <1>3, <1>4, <1>7, <1>8 DEF ProcTypes, SameProcesses
  <1>12. Processes(c)'
    BY <1>3, <1>4, <1>7, <1>8, <1>10 DEF ProcTypes, CommandOK, Processes, Live
  <1>13. /\ task' \in TaskRecords /\ task'.cmd = c
         /\ task'.pc \in {"rmdir1", "rmdir2", "reap", "commit", "kill2"}
         /\ task'.result \in {task.result, "error"}
         /\ task'.pc = "commit" /\ task'.cleaned => ~cgroup'[c]
    <2>1. CASE CleanupKills
      <3>1. CASE \E pc \in {"rmdir1", "rmdir2"} : task' = [task EXCEPT !.pc = pc]
        BY <1>3, <1>4, <3>1 DEF TaskRecords
      <3>2. CASE \E pc \in {"reap", "commit"}, k \in BOOLEAN :
                   /\ k => ~cgroup[c] /\ cgroup' = cgroup
                   /\ task' = [task EXCEPT !.cleaned = k, !.pc = pc]
        BY <1>3, <1>4, <3>2 DEF TaskRecords
      <3>3. task.pc \in {"kill1", "kill2"} /\ cgroup' = cgroup  BY <2>1 DEF CleanupKills
      <3>4. CASE cgroup[c] /\ Goto(IF task.pc = "kill1" THEN "rmdir1" ELSE "rmdir2")
        BY <3>1, <3>4 DEF Goto
      <3>5. ASSUME NEW k \in BOOLEAN, k => ~cgroup[c],
                   task' = [task EXCEPT !.cleaned = k,
                                        !.pc = IF @ = "kill1" THEN "reap" ELSE "commit"]
            PROVE  \E pc \in {"reap", "commit"} : task' = [task EXCEPT !.cleaned = k, !.pc = pc]
        BY <1>4, <3>5 DEF TaskRecords
      <3>6. \/ cgroup[c] /\ Goto(IF task.pc = "kill1" THEN "rmdir1" ELSE "rmdir2")
            \/ \E k \in BOOLEAN : /\ k => ~cgroup[c]
                                  /\ task' = [task EXCEPT !.cleaned = k,
                                        !.pc = IF @ = "kill1" THEN "reap" ELSE "commit"]
        BY <1>3, <2>1 DEF CleanupKills
      <3> QED BY <3>2, <3>3, <3>4, <3>5, <3>6
    <2>2. CASE CleanupRemoves
      <3>1. PICK k : k = ~cgroup'[c]  OBVIOUS
      <3>2. k \in BOOLEAN /\ (k => ~cgroup'[c])  BY <3>1
      <3>3. \E pc \in {"reap", "commit"} : task' = [task EXCEPT !.cleaned = k, !.pc = pc]
        BY <1>3, <1>4, <2>2, <3>1 DEF CleanupRemoves, TaskRecords
      <3> QED BY <1>3, <1>4, <3>2, <3>3 DEF TaskRecords
    <2>3. CASE Reap
      <3>1. \/ task' = [task EXCEPT !.pc = "kill2"]
            \/ task' = [task EXCEPT !.pc = "kill2", !.result = "error"]
        BY <2>3 DEF Reap, Goto, Result
      <3> QED BY <1>3, <1>4, <3>1 DEF TaskRecords
    <2> QED BY <2>1, <2>2, <2>3
  <1>14. Tasked'  BY <1>2, <1>3, <1>5, <1>7, <1>13 DEF Tasked
  <1> QED BY <1>1, <1>2, <1>3, <1>6, <1>10, <1>11, <1>12, <1>13, <1>14, TaskFrame DEF Working

(* The receipt of a finished run is valid and true.                        *)
LEMMA OutcomeTrue ==
    ASSUME GuestInv, agent = "up", task.pc = "commit", NEW c \in Commands, c = active
    PROVE  /\ Outcome(c) \in Receipts /\ Truthful(c, Outcome(c))
           /\ Outcome(c).state \in Known \union {"unknown"}
           /\ Outcome(c).clean = task.cleaned
  <1>1. /\ Tasked /\ CommandOK(c) /\ mem[c].state = "intent" /\ task.cmd = c
    BY TaskFacts
  <1>2. /\ mem[c] \in Receipts /\ task \in TaskRecords /\ report[c] \in {"none", "zero", "nonzero"}
    BY TypeParts DEF ProcTypes
  <1>3. task.result # "none" /\ (task.cleaned => ~cgroup[c])  BY <1>1 DEF Tasked
  <1>4. CASE task.cleaned /\ task.result # "error"
    <2>1. PICK st : st = IF task.result = "exited" THEN ExitState(c) ELSE task.result  OBVIOUS
    <2>2. /\ st \in Known \union {"unknown"}
          /\ st = "cancelled" => mem[c].asked
          /\ st = "exited0" => report[c] = "zero"
          /\ st = "exited1" => report[c] = "nonzero"
      BY <1>1, <1>2, <1>3, <1>4, <2>1 DEF ExitState, Known, TaskRecords, Tasked
    <2>3. Outcome(c) = [mem[c] EXCEPT !.clean = TRUE, !.state = st]
      BY <1>4, <2>1 DEF Outcome
    <2>4. /\ Outcome(c) \in Receipts /\ Outcome(c).state = st /\ Outcome(c).clean = TRUE
          /\ Outcome(c).asked = mem[c].asked
      BY <1>2, <2>2, <2>3 DEF Receipts, Known
    <2>5. task.cleaned = TRUE  BY <1>2, <1>4 DEF TaskRecords
    <2> QED BY <1>3, <1>4, <2>2, <2>4, <2>5 DEF Truthful, Valid, Known
  <1>5. CASE ~(task.cleaned /\ task.result # "error")
    <2>1. Outcome(c) = [mem[c] EXCEPT !.clean = task.cleaned, !.state = "unknown"]
      BY <1>5 DEF Outcome
    <2>2. /\ Outcome(c) \in Receipts /\ Outcome(c).state = "unknown"
          /\ Outcome(c).clean = task.cleaned /\ Outcome(c).asked = mem[c].asked
      BY <1>2, <2>1 DEF Receipts, Known, TaskRecords
    <2> QED BY <1>3, <2>2 DEF Truthful, Valid, Known
  <1> QED BY <1>4, <1>5

(* The commit of the result.                                               *)
LEMMA TaskCommits ==
    ASSUME GuestInv, Commit
    PROVE  GuestInv'
  <1>1. agent = "up" /\ task.pc = "commit" /\ task.pc # "idle"  BY DEF Commit, At
  <1>2. PICK c : c = active  OBVIOUS
  <1>3. /\ c \in Commands /\ task.cmd = c /\ Tasked /\ CommandOK(c) /\ Registered(c)
        /\ mem[c].state = "intent" /\ disk[c].state = "intent" /\ ~Covers(floor, c)
        /\ ~disk[c].clean
    BY <1>1, <1>2, TaskFacts
  <1>4. PICK r : r = Outcome(c)  OBVIOUS
  <1>5. /\ r \in Receipts /\ Truthful(c, r) /\ r.state \in Known \union {"unknown"}
        /\ r.clean = task.cleaned
    BY <1>1, <1>2, <1>3, <1>4, OutcomeTrue
  <1>6. UNCHANGED <<agent, barrier, floor, closed, closing, processes>>
        /\ active' = None /\ signal' = FALSE /\ task' = Idle
    BY DEF Commit
  <1>7. PICK m, d : /\ mem' = [mem EXCEPT ![c] = m] /\ disk' = [disk EXCEPT ![c] = d]
                    /\ \/ m = r /\ d = r
                       \/ m = [r EXCEPT !.state = "unknown"] /\ d \in {disk[c], r} /\ failed'
                    /\ faults' \in 0..MaxFaults
                    /\ failed' \in BOOLEAN /\ (failed => failed')
    <2>0. disk = [disk EXCEPT ![c] = disk[c]] /\ failed \in BOOLEAN /\ task.cleaned \in BOOLEAN
      BY <1>3, TypeParts DEF TaskRecords
    <2>1. CASE Written(c, r) /\ mem' = [mem EXCEPT ![c] = r] /\ failed' = (failed \/ ~task.cleaned)
      BY <2>0, <2>1, TypeParts DEF Written
    <2>2. CASE WriteFails(c, r) /\ failed' = TRUE
               /\ mem' = [mem EXCEPT ![c] = [r EXCEPT !.state = "unknown"]]
      BY <2>0, <2>2, FaultType DEF WriteFails
    <2> QED BY <1>3, <1>4, <2>1, <2>2 DEF Commit
  <1>8. disk[c] \in Receipts /\ mem[c] \in Receipts  BY <1>3, TypeParts
  <1>9. /\ m \in Receipts /\ d \in Receipts /\ Truthful(c, m) /\ Truthful(c, d)
        /\ m.state \in Known \union {"unknown"} /\ Present(d)
        /\ m.state \in Known => d = m
        /\ (~d.clean \/ d = r)
    <2>1. Truthful(c, disk[c])  BY <1>3 DEF CommandOK, Receipted
    <2>2. PICK u : u = [r EXCEPT !.state = "unknown"]  OBVIOUS
    <2>3. u \in Receipts /\ u.state = "unknown" /\ u.clean = r.clean  BY <1>5, <2>2 DEF Receipts
    <2>4. Truthful(c, u)  BY <1>5, <2>3 DEF Truthful, Valid, Known
    <2> QED BY <1>3, <1>5, <1>7, <1>8, <2>1, <2>2, <2>3, <2>4 DEF Present, Known
  <1>10. mem'[c] = m /\ disk'[c] = d  BY <1>3, <1>7, TypeParts
  <1>11. UNCHANGED <<proc, cgroup, ran, report>>  BY <1>6 DEF processes
  <1>12. CommandOK(c)'
    <2>1. Processes(c)'  BY <1>3, <1>11 DEF CommandOK, Processes, Live
    <2>2. Truthful(c, m)' /\ Truthful(c, d)'  BY <1>9, <1>11 DEF Truthful, Valid
    <2>3. cgroup[c] => Unresolved(d)
      BY <1>9 DEF Unresolved, Truthful
    <2>4. Receipted(c)'
      BY <1>3, <1>6, <1>9, <1>10, <1>11, <2>2, <2>3
      DEF Receipted, Truthful, Unresolved, Terminal, Present, Covers
    <2>5. c # active'  BY <1>3, <1>6, Ids
    <2>6. Registered(c)'
      BY <1>3, <1>6, <1>9, <1>10, <2>5 DEF Registered, Present, Covers, Known
    <2> QED BY <2>1, <2>4, <2>6 DEF CommandOK
  <1>13. Controlled'
    <2>1. Idle.pc = "idle"  BY DEF Idle
    <2> QED BY <1>1, <1>6, <1>7, <2>1 DEF GuestInv, Controlled
  <1>14. Idle \in TaskRecords /\ FALSE \in BOOLEAN
    BY Ids DEF Idle, TaskRecords
  <1>15. \A x \in Commands \ {c} : x = active' <=> x = active  BY <1>2, <1>6, Ids
  <1>16. active' \in 0..LastOp /\ closing' \in 0..LastOp /\ closed' \in BOOLEAN
    BY <1>6, Ids, TypeParts
  <1> QED BY <1>1, <1>3, <1>6, <1>7, <1>9, <1>12, <1>13, <1>14, <1>15, <1>16, ReceiptFrame

-----------------------------------------------------------------------------
(* Requests.                                                               *)

(* An accepted command.                                                    *)
LEMMA RequestStarts ==
    ASSUME GuestInv, NEW c \in Commands, Start(c)
    PROVE  GuestInv'
  <1>1. agent = "up" /\ ~Covers(barrier, c) /\ ~Present(mem[c]) /\ ~failed /\ active = None
    BY DEF Start, Startable
  <1>2. /\ CommandOK(c) /\ Registered(c) /\ barrier = floor /\ task.pc = "idle" /\ ~signal
        /\ c # active
    BY <1>1, Ids DEF GuestInv, CommandOK, Controlled
  <1>3. Fresh(c) /\ ~Covers(floor, c)  BY <1>1, <1>2 DEF Registered
  <1>4. Intent \in Receipts /\ Intent.state = "intent" /\ Intent.clean = FALSE
        /\ Intent.asked = FALSE
    BY DEF Intent, NoReceipt, Receipts
  <1>5. UNCHANGED <<agent, barrier, floor, failed, closed, closing, processes>>  BY DEF Start
  <1>6. UNCHANGED <<proc, cgroup, ran, report>>  BY <1>5 DEF processes
  <1>7. mem[c] \in Receipts /\ disk[c] \in Receipts /\ mem = [mem EXCEPT ![c] = mem[c]]
        /\ disk = [disk EXCEPT ![c] = disk[c]]
    BY TypeParts
  <1>8. Fresh(c)' /\ Processes(c)' /\ Truthful(c, Intent)'
    BY <1>2, <1>3, <1>4, <1>6 DEF Fresh, CommandOK, Processes, Live, Truthful, Valid, Known
  <1>9. CASE /\ Written(c, Intent) /\ mem' = [mem EXCEPT ![c] = Intent]
             /\ active' = c /\ signal' = FALSE
             /\ task' = [Idle EXCEPT !.pc = "begin", !.cmd = c]
    <2>1. mem'[c] = Intent /\ disk' = [disk EXCEPT ![c] = Intent] /\ disk'[c] = Intent
          /\ faults' \in 0..MaxFaults
      BY <1>9, TypeParts DEF Written
    <2>2. /\ task' \in TaskRecords /\ task'.pc = "begin" /\ task'.cmd = c
          /\ task'.result = "none"
      BY <1>9, Ids DEF TaskRecords, Idle
    <2>3. Receipted(c)'
      BY <1>3, <1>4, <1>5, <1>8, <2>1 DEF Receipted, Unresolved, Present, Terminal, Truthful, Covers,
         Fresh
    <2>4. Registered(c)'
      BY <1>3, <1>4, <1>5, <1>9, <2>1 DEF Registered, Present, Covers, Known
    <2>5. CommandOK(c)'  BY <1>8, <2>3, <2>4 DEF CommandOK
    <2>6. Tasked'
      BY <1>8, <1>9, <2>2 DEF Tasked
    <2>7. c # None  BY Ids
    <2>8. Controlled'
      BY <1>1, <1>2, <1>5, <1>9, <2>2, <2>6, <2>7 DEF GuestInv, Controlled, Working
    <2>9. /\ active' \in 0..LastOp /\ closing' \in 0..LastOp /\ closed' \in BOOLEAN
          /\ signal' \in BOOLEAN /\ failed' \in BOOLEAN
      BY <1>5, <1>9, Ids, TypeParts
    <2>10. \A x \in Commands \ {c} : x = active' <=> x = active  BY <1>1, <1>9, Ids
    <2> QED BY <1>1, <1>4, <1>5, <1>9, <2>1, <2>2, <2>5, <2>8, <2>9, <2>10, ReceiptFrame
  <1>10. CASE WriteFails(c, Intent) /\ UNCHANGED <<mem, active, signal, task>>
    <2>1. PICK d \in {disk[c], Intent} : disk' = [disk EXCEPT ![c] = d]
      BY <1>7, <1>10 DEF WriteFails
    <2>2. d \in Receipts /\ disk'[c] = d  BY <1>4, <1>7, <2>1, TypeParts
    <2>3. faults' \in 0..MaxFaults  BY <1>10, FaultType DEF WriteFails
    <2>4. Receipted(c)'
      BY <1>2, <1>3, <1>4, <1>5, <1>6, <1>8, <1>10, <2>1, <2>2
      DEF CommandOK, Receipted, Unresolved, Present, Terminal, Truthful, Valid, Covers, Fresh
    <2>5. Registered(c)'
      BY <1>1, <1>2, <1>4, <1>5, <1>8, <1>10, <2>1, <2>2
      DEF Registered, Present, Covers, Known
    <2>6. CommandOK(c)'  BY <1>8, <2>4, <2>5 DEF CommandOK
    <2>7. Controlled'
      BY <1>1, <1>2, <1>5, <1>10 DEF GuestInv, Controlled
    <2>8. mem' = [mem EXCEPT ![c] = mem[c]]  BY <1>7, <1>10
    <2>9. /\ active' \in 0..LastOp /\ closing' \in 0..LastOp /\ closed' \in BOOLEAN
          /\ signal' \in BOOLEAN /\ failed' \in BOOLEAN /\ task' \in TaskRecords
      BY <1>5, <1>10, TypeParts
    <2>10. \A x \in Commands \ {c} : x = active' <=> x = active  BY <1>10
    <2> QED BY <1>1, <1>5, <1>7, <2>1, <2>2, <2>3, <2>6, <2>7, <2>8, <2>9, <2>10, ReceiptFrame
  <1> QED BY <1>9, <1>10 DEF Start

(* A cancellation, by request or by a shutdown.                            *)
LEMMA RequestCancels ==
    ASSUME GuestInv, agent = "up", NEW c \in Commands, mem[c].state = "intent", CancelReceipt(c),
           UNCHANGED <<agent, barrier, floor, active, task, failed, closed, processes>>,
           closing' \in 0..LastOp
    PROVE  GuestInv'
  <1>1. /\ CommandOK(c) /\ Registered(c) /\ c = active /\ c # None /\ task.pc # "idle"
    BY Ids DEF GuestInv, CommandOK, Registered, Controlled, Working
  <1>2. /\ task.cmd = c /\ Tasked /\ disk[c].state = "intent" /\ ~Covers(floor, c)
        /\ task.pc \in Working
    BY <1>1, TaskFacts
  <1>3. PICK a : a = [mem[c] EXCEPT !.asked = TRUE]  OBVIOUS
  <1>4. mem[c] \in Receipts /\ disk[c] \in Receipts /\ mem = [mem EXCEPT ![c] = mem[c]]
        /\ disk = [disk EXCEPT ![c] = disk[c]] /\ signal \in BOOLEAN /\ failed \in BOOLEAN
        /\ closed \in BOOLEAN /\ active \in 0..LastOp /\ task \in TaskRecords
    BY TypeParts
  <1>5. a \in Receipts /\ a.state = "intent" /\ a.clean = mem[c].clean /\ a.asked
    BY <1>3, <1>4 DEF Receipts
  <1>6. UNCHANGED <<proc, cgroup, ran, report>>  BY DEF processes
  <1>7. PICK m \in {mem[c], a}, d \in {disk[c], a} :
           /\ mem' = [mem EXCEPT ![c] = m] /\ disk' = [disk EXCEPT ![c] = d]
           /\ signal' \in BOOLEAN /\ faults' \in 0..MaxFaults
           /\ m = mem[c] => signal' = signal \/ m.asked
    <2>1. CASE Written(c, a) /\ mem' = [mem EXCEPT ![c] = a] /\ signal' = (signal \/ active = c)
      <3>1. disk' = [disk EXCEPT ![c] = a] /\ faults' \in 0..MaxFaults
        BY <2>1, TypeParts DEF Written
      <3>2. signal' \in BOOLEAN  BY <1>4, <2>1
      <3> QED BY <1>5, <2>1, <3>1, <3>2
    <2>2. CASE WriteFails(c, a) /\ UNCHANGED <<mem, signal>>
      <3>1. faults' \in 0..MaxFaults  BY <2>2, FaultType DEF WriteFails
      <3> QED BY <1>4, <2>2, <3>1 DEF WriteFails
    <2> QED BY <1>3, <2>1, <2>2 DEF CancelReceipt
  <1>8. mem'[c] = m /\ disk'[c] = d /\ m \in Receipts /\ d \in Receipts
    BY <1>4, <1>5, <1>7, TypeParts
  <1>9. m.state = "intent" /\ d.state = "intent" /\ ~m.clean /\ ~d.clean
        /\ (mem[c].asked => m.asked)
    BY <1>1, <1>2, <1>5, <1>7, TaskFacts
  <1>10. CommandOK(c)'
    <2>1. Processes(c)'  BY <1>1, <1>6 DEF CommandOK, Processes, Live
    <2>2. Receipted(c)'
      BY <1>2, <1>8, <1>9
      DEF Receipted, Truthful, Valid, Unresolved, Present, Terminal, Covers, Known
    <2>3. Registered(c)'
      BY <1>1, <1>2, <1>8, <1>9 DEF Registered, Present, Covers, Known
    <2> QED BY <2>1, <2>2, <2>3 DEF CommandOK
  <1>11. Tasked'
    BY <1>1, <1>2, <1>5, <1>6, <1>7, <1>8, <1>9 DEF Tasked, Fresh
  <1>12. Controlled'  BY <1>1, <1>2, <1>11 DEF GuestInv, Controlled
  <1>13. \A x \in Commands \ {c} : x = active' <=> x = active  OBVIOUS
  <1>14. active' \in 0..LastOp /\ failed' \in BOOLEAN /\ closed' \in BOOLEAN
         /\ task' \in TaskRecords /\ (failed => failed')
    BY <1>4
  <1>15. UNCHANGED <<agent, barrier, floor, processes>>  OBVIOUS
  <1> QED BY <1>7, <1>8, <1>10, <1>12, <1>13, <1>14, <1>15, ReceiptFrame

(* The other requests that touch no command.                               *)
LEMMA RequestShuts ==
    ASSUME GuestInv, Shutdown \/ ShutdownCancels \/ \E c \in Commands : Cancel(c)
    PROVE  GuestInv'
  <1>1. ASSUME NEW c \in Commands, Cancel(c) PROVE GuestInv'
    <2>1. closing' \in 0..LastOp  BY <1>1, TypeParts DEF Cancel
    <2> QED BY <1>1, <2>1, RequestCancels DEF Cancel
  <1>2. ASSUME UNCHANGED <<agent, mem, barrier, active, signal, failed, disk, floor, task,
                           processes, faults>>,
               closed' \in BOOLEAN, closing' \in 0..LastOp
        PROVE  GuestInv'
    <2>1. UNCHANGED <<proc, cgroup, ran, report>>  BY <1>2 DEF processes
    <2>2. TypeOK'
      BY <1>2, <2>1, TypeParts DEF TypeOK, ProcTypes, ProcStates, TaskRecords
    <2>3. Controlled'  BY <1>2, <2>1 DEF GuestInv, Controlled, Tasked, Fresh, Unresolved, Present,
        Terminal
    <2>4. ASSUME NEW c \in Commands PROVE CommandOK(c)'
      <3>1. CommandOK(c) /\ SameProcesses(c)  BY <2>1 DEF GuestInv, SameProcesses
      <3> QED BY <1>2, <3>1, SameCommand
    <2> QED BY <2>2, <2>3, <2>4 DEF GuestInv
  <1>3. CASE Shutdown
    <2>1. closed' \in BOOLEAN /\ closing' \in 0..LastOp  BY <1>3, TypeParts DEF Shutdown
    <2> QED BY <1>2, <1>3, <2>1 DEF Shutdown
  <1>4. CASE ShutdownCancels
    <2>1. closing \in Commands /\ closing' \in 0..LastOp /\ agent = "up" /\ CancelReceipt(closing)
      BY <1>4, Ids, TypeParts DEF ShutdownCancels
    <2>2. CASE mem[closing].state = "intent"
      BY <1>4, <2>1, <2>2, RequestCancels DEF ShutdownCancels
    <2>3. CASE mem[closing].state # "intent"
      <3>1. UNCHANGED <<mem, disk, signal, faults>>  BY <2>1, <2>3 DEF CancelReceipt
      <3>2. closed' \in BOOLEAN  BY <1>4, TypeParts DEF ShutdownCancels
      <3> QED BY <1>2, <1>4, <2>1, <3>1, <3>2 DEF ShutdownCancels
    <2> QED BY <2>2, <2>3
  <1> QED BY <1>1, <1>3, <1>4

(* The retirement of history.                                              *)
LEMMA RequestRetires ==
    ASSUME GuestInv, NEW t \in Commands, RetireHistory(t)
    PROVE  GuestInv'
  <1>1. /\ agent = "up" /\ ~failed /\ t > barrier /\ (active = None \/ ~Covers(t, active))
        /\ \A c \in Commands : Covers(t, c) =>
              /\ Present(mem[c]) => mem[c].state \in Known /\ mem[c].clean
              /\ Present(disk[c]) => ~cgroup[c]
    BY DEF RetireHistory, Retirable
  <1>2. /\ barrier = floor /\ barrier \in Nat /\ t \in Nat /\ t \in 0..LastOp /\ ProcTypes
        /\ mem \in [Commands -> Receipts] /\ disk \in [Commands -> Receipts] /\ Controlled
        /\ floor \in 0..LastOp /\ active \in 0..LastOp
    BY <1>1, Ids, TypeParts, GuestAssumption DEF GuestInv, Controlled
  <1>3. UNCHANGED <<agent, active, signal, task, closed, closing, proc, cgroup, ran, report>>
    BY DEF RetireHistory, processes
  <1>4. /\ faults' \in 0..MaxFaults /\ failed' \in BOOLEAN
        /\ \/ /\ barrier' = barrier /\ floor' \in {floor, t} /\ disk' = disk /\ mem' = mem
              /\ failed'
           \/ /\ barrier' = t /\ floor' = t
              /\ mem' \in {mem, Pruned(mem, t)} /\ disk' \in {disk, Pruned(disk, t)}
    BY TypeParts, FaultType DEF RetireHistory
  <1>5. NoReceipt \in Receipts /\ NoReceipt.state = "none" /\ ~NoReceipt.clean
    BY DEF NoReceipt, Receipts
  <1>6. \A c \in Commands : /\ mem'[c] \in {mem[c], NoReceipt} /\ disk'[c] \in {disk[c], NoReceipt}
                            /\ ~Covers(t, c) => mem'[c] = mem[c] /\ disk'[c] = disk[c]
                            /\ barrier' = barrier => mem'[c] = mem[c] /\ disk'[c] = disk[c]
    BY <1>1, <1>2, <1>4 DEF Pruned
  <1>7. mem' \in [Commands -> Receipts] /\ disk' \in [Commands -> Receipts]
    BY <1>2, <1>4, <1>5 DEF Pruned
  <1>8. barrier' \in 0..LastOp /\ floor' \in 0..LastOp /\ barrier' <= floor'
        /\ (barrier' # floor' => failed')
    BY <1>1, <1>2, <1>4
  <1>9. TypeOK'
    BY <1>3, <1>4, <1>7, <1>8, TypeParts DEF TypeOK, ProcTypes, ProcStates, TaskRecords
  <1>10. active # None => mem'[active] = mem[active]
    BY <1>1, <1>2, <1>6, Ids
  <1>11. Controlled'
    <2>1. active # None => Tasked'  BY <1>2, <1>3, <1>10 DEF Controlled, Tasked, Fresh
    <2> QED BY <1>1, <1>2, <1>3, <1>8, <2>1 DEF Controlled
  <1>12. ASSUME NEW c \in Commands PROVE CommandOK(c)'
    <2>1. CommandOK(c) /\ Registered(c) /\ c \in Nat  BY <1>1, Ids DEF GuestInv, CommandOK
    <2>2. Processes(c)' /\ (Fresh(c)' <=> Fresh(c))
      BY <1>3, <2>1 DEF CommandOK, Processes, Live, Fresh
    <2>3. Truthful(c, mem[c])' /\ Truthful(c, disk[c])'
      BY <1>3, <1>5, <1>6, <2>1 DEF CommandOK, Receipted, Truthful, Valid, Known
    <2>4. CASE Covers(t, c)
      <3>1. ~cgroup[c] /\ c # active
        BY <1>1, <2>1, <2>4, Ids DEF CommandOK, Receipted, Unresolved
      <3>2. Receipted(c)'
        <4>1. CASE ~Covers(floor', c)
          <5>1. barrier' = barrier /\ floor' = floor  BY <1>4, <2>4, <4>1
          <5>2. mem'[c] = mem[c] /\ disk'[c] = disk[c]  BY <1>6, <5>1
          <5> QED BY <1>3, <2>1, <2>2, <2>3, <5>1, <5>2
                  DEF CommandOK, Receipted, Covers, Present
        <4>2. CASE Covers(floor', c)
          BY <1>3, <2>3, <3>1, <4>2 DEF Receipted, Covers
        <4> QED BY <4>1, <4>2
      <3>3. Registered(c)'
        <4>0. mem[c].state \in Known \union {"none"} /\ mem[c].state # "intent"
          BY <1>1, <2>4 DEF Present, Known
        <4>1. mem'[c].state \in Known \union {"none"} /\ mem'[c].state # "intent"
          BY <1>5, <1>6, <4>0 DEF Known
        <4>2. CASE barrier' = barrier
          <5>1. mem'[c] = mem[c] /\ disk'[c] = disk[c]  BY <1>6, <4>2
          <5>2. ~Covers(floor', c) => ~Covers(floor, c)
            BY <1>1, <1>2, <1>4, <2>1, <2>4, <4>2 DEF Covers
          <5> QED BY <1>3, <2>1, <2>2, <3>1, <4>1, <4>2, <5>1, <5>2
                  DEF Registered, Covers, Present
        <4>3. CASE barrier' = t /\ floor' = t
          BY <1>3, <2>4, <3>1, <4>1, <4>3 DEF Registered, Covers, Present
        <4> QED BY <1>4, <4>2, <4>3
      <3> QED BY <2>2, <3>2, <3>3 DEF CommandOK
    <2>5. CASE ~Covers(t, c)
      <3>1. ~Covers(barrier, c) /\ ~Covers(floor, c) /\ ~Covers(barrier', c) /\ ~Covers(floor', c)
        BY <1>1, <1>2, <1>4, <2>1, <2>5 DEF Covers
      <3>2. mem'[c] = mem[c] /\ disk'[c] = disk[c]  BY <1>6, <2>5
      <3>3. Receipted(c)'
        BY <1>3, <2>1, <2>2, <2>3, <3>1, <3>2
        DEF CommandOK, Receipted, Covers, Present, Unresolved, Terminal
      <3>4. Registered(c)'
        BY <1>3, <2>1, <2>2, <3>1, <3>2 DEF Registered, Covers, Present
      <3> QED BY <2>2, <3>3, <3>4 DEF CommandOK
    <2> QED BY <2>4, <2>5
  <1> QED BY <1>9, <1>11, <1>12 DEF GuestInv

-----------------------------------------------------------------------------
(* The launcher, and the death and reopening of the agent.                 *)

(* An independent step of a launcher.                                      *)
LEMMA LauncherSteps ==
    ASSUME GuestInv, NEW c \in Commands,
           LauncherJoins(c) \/ LauncherFails(c) \/ LauncherExecutes(c) \/ CommandExits(c)
    PROVE  GuestInv'
  <1>1. UNCHANGED <<agent, mem, barrier, active, signal, failed, closed, closing, disk, floor,
                    task, faults, cgroup>>
    BY DEF LauncherJoins, LauncherFails, LauncherExecutes, CommandExits, Apart, registry
  <1>2. ProcTypes /\ CommandOK(c) /\ Controlled  BY TypeParts DEF GuestInv
  <1>3. /\ proc[c] \in {"launcher", "inside", "running"}
        /\ \E p \in {"inside", "gone", "running", "ok"} : proc' = [proc EXCEPT ![c] = p]
        /\ proc'[c] = "inside" => cgroup[c] /\ proc[c] = "launcher"
        /\ proc'[c] = "running" => cgroup[c]
        /\ proc'[c] = "ok" => report'[c] # "none"
        /\ \E q \in {"none", "zero", "nonzero"} : report' = [report EXCEPT ![c] = q]
        /\ report'[c] # report[c] => proc[c] = "running" /\ report'[c] # "none"
        /\ ran' = ran \/ (ran' = [ran EXCEPT ![c] = 1] /\ proc'[c] = "running")
    <2>1. report = [report EXCEPT ![c] = report[c]] /\ report[c] \in {"none", "zero", "nonzero"}
          /\ ran[c] \in Nat
      BY <1>2 DEF ProcTypes
    <2>2. CASE LauncherJoins(c)
      BY <1>2, <2>1, <2>2 DEF LauncherJoins, ProcTypes
    <2>3. CASE LauncherFails(c)
      BY <1>2, <2>1, <2>3 DEF LauncherFails, ProcTypes
    <2>4. CASE LauncherExecutes(c)
      <3>1. ran[c] = 0 /\ cgroup[c]
        BY <1>2, <2>4 DEF LauncherExecutes, CommandOK, Processes, Live
      <3>2. ran' = [ran EXCEPT ![c] = 1]  BY <1>2, <2>4, <3>1 DEF LauncherExecutes, ProcTypes
      <3> QED BY <1>2, <2>1, <2>4, <3>1, <3>2 DEF LauncherExecutes, ProcTypes
    <2>5. CASE CommandExits(c)
      BY <1>2, <2>1, <2>5 DEF CommandExits, ProcTypes
    <2> QED BY <2>2, <2>3, <2>4, <2>5
  <1>4. ProcTypes'  BY <1>1, <1>2, <1>3 DEF ProcTypes, ProcStates
  <1>5. TypeOK'
    BY <1>1, <1>4, TypeParts DEF TypeOK, ProcTypes, ProcStates, TaskRecords
  <1>6. \A d \in Commands \ {c} : SameProcesses(d)
    BY <1>1, <1>2, <1>3 DEF ProcTypes, SameProcesses
  <1>7. ~Fresh(c)  BY <1>3 DEF Fresh
  <1>8. Processes(c)'
    BY <1>1, <1>2, <1>3 DEF ProcTypes, CommandOK, Processes, Live
  <1>9. \A r \in {mem[c], disk[c]} : Truthful(c, r) => Truthful(c, r)'
    <2>1. ASSUME NEW r \in {mem[c], disk[c]}, Truthful(c, r), report'[c] # report[c]
          PROVE  r.state \notin {"exited0", "exited1"}
      BY <1>2, <1>3, <2>1 DEF Truthful, Valid, Known, CommandOK, Processes, Live
    <2> QED BY <1>1, <2>1 DEF Truthful, Valid
  <1>10. Receipted(c)'
    BY <1>1, <1>2, <1>7, <1>9 DEF CommandOK, Receipted, Unresolved, Present, Terminal, Covers
  <1>11. agent = "up" => Registered(c)'
    BY <1>1, <1>2, <1>7 DEF CommandOK, Registered, Present, Covers
  <1>12. CommandOK(c)'  BY <1>1, <1>8, <1>10, <1>11 DEF CommandOK
  <1>13. ASSUME NEW d \in Commands PROVE CommandOK(d)'
    <2>1. CASE d = c  BY <1>12, <2>1
    <2>2. CASE d # c
      <3>1. CommandOK(d) /\ SameProcesses(d)  BY <1>6, <2>2 DEF GuestInv
      <3> QED BY <1>1, <3>1, SameCommand
    <2> QED BY <2>1, <2>2
  <1>14. Controlled'
    <2>1. active # None => Tasked'
      <3> SUFFICES ASSUME active # None PROVE Tasked'  OBVIOUS
      <3>1. active \in Commands /\ Tasked  BY <1>2, Ids, TypeParts DEF Controlled
      <3>2. CASE active = c  BY <1>1, <1>3, <1>7, <3>1, <3>2 DEF Tasked
      <3>3. CASE active # c
        <4>1. SameProcesses(active)  BY <1>6, <3>1, <3>3
        <4> QED BY <1>1, <3>1, <4>1 DEF Tasked, Fresh, SameProcesses
      <3> QED BY <3>2, <3>3
    <2> QED BY <1>1, <1>2, <2>1 DEF Controlled, Unresolved, Present, Terminal
  <1> QED BY <1>5, <1>13, <1>14 DEF GuestInv

(* The death of the agent.                                                 *)
LEMMA AgentEnds ==
    ASSUME GuestInv, AgentDies
    PROVE  GuestInv'
  <1>1. /\ agent' = "down" /\ mem' = [c \in Commands |-> NoReceipt] /\ barrier' = 0
        /\ active' = None /\ signal' = FALSE /\ task' = Idle /\ failed' = FALSE
        /\ closed' = FALSE /\ closing' = None /\ UNCHANGED <<disk, floor, processes>>
    BY DEF AgentDies
  <1>2. faults' \in 0..MaxFaults  BY FaultType, TypeParts DEF AgentDies
  <1>3. UNCHANGED <<proc, cgroup, ran, report>>  BY <1>1 DEF processes
  <1>4. NoReceipt \in Receipts /\ NoReceipt.state = "none" /\ ~NoReceipt.clean
    BY DEF NoReceipt, Receipts
  <1>5. Idle \in TaskRecords /\ Idle.pc = "idle"  BY Ids DEF Idle, TaskRecords
  <1>6. mem' \in [Commands -> Receipts] /\ 0 \in 0..LastOp /\ floor \in Nat
    BY <1>1, <1>4, Ids, TypeParts, GuestAssumption DEF None
  <1>7. TypeOK'
    BY <1>1, <1>2, <1>3, <1>5, <1>6, Ids, TypeParts
    DEF TypeOK, ProcTypes, ProcStates, TaskRecords
  <1>8. Controlled'  BY <1>1, <1>5, <1>6 DEF Controlled
  <1>9. ASSUME NEW c \in Commands PROVE CommandOK(c)'
    <2>1. CommandOK(c) /\ mem'[c] = NoReceipt  BY <1>1 DEF GuestInv
    <2>2. Processes(c)'  BY <1>3, <2>1 DEF CommandOK, Processes, Live
    <2>3. Receipted(c)'
      BY <1>1, <1>3, <1>4, <2>1 DEF CommandOK, Receipted, Truthful, Valid, Known, Fresh,
         Unresolved, Present, Terminal, Covers
    <2> QED BY <1>1, <2>2, <2>3 DEF CommandOK
  <1> QED BY <1>7, <1>8, <1>9 DEF GuestInv

(* Opening: the pruning, and the end of it.                                *)
LEMMA AgentOpens ==
    ASSUME GuestInv, OpenBegins \/ OpenReady
    PROVE  GuestInv'
  <1>1. /\ UNCHANGED <<active, signal, failed, closed, closing, floor, task, faults, proc, cgroup,
                       ran, report>>
        /\ agent # "up" /\ active = None /\ task.pc = "idle" /\ ~signal
    BY DEF OpenBegins, OpenReady, processes, GuestInv, Controlled
  <1>2. NoReceipt \in Receipts /\ NoReceipt.state = "none" /\ ~NoReceipt.clean
    BY DEF NoReceipt, Receipts
  <1>3. \A c \in Commands : CommandOK(c)  BY DEF GuestInv
  <1>4. CASE OpenBegins
    <2>1. /\ agent' = "opening" /\ disk' = Pruned(disk, floor) /\ barrier' = floor /\ mem' = mem
      BY <1>4 DEF OpenBegins
    <2>2. disk' \in [Commands -> Receipts] /\ floor \in Nat
      BY <1>2, <2>1, TypeParts, GuestAssumption DEF Pruned
    <2>3. TypeOK'
      BY <1>1, <2>1, <2>2, TypeParts DEF TypeOK, ProcTypes, ProcStates, TaskRecords
    <2>4. Controlled'  BY <1>1, <2>1, <2>2 DEF Controlled
    <2>5. ASSUME NEW c \in Commands PROVE CommandOK(c)'
      <3>1. /\ Covers(floor, c) => disk'[c] = NoReceipt
            /\ ~Covers(floor, c) => disk'[c] = disk[c]
        BY <2>1 DEF Pruned
      <3>2. Processes(c)' /\ (Fresh(c)' <=> Fresh(c))
        BY <1>1, <1>3 DEF CommandOK, Processes, Live, Fresh
      <3>3. Truthful(c, mem[c])' /\ Truthful(c, disk[c])'
        BY <1>1, <1>2, <1>3, <2>1, <3>1 DEF CommandOK, Receipted, Truthful, Valid, Known
      <3>4. Receipted(c)'
        BY <1>1, <1>3, <3>1, <3>2, <3>3
        DEF CommandOK, Receipted, Unresolved, Present, Terminal, Covers
      <3> QED BY <2>1, <3>2, <3>4 DEF CommandOK
    <2> QED BY <2>3, <2>4, <2>5 DEF GuestInv
  <1>5. CASE OpenReady
    <2>1. /\ agent' = "up" /\ mem' = disk /\ disk' = disk /\ barrier' = barrier /\ agent = "opening"
          /\ barrier = floor
          /\ \A c \in Commands : ~Unresolved(disk[c]) /\ ~cgroup[c]
      BY <1>5 DEF OpenReady, GuestInv, Controlled
    <2>2. TypeOK'
      BY <1>1, <2>1, TypeParts DEF TypeOK, ProcTypes, ProcStates, TaskRecords
    <2>3. Controlled'  BY <1>1, <2>1 DEF GuestInv, Controlled
    <2>4. ASSUME NEW c \in Commands PROVE CommandOK(c)'
      <3>1. CommandOK(c) /\ ~Unresolved(disk[c]) /\ mem'[c] = disk[c] /\ disk'[c] = disk[c]
            /\ disk[c] \in Receipts
        BY <1>3, <2>1, TypeParts
      <3>2. Processes(c)' /\ (Fresh(c)' <=> Fresh(c))
        BY <1>1, <1>3 DEF CommandOK, Processes, Live, Fresh
      <3>3. Receipted(c)'
        BY <1>1, <3>1, <3>2
        DEF CommandOK, Receipted, Truthful, Valid, Unresolved, Present, Terminal, Covers
      <3>4. disk[c].state # "intent"  BY <3>1 DEF Unresolved, Present, Terminal
      <3>5. c # active'  BY <1>1, Ids
      <3>6. Registered(c)'
        BY <1>1, <2>1, <3>1, <3>2, <3>4, <3>5 DEF CommandOK, Receipted, Registered, Present, Covers
      <3> QED BY <3>2, <3>3, <3>6 DEF CommandOK
    <2> QED BY <2>2, <2>3, <2>4 DEF GuestInv
  <1> QED BY <1>4, <1>5

(* Opening: the recovery of an unresolved command.                         *)
LEMMA AgentRecovers ==
    ASSUME GuestInv, RecoverMarks \/ \E c \in Commands : RecoverKills(c)
    PROVE  GuestInv'
  <1>1. /\ UNCHANGED <<mem, barrier, active, signal, failed, closed, closing, floor, ran, report>>
        /\ agent = "opening" /\ active = None /\ ~signal /\ barrier = floor
    BY DEF RecoverMarks, RecoverKills, registry, GuestInv, Controlled
  <1>2. PICK c \in Commands : RecoverKills(c) \/ (RecoverMarks /\ task.cmd = c)
    BY DEF RecoverMarks, GuestInv, Controlled
  <1>3. CommandOK(c) /\ ProcTypes /\ disk[c] \in Receipts /\ Unresolved(disk[c])
    BY <1>1, <1>2, TypeParts DEF GuestInv, Controlled, RecoverKills, RecoverMarks
  <1>4. PICK l : l = Lost(disk[c])  OBVIOUS
  <1>5. l \in Receipts /\ l.state = "unknown" /\ l.clean = TRUE
    BY <1>3, <1>4 DEF Lost, Receipts
  <1>6. /\ agent' \in {"opening", "down"} /\ faults' \in 0..MaxFaults
        /\ \E p \in {proc[c], "gone"} : proc' = [proc EXCEPT ![c] = p]
        /\ \E g \in BOOLEAN : /\ cgroup' = [cgroup EXCEPT ![c] = g]
                              /\ g => cgroup[c]
                              /\ ~g => ~cgroup[c] \/ (~Live(c) /\ proc' = proc)
                              /\ \/ disk' = [disk EXCEPT ![c] = disk[c]]
                                 \/ ~g /\ disk' = [disk EXCEPT ![c] = l]
    <2>0. /\ proc = [proc EXCEPT ![c] = proc[c]] /\ cgroup = [cgroup EXCEPT ![c] = cgroup[c]]
          /\ cgroup[c] \in BOOLEAN /\ disk = [disk EXCEPT ![c] = disk[c]]
          /\ faults \in 0..MaxFaults
      BY <1>3, TypeParts DEF ProcTypes
    <2>1. CASE RecoverKills(c)
      <3>1. UNCHANGED <<cgroup, disk, faults, agent>>  BY <2>1 DEF RecoverKills
      <3>2. \E p \in {proc[c], "gone"} : proc' = [proc EXCEPT ![c] = p]
        BY <2>0, <2>1 DEF RecoverKills, KillGroup
      <3> QED BY <1>1, <2>0, <3>1, <3>2
    <2>2. CASE RecoverMarks /\ task.cmd = c
      <3>1. UNCHANGED proc  BY <2>2 DEF RecoverMarks
      <3>2. PICK g : g = (cgroup[c] /\ Live(c))  OBVIOUS
      <3>3. g \in BOOLEAN /\ (g => cgroup[c]) /\ (~g => ~cgroup[c] \/ ~Live(c))  BY <3>2
      <3>4. cgroup' = [cgroup EXCEPT ![c] = g]  BY <2>2, <3>2 DEF RecoverMarks, RemoveGroup
      <3>5. cgroup'[c] = g  BY <1>3, <3>4 DEF ProcTypes
      <3>6. agent' \in {"opening", "down"} /\ faults' \in 0..MaxFaults
        BY <1>1, <2>0, <2>2, FaultType DEF RecoverMarks, Written, WriteFails
      <3>7. disk' = disk \/ (~g /\ disk' = [disk EXCEPT ![c] = l])
        BY <1>4, <2>2, <3>5 DEF RecoverMarks, Written, WriteFails
      <3> QED BY <2>0, <3>1, <3>3, <3>4, <3>6, <3>7
    <2> QED BY <1>2, <2>1, <2>2
  <1>7. PICK p \in {proc[c], "gone"}, g \in BOOLEAN, d \in {disk[c], l} :
           /\ proc' = [proc EXCEPT ![c] = p] /\ cgroup' = [cgroup EXCEPT ![c] = g]
           /\ g => cgroup[c] /\ d = disk[c]
           /\ ~g => ~cgroup[c] \/ (~Live(c) /\ proc' = proc)
           /\ disk' = [disk EXCEPT ![c] = d]
    BY <1>6
  <1>8. p \in ProcStates  BY <1>3 DEF ProcTypes, ProcStates
  <1>9. proc'[c] = p /\ cgroup'[c] = g /\ ProcTypes'
    BY <1>1, <1>3, <1>7, <1>8 DEF ProcTypes
  <1>10. d \in Receipts /\ disk'[c] = d /\ disk' \in [Commands -> Receipts]
         /\ (\A x \in Commands \ {c} : disk'[x] = disk[x])
    BY <1>3, <1>5, <1>7, TypeParts
  <1>11. \A x \in Commands \ {c} : SameProcesses(x)
    BY <1>1, <1>3, <1>7 DEF ProcTypes, SameProcesses
  <1>12. Processes(c)'
    BY <1>1, <1>3, <1>7, <1>9 DEF ProcTypes, CommandOK, Processes, Live
  <1>13. Truthful(c, mem[c])' /\ Truthful(c, d)'
    BY <1>1, <1>3, <1>5, <1>7, <1>9 DEF CommandOK, Receipted, Truthful, Valid, Known
  <1>14. Receipted(c)'
    BY <1>1, <1>3, <1>5, <1>7, <1>9, <1>10, <1>13
    DEF CommandOK, Receipted, Unresolved, Present, Terminal, Covers
  <1>15. CommandOK(c)' /\ agent' # "up"  BY <1>6, <1>12, <1>14 DEF CommandOK
  <1>16. ASSUME NEW x \in Commands, x # c PROVE CommandOK(x)'
    <2>1. CommandOK(x) /\ SameProcesses(x) /\ disk'[x] = disk[x] /\ mem'[x] = mem[x]
      BY <1>1, <1>10, <1>11, <1>16 DEF GuestInv
    <2>2. Processes(x)' /\ (Fresh(x)' <=> Fresh(x))
      BY <2>1 DEF CommandOK, Processes, Live, Fresh, SameProcesses
    <2>3. Receipted(x)'
      BY <1>1, <2>1, <2>2 DEF CommandOK, Receipted, Truthful, Valid, Unresolved, Present, Terminal,
         Covers, SameProcesses
    <2> QED BY <1>15, <2>2, <2>3 DEF CommandOK
  <1>17. task' \in TaskRecords
         /\ \/ task'.pc = "idle"
            \/ task'.pc = "recover" /\ task'.cmd = c /\ disk' = disk /\ agent' = agent
    <2>1. CASE RecoverKills(c)
      <3>1. task' = [Idle EXCEPT !.pc = "recover", !.cmd = c] /\ disk' = disk /\ agent' = agent
        BY <2>1 DEF RecoverKills
      <3> QED BY <3>1, Ids DEF Idle, TaskRecords
    <2>2. CASE RecoverMarks
      <3>1. task' = Idle  BY <2>2 DEF RecoverMarks
      <3> QED BY <3>1, Ids DEF Idle, TaskRecords
    <2> QED BY <1>2, <2>1, <2>2
  <1>18. TypeOK'
    BY <1>1, <1>6, <1>9, <1>10, <1>17, TypeParts DEF TypeOK, ProcTypes, ProcStates, TaskRecords
  <1>19. Controlled'
    BY <1>1, <1>3, <1>6, <1>17 DEF GuestInv, Controlled, Unresolved, Present, Terminal
  <1> QED BY <1>15, <1>16, <1>18, <1>19 DEF GuestInv
-----------------------------------------------------------------------------
(* The theorems.                                                           *)

(* Every step of the runner, its launchers and a crash keeps the invariant. *)
LEMMA GuestStep ==
    ASSUME GuestInv, [Next]_vars
    PROVE  GuestInv'
  <1>1. CASE \E c \in Commands : Start(c)  BY <1>1, RequestStarts
  <1>2. CASE Shutdown \/ ShutdownCancels \/ \E c \in Commands : Cancel(c)  BY <1>2, RequestShuts
  <1>3. CASE \E c \in Commands : RetireHistory(c)  BY <1>3, RequestRetires
  <1>4. CASE TaskStep
    BY <1>4, TaskBegins, TaskWaits, TaskCleans, TaskCommits DEF TaskStep
  <1>5. CASE \E c \in Commands : LauncherJoins(c) \/ LauncherFails(c)
                                    \/ LauncherExecutes(c) \/ CommandExits(c)
    BY <1>5, LauncherSteps
  <1>6. CASE AgentDies  BY <1>6, AgentEnds
  <1>7. CASE OpenStep  BY <1>7, AgentOpens, AgentRecovers DEF OpenStep
  <1>8. CASE UNCHANGED vars
    <2>1. UNCHANGED <<agent, mem, barrier, active, signal, failed, closed, closing, disk, floor,
                      task, proc, cgroup, ran, report, faults>>
      BY <1>8 DEF vars, registry, processes
    <2>2. TypeOK'  BY <2>1, TypeParts DEF TypeOK, ProcTypes, ProcStates, TaskRecords
    <2>3. Controlled'
      BY <2>1 DEF GuestInv, Controlled, Tasked, Fresh, Unresolved, Present, Terminal
    <2>4. ASSUME NEW c \in Commands PROVE CommandOK(c)'
      <3>1. CommandOK(c) /\ SameProcesses(c)  BY <2>1 DEF GuestInv, SameProcesses
      <3> QED BY <2>1, <3>1, SameCommand
    <2> QED BY <2>2, <2>3, <2>4 DEF GuestInv
  <1> QED BY <1>1, <1>2, <1>3, <1>4, <1>5, <1>6, <1>7, <1>8 DEF Next

(* A new agent satisfies the invariant.                                    *)
LEMMA GuestInitially ==
    ASSUME Init
    PROVE  GuestInv
  <1>1. NoReceipt \in Receipts /\ NoReceipt.state = "none" /\ ~NoReceipt.clean
    BY DEF NoReceipt, Receipts
  <1>2. Idle \in TaskRecords /\ Idle.pc = "idle"  BY Ids DEF Idle, TaskRecords
  <1>3. mem \in [Commands -> Receipts] /\ disk \in [Commands -> Receipts] /\ ProcTypes
    BY <1>1 DEF Init, ProcTypes, ProcStates
  <1>4. faults \in 0..MaxFaults /\ 0 \in 0..LastOp  BY GuestAssumption DEF Init
  <1>5. TypeOK
    BY <1>2, <1>3, <1>4, Ids DEF Init, TypeOK, ProcTypes, ProcStates, TaskRecords
  <1>6. Controlled
    <2>1. barrier <= floor  BY DEF Init
    <2> QED BY <1>2, <2>1 DEF Init, Controlled
  <1>7. ASSUME NEW c \in Commands PROVE CommandOK(c)
    <2>1. mem[c] = NoReceipt /\ disk[c] = NoReceipt /\ Fresh(c) /\ c # active
      BY Ids DEF Init, Fresh
    <2>2. ~Covers(barrier, c) /\ ~Covers(floor, c)  BY Ids DEF Init, Covers
    <2>3. Processes(c)  BY <2>1 DEF Processes, Fresh, Live
    <2>4. Receipted(c)
      BY <1>1, <2>1 DEF Receipted, Truthful, Valid, Known, Fresh
    <2>5. Registered(c)  BY <1>1, <2>1, <2>2 DEF Registered, Known
    <2> QED BY <2>3, <2>4, <2>5 DEF CommandOK
  <1> QED BY <1>5, <1>6, <1>7 DEF GuestInv

(* The inductive invariant holds in every reachable state of the runner.   *)
THEOREM GuestInvariant == Spec => []GuestInv
  BY GuestInitially, GuestStep, PTL DEF Spec

(* Every variable of the runner keeps its type.                            *)
THEOREM GuestTypeCorrect == Spec => []TypeOK
  <1>1. GuestInv => TypeOK  BY DEF GuestInv
  <1> QED BY <1>1, GuestInvariant, PTL

(* A command is executed at most once, whatever is retried, whenever the   *)
(* agent dies and however often it reopens, for any number of commands.    *)
THEOREM ExecutedOnce == Spec => []RunsOnce
  <1>1. GuestInv => RunsOnce  BY DEF GuestInv, CommandOK, Processes, RunsOnce
  <1> QED BY <1>1, GuestInvariant, PTL

(* A receipt that confirms cleanup means that nothing of the command runs  *)
(* or can start, and an exit status in a receipt is the command's own.     *)
THEOREM ReceiptsStayTrue == Spec => []ReceiptsAreTrue
  <1>1. GuestInv => CleanMeansGone
    BY DEF GuestInv, CommandOK, Processes, Receipted, Truthful, CleanMeansGone
  <1>2. GuestInv => ExitIsReal
    BY DEF GuestInv, CommandOK, Receipted, Truthful, ExitIsReal
  <1> QED BY <1>1, <1>2, GuestInvariant, PTL DEF ReceiptsAreTrue

(* Whatever a death of the agent leaves on disk, Runner::open accepts it.  *)
THEOREM AlwaysReopenable == Spec => []Reopenable
  <1>1. GuestInv => Reopenable
    BY DEF GuestInv, CommandOK, Receipted, Truthful, Reopenable
  <1> QED BY <1>1, GuestInvariant, PTL
-----------------------------------------------------------------------------
(* The refinement of CommandRuntime.                                       *)

(* What the host sees of a command, before and after a step.               *)
LEMMA SeenOf ==
    ASSUME NEW c \in Commands
    PROVE  /\ agent = "up" =>
                outcome[c] = IF Covers(barrier, c) THEN "retired" ELSE mem[c].state
           /\ agent # "up" =>
                outcome[c] = IF Covers(floor, c) THEN "retired"
                             ELSE IF Unresolved(disk[c]) THEN "unknown" ELSE disk[c].state
           /\ agent' = "up" =>
                outcome'[c] = IF Covers(barrier', c) THEN "retired" ELSE mem'[c].state
           /\ agent' # "up" =>
                outcome'[c] = IF Covers(floor', c) THEN "retired"
                              ELSE IF Unresolved(disk'[c]) THEN "unknown" ELSE disk'[c].state
  BY DEF outcome, Seen

(* What is seen is an outcome of the contract; a command that is seen to   *)
(* run is the active one.                                                  *)
Sees ==
    /\ outcome \in [Commands -> Contract!Outcomes]
    /\ \A c \in Commands : outcome[c] = "intent" => c = active

(* The invariant is enough for that.                                       *)
LEMMA SeenIsOutcome == GuestInv => Sees
  <1> SUFFICES ASSUME GuestInv PROVE Sees  OBVIOUS
  <1>1. ASSUME NEW c \in Commands
        PROVE  outcome[c] \in Contract!Outcomes /\ (outcome[c] = "intent" => c = active)
    <2>1. mem[c].state \in Known \union {"none", "intent", "unknown"}
          /\ disk[c].state \in Known \union {"none", "intent", "unknown"}
      BY TypeParts DEF Receipts
    <2>2. disk[c].state = "intent" => Unresolved(disk[c])  BY DEF Unresolved, Present, Terminal
    <2>3. agent = "up" => Registered(c)  BY DEF GuestInv, CommandOK
    <2>4. agent = "up" \/ agent # "up"  OBVIOUS
    <2>5. CASE agent = "up"
      BY <2>1, <2>3, <2>5, SeenOf DEF Registered, Contract!Outcomes, Contract!Known, Known
    <2>6. CASE agent # "up"
      BY <2>1, <2>2, <2>6, SeenOf DEF Contract!Outcomes, Contract!Known, Known
    <2> QED BY <2>4, <2>5, <2>6
  <1>2. outcome = [c \in Commands |-> outcome[c]]  BY DEF outcome
  <1> QED BY <1>1, <1>2 DEF Sees

(* A change that the contract allows.                                      *)
Moved(c) == outcome'[c] = outcome[c] \/ <<outcome[c], outcome'[c]>> \in Contract!Moves

(* The moves of the contract, spelled out.                                 *)
LEMMA MovesAre ==
    ASSUME NEW c \in Commands,
           \/ outcome'[c] = outcome[c]
           \/ outcome[c] = "none" /\ outcome'[c] \in {"intent", "unknown", "retired"}
           \/ outcome[c] = "intent" /\ outcome'[c] \in Known \union {"unknown"}
           \/ outcome[c] = "unknown" /\ outcome'[c] \in Known
           \/ outcome[c] \in Known /\ outcome'[c] = "retired"
    PROVE  Moved(c)
  BY DEF Moved, Contract!Moves, Contract!Known, Known

(* A step that moves neither the barrier nor the state of a receipt is not *)
(* seen.                                                                   *)
LEMMA UnseenStep ==
    ASSUME NEW c \in Commands, agent = "up", UNCHANGED <<agent, barrier>>,
           mem'[c].state = mem[c].state
    PROVE  Moved(c)
  <1>1. outcome'[c] = outcome[c]  BY SeenOf DEF Covers
  <1> QED BY <1>1, MovesAre

(* Requests and the task, of a live agent.                                 *)
LEMMA LiveMoves ==
    ASSUME GuestInv, NEW x \in Commands,
           \/ Start(x) \/ Cancel(x) \/ Shutdown \/ ShutdownCancels \/ TaskStep,
           NEW c \in Commands
    PROVE  Moved(c)
  <1>1. mem \in [Commands -> Receipts]  BY TypeParts
  <1>2. agent = "up" /\ UNCHANGED <<agent, barrier>>
    BY DEF Start, Startable, Cancel, Shutdown, ShutdownCancels, TaskStep, NoLaunch, Launch, Wait,
       CleanupKills, CleanupRemoves, Reap, Commit, At, TaskLocal, registry
  <1>3. CASE Start(x)
    <2>1. ~Present(mem[x])  BY <1>3 DEF Start, Startable
    <2>2. CASE mem' = [mem EXCEPT ![x] = Intent]
      <3>1. Intent.state = "intent"  BY DEF Intent, NoReceipt
      <3>2. CASE c = x
        <4>1. mem[c].state = "none" /\ mem'[c].state = "intent"
          BY <1>1, <2>1, <2>2, <3>1, <3>2 DEF Present
        <4> QED BY <1>2, <4>1, SeenOf, MovesAre DEF Covers
      <3>3. CASE c # x
        <4>1. mem'[c] = mem[c]  BY <1>1, <2>2, <3>3
        <4> QED BY <1>2, <4>1, UnseenStep
      <3> QED BY <3>2, <3>3
    <2>3. CASE UNCHANGED mem  BY <1>2, <2>3, UnseenStep
    <2> QED BY <1>3, <2>2, <2>3 DEF Start
  <1>4. ASSUME NEW d \in Commands, CancelReceipt(d) PROVE Moved(c)
    <2>1. mem' = [mem EXCEPT ![d] = [mem[d] EXCEPT !.asked = TRUE]] \/ UNCHANGED mem
      BY <1>4 DEF CancelReceipt
    <2>2. mem[d] \in Receipts  BY <1>1
    <2>3. PICK r : r = [mem[d] EXCEPT !.asked = TRUE]  OBVIOUS
    <2>4. r.state = mem[d].state  BY <2>2, <2>3 DEF Receipts
    <2>5. mem'[c].state = mem[c].state  BY <1>1, <2>1, <2>3, <2>4
    <2> QED BY <1>2, <2>5, UnseenStep
  <1>5. CASE Cancel(x)  BY <1>4, <1>5 DEF Cancel
  <1>6. CASE ShutdownCancels
    <2>1. closing \in Commands  BY <1>6, Ids, TypeParts DEF ShutdownCancels
    <2> QED BY <1>4, <1>6, <2>1 DEF ShutdownCancels
  <1>7. CASE Shutdown
    <2>1. UNCHANGED mem  BY <1>7 DEF Shutdown
    <2> QED BY <1>2, <2>1, UnseenStep
  <1>8. CASE NoLaunch \/ Launch \/ Wait \/ CleanupKills \/ CleanupRemoves \/ Reap
    <2>1. UNCHANGED mem
      BY <1>8 DEF NoLaunch, Launch, Wait, CleanupKills, CleanupRemoves, Reap, TaskLocal, registry
    <2> QED BY <1>2, <2>1, UnseenStep
  <1>9. CASE Commit
    <2>1. task.pc = "commit" /\ task.pc # "idle"  BY <1>9 DEF Commit, At
    <2>2. PICK a : a = active  OBVIOUS
    <2>3. a \in Commands /\ task.cmd = a /\ mem[a].state = "intent"
      BY <1>2, <2>1, <2>2, TaskFacts
    <2>4. PICK r : r = Outcome(a)  OBVIOUS
    <2>5. r \in Receipts /\ r.state \in Known \union {"unknown"}
      BY <1>2, <2>1, <2>2, <2>3, <2>4, OutcomeTrue
    <2>6. \/ mem' = [mem EXCEPT ![a] = r]
          \/ mem' = [mem EXCEPT ![a] = [r EXCEPT !.state = "unknown"]]
      BY <1>9, <2>3, <2>4 DEF Commit
    <2>7. [r EXCEPT !.state = "unknown"].state = "unknown"  BY <2>5 DEF Receipts
    <2>8. PICK q : mem' = [mem EXCEPT ![a] = q] /\ q.state \in Known \union {"unknown"}
      BY <2>5, <2>6, <2>7
    <2>9. CASE c = a
      <3>1. mem[c].state = "intent" /\ mem'[c].state \in Known \union {"unknown"}
        BY <1>1, <2>3, <2>8, <2>9
      <3> QED BY <1>2, <3>1, SeenOf, MovesAre DEF Covers
    <2>10. CASE c # a
      <3>1. mem'[c] = mem[c]  BY <1>1, <2>8, <2>10
      <3> QED BY <1>2, <3>1, UnseenStep
    <2> QED BY <2>9, <2>10
  <1> QED BY <1>3, <1>5, <1>6, <1>7, <1>8, <1>9 DEF TaskStep

(* Retirement moves resolved and unused commands only.                     *)
LEMMA RetireMoves ==
    ASSUME GuestInv, NEW t \in Commands, RetireHistory(t), NEW c \in Commands
    PROVE  Moved(c)
  <1>1. /\ agent = "up" /\ agent' = "up" /\ t > barrier
        /\ Covers(t, c) /\ Present(mem[c]) => mem[c].state \in Known
    BY DEF RetireHistory, Retirable
  <1>2. CASE UNCHANGED <<barrier, mem>>  BY <1>1, <1>2, UnseenStep
  <1>3. CASE barrier' = t /\ (mem' = Pruned(mem, t) \/ UNCHANGED mem)
    <2>1. barrier \in Nat /\ t \in Nat /\ c \in Nat  BY Ids, TypeParts
    <2>2. CASE Covers(t, c)
      <3>1. outcome'[c] = "retired"  BY <1>1, <1>3, <2>2, SeenOf
      <3>2. outcome[c] \in Known \union {"none", "retired"}
        BY <1>1, <2>2, SeenOf DEF Present
      <3> QED BY <3>1, <3>2, MovesAre
    <2>3. CASE ~Covers(t, c)
      <3>1. ~Covers(barrier, c)  BY <1>1, <2>1, <2>3 DEF Covers
      <3>2. mem'[c] = mem[c]  BY <1>3, <2>3 DEF Pruned
      <3>3. outcome'[c] = outcome[c]  BY <1>1, <1>3, <2>3, <3>1, <3>2, SeenOf
      <3> QED BY <3>3, MovesAre
    <2> QED BY <2>2, <2>3
  <1> QED BY <1>2, <1>3 DEF RetireHistory

(* A death of the agent, and its reopening: what the next agent answers is *)
(* what the last one answered, or what the contract lets it become.        *)
LEMMA DeathMoves ==
    ASSUME GuestInv, AgentDies, NEW c \in Commands
    PROVE  Moved(c)
  <1>1. agent' = "down" /\ UNCHANGED <<disk, floor>>  BY DEF AgentDies
  <1>2. CASE agent # "up"
    <2>1. outcome'[c] = outcome[c]  BY <1>1, <1>2, SeenOf DEF Covers, Unresolved, Present, Terminal
    <2> QED BY <2>1, MovesAre
  <1>3. CASE agent = "up"
    <2>1. Registered(c) /\ Valid(disk[c]) /\ barrier <= floor
      BY <1>3 DEF GuestInv, Controlled, CommandOK, Receipted, Truthful
    <2>2. /\ mem[c].state \in Known \union {"none", "intent", "unknown"}
          /\ disk[c].state \in Known \union {"none", "intent", "unknown"}
      BY TypeParts DEF Receipts
    <2>3. barrier \in Nat /\ floor \in Nat /\ c \in Nat  BY Ids, TypeParts
    <2>4. Covers(barrier, c) => Covers(floor, c)  BY <2>1, <2>3 DEF Covers
    <2>5. CASE Covers(barrier, c)
      BY <1>1, <1>3, <2>4, <2>5, SeenOf, MovesAre
    <2>6. CASE ~Covers(barrier, c) /\ Covers(floor, c)
      <3>1. outcome[c] \in Known \union {"none"} /\ outcome'[c] = "retired"
        BY <1>1, <1>3, <2>1, <2>6, SeenOf DEF Registered
      <3> QED BY <3>1, MovesAre
    <2>7. CASE ~Covers(floor, c)
      <3>1. /\ outcome[c] = mem[c].state
            /\ outcome'[c] = IF Unresolved(disk[c]) THEN "unknown" ELSE disk[c].state
        BY <1>1, <1>3, <2>4, <2>7, SeenOf
      <3>2. disk[c].state = "intent" => outcome'[c] = "unknown"
        BY <3>1 DEF Unresolved, Present, Terminal
      <3>3. disk[c].state \in Known => outcome'[c] = disk[c].state
        BY <2>1, <3>1 DEF Unresolved, Valid, Terminal, Known
      <3>4. disk[c].state = "unknown" => outcome'[c] = "unknown"  BY <3>1
      <3>5. disk[c].state = "none" => outcome'[c] = "none"
        BY <3>1 DEF Unresolved, Present
      <3>6. CASE mem[c].state = "none"
        BY <2>1, <2>7, <3>1, <3>2, <3>5, <3>6, MovesAre DEF Registered
      <3>7. CASE mem[c].state \in Known
        BY <2>1, <2>7, <3>1, <3>3, <3>7, MovesAre DEF Registered
      <3>8. CASE mem[c].state = "intent"
        <4>1. disk[c].state = "intent"  BY <2>1, <3>8 DEF Registered
        <4> QED BY <3>1, <3>2, <3>8, <4>1, MovesAre
      <3>9. CASE mem[c].state = "unknown"
        <4>1. disk[c].state \in Known \union {"intent", "unknown"}
          BY <2>1, <2>2, <2>7, <3>9 DEF Registered, Present
        <4> QED BY <3>1, <3>2, <3>3, <3>4, <3>9, <4>1, MovesAre
      <3> QED BY <2>2, <3>6, <3>7, <3>8, <3>9
    <2> QED BY <2>5, <2>6, <2>7
  <1> QED BY <1>2, <1>3

(* Opening resolves nothing that the host was told otherwise about.        *)
LEMMA OpenMoves ==
    ASSUME GuestInv, OpenStep, NEW c \in Commands
    PROVE  Moved(c)
  <1>1. agent # "up" /\ UNCHANGED floor /\ disk \in [Commands -> Receipts]
    BY TypeParts DEF OpenStep, OpenBegins, RecoverKills, RecoverMarks, OpenReady
  <1> SUFFICES outcome'[c] = outcome[c]  BY MovesAre
  <1>2. ASSUME agent' # "up", disk'[c] = disk[c] PROVE outcome'[c] = outcome[c]
    BY <1>1, <1>2, SeenOf DEF Covers, Unresolved, Present, Terminal
  <1>3. CASE OpenBegins
    <2>1. agent' # "up" /\ disk' = Pruned(disk, floor)  BY <1>3 DEF OpenBegins
    <2>2. CASE Covers(floor, c)
      <3>1. Covers(floor', c)  BY <1>1, <2>2 DEF Covers
      <3> QED BY <1>1, <2>1, <2>2, <3>1, SeenOf
    <2>3. CASE ~Covers(floor, c)
      <3>1. disk'[c] = disk[c]  BY <2>1, <2>3 DEF Pruned
      <3> QED BY <1>2, <2>1, <3>1
    <2> QED BY <2>2, <2>3
  <1>4. CASE \E x \in Commands : RecoverKills(x)
    <2>1. agent' # "up" /\ UNCHANGED disk  BY <1>1, <1>4 DEF RecoverKills
    <2> QED BY <1>2, <2>1
  <1>5. CASE RecoverMarks
    <2>1. PICK x : x = task.cmd  OBVIOUS
    <2>2. x \in Commands /\ Unresolved(disk[x])
      BY <1>5, <2>1 DEF RecoverMarks, GuestInv, Controlled
    <2>3. PICK r : r = Lost(disk[x])  OBVIOUS
    <2>4. agent' # "up" /\ (disk' = [disk EXCEPT ![x] = r] \/ UNCHANGED disk)
      BY <1>1, <1>5, <2>1, <2>3 DEF RecoverMarks, Written, WriteFails
    <2>5. r.state = "unknown"
      <3>1. disk[x] \in Receipts  BY <1>1, <2>2
      <3> QED BY <2>3, <3>1 DEF Lost, Receipts
    <2>6. CASE c = x /\ disk' = [disk EXCEPT ![x] = r]
      <3>1. disk'[c] = r  BY <1>1, <2>6
      <3>2. (IF Unresolved(disk'[c]) THEN "unknown" ELSE disk'[c].state) = "unknown"
        BY <2>5, <3>1
      <3>3. Covers(floor', c) <=> Covers(floor, c)  BY <1>1 DEF Covers
      <3> QED BY <1>1, <2>2, <2>4, <2>6, <3>2, <3>3, SeenOf
    <2>7. CASE ~(c = x /\ disk' = [disk EXCEPT ![x] = r])
      <3>1. disk'[c] = disk[c]  BY <1>1, <2>4, <2>7
      <3> QED BY <1>2, <2>4, <3>1
    <2> QED BY <2>6, <2>7
  <1>6. CASE OpenReady
    <2>1. agent' = "up" /\ mem' = disk /\ barrier' = barrier /\ ~Unresolved(disk[c])
          /\ barrier = floor
      BY <1>6 DEF OpenReady, GuestInv, Controlled
    <2>2. Covers(barrier', c) <=> Covers(floor, c)  BY <2>1 DEF Covers
    <2> QED BY <1>1, <2>1, <2>2, SeenOf
  <1> QED BY <1>3, <1>4, <1>5, <1>6 DEF OpenStep

(* Every step of the runner is a step of the contract, or none.            *)
LEMMA ContractStep ==
    ASSUME GuestInv, Sees', [Next]_vars
    PROVE  [Contract!Next]_outcome
  <1>1. SUFFICES ASSUME Next PROVE Contract!Next
    <2>1. CASE UNCHANGED vars
      <3>1. UNCHANGED <<agent, mem, barrier, disk, floor>>  BY <2>1 DEF vars, registry
      <3>2. UNCHANGED outcome  BY <3>1 DEF outcome, Seen
      <3> QED BY <3>2
    <2> QED BY <1>1, <2>1
  <1>2. ASSUME NEW c \in Commands PROVE Moved(c)
    <2>1. CASE \E x \in Commands : Start(x) \/ Cancel(x)  BY <2>1, LiveMoves
    <2>2. CASE Shutdown \/ ShutdownCancels \/ TaskStep  BY <2>2, LiveMoves
    <2>3. CASE \E x \in Commands : RetireHistory(x)  BY <2>3, RetireMoves
    <2>4. CASE \E x \in Commands : LauncherJoins(x) \/ LauncherFails(x)
                                      \/ LauncherExecutes(x) \/ CommandExits(x)
      <3>1. UNCHANGED <<agent, mem, barrier, disk, floor>>
        BY <2>4 DEF LauncherJoins, LauncherFails, LauncherExecutes, CommandExits, Apart, registry
      <3>2. UNCHANGED outcome  BY <3>1 DEF outcome, Seen
      <3> QED BY <3>2 DEF Moved
    <2>5. CASE AgentDies  BY <2>5, DeathMoves
    <2>6. CASE OpenStep  BY <2>6, OpenMoves
    <2> QED BY <1>1, <2>1, <2>2, <2>3, <2>4, <2>5, <2>6 DEF Next
  <1>3. outcome' \in [Commands -> Contract!Outcomes]
        /\ \A c \in Commands : outcome'[c] = "intent" => c = active'
    BY DEF Sees
  <1>4. Contract!Solo(outcome')  BY <1>3 DEF Contract!Solo
  <1> QED BY <1>2, <1>3, <1>4 DEF Contract!Next, Moved

(* The runner implements the contract of CommandRuntime, through crashes   *)
(* and failed writes: what the host sees of a command only moves forward.  *)
THEOREM GuestImplementsContract == Spec => ContractHolds
  <1>1. Init => Contract!Init
    <2> SUFFICES ASSUME Init PROVE Contract!Init  OBVIOUS
    <2>1. ASSUME NEW c \in Commands PROVE outcome[c] = "none"
      <3>1. agent = "up" /\ mem[c].state = "none" /\ ~Covers(barrier, c)
        BY Ids DEF Init, NoReceipt, Covers
      <3> QED BY <3>1, SeenOf
    <2>2. outcome = [c \in Commands |-> outcome[c]]  BY DEF outcome
    <2> QED BY <2>1, <2>2 DEF Contract!Init
  <1>2. GuestInv /\ Sees' /\ [Next]_vars => [Contract!Next]_outcome  BY ContractStep
  <1> QED BY <1>1, <1>2, SeenIsOutcome, GuestInvariant, PTL DEF Spec, ContractHolds, Contract!Spec
=============================================================================
