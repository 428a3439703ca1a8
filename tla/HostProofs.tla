----------------------------- MODULE HostProofs -----------------------------
(***************************************************************************)
(* Proofs about HostSupervisor: for any number of allocations, threads,    *)
(* requests, crashes and failed writes the journal on disk is one the next *)
(* process accepts, release evidence that left the host stays true, and    *)
(* what exists on the host fits its capacity.  The properties relate the   *)
(* disk to the directories; the handlers act on what they remember of the  *)
(* record in memory.  HostInv closes the gap: the gate makes what its      *)
(* holder remembers current, an unpoisoned journal has memory equal to     *)
(* disk, and a poisoned one is never written again.                        *)
(***************************************************************************)
EXTENDS HostSupervisor, FiniteSetTheorems, TLAPS

Held == {"fence", "create", "prepare", "dispatch", "spawn", "wait", "halt", "observe",
         "release", "reply"}
Points == {"idle", "gate", "lock", "try"} \union Held
Kinds == {"none", "create", "inspect", "stop", "lease", "previous", "reconcile"}
Handlers == [pc : Points, alloc : Allocs \union {None}, kind : Kinds, rev : Nat,
             created : BOOLEAN, stopped : BOOLEAN]

HostTypes ==
    /\ TypeOK /\ thr \in [Threads -> Handlers]
    /\ said \in [Allocs -> SUBSET Evidence]

(* A busy thread works on an allocation of a live process, and from the    *)
(* fence to the reply it holds that allocation's gate.                     *)
Busy(t) == thr[t].pc # "idle"
Gated ==
    \A t \in Threads :
        /\ Busy(t) => alive /\ Alloc(t) \in Allocs
        /\ thr[t].pc \in Held => gate[Alloc(t)] = t

(* What open() demands of a record, in the order the columns are set.      *)
Ordered(r) ==
    /\ r.created \/ r.stopped => r.present
    /\ r.dispatched => r.created
    /\ r.released => r.stopped /\ r.created

(* Everything in s is still in r.                                          *)
Below(s, r) ==
    /\ s.present => r.present
    /\ s.created => r.created
    /\ s.dispatched => r.dispatched
    /\ s.stopped => r.stopped
    /\ s.released => r.released

(* The two copies of the journal: equal until a write is uncertain, and    *)
(* then one write apart.                                                   *)
Journal ==
    /\ \A a \in Allocs : Ordered(mem[a]) /\ Ordered(disk[a])
    /\ alive => \A a \in Allocs : Below(disk[a], mem[a])
    /\ alive /\ ~poisoned => disk = mem

(* What a handler remembers is durable, and under the gate it is current.  *)
Remembers(t) ==
    LET a == Alloc(t)
    IN  Busy(t) =>
        /\ thr[t].created => disk[a].created
        /\ thr[t].stopped => disk[a].stopped
        /\ thr[t].kind = "reconcile" => thr[t].created
        /\ thr[t].pc \in {"gate", "lock", "fence"} => ~thr[t].created /\ ~thr[t].stopped
        /\ thr[t].pc \notin {"gate", "try"} => mem[a].present
        /\ thr[t].pc \in Held \ {"fence"} => (mem[a].created => thr[t].created)
        /\ thr[t].pc = "create" => (mem[a].stopped => thr[t].stopped)
        /\ thr[t].pc = "try" => thr[t].kind \in {"previous", "reconcile"}

(* Where a launch stands.                                                  *)
Launching(t) ==
    LET a == Alloc(t)
    IN  /\ thr[t].pc \in {"prepare", "dispatch", "spawn", "release", "reply"} => thr[t].created
        /\ thr[t].pc \in {"prepare", "dispatch", "spawn"} => spawned[a] = 0
        /\ thr[t].pc \in {"dispatch", "spawn"} => dir[a] # "none"
        /\ thr[t].pc = "spawn" => disk[a].dispatched
        /\ thr[t].pc \in {"release", "reply"} => dir[a] = "stopped"
        /\ thr[t].pc = "reply" => disk[a].stopped

Handling == \A t \in Threads : Remembers(t) /\ Launching(t)

(* Directories and processes against the journal.                          *)
Grounded(a) ==
    /\ dir[a] # "none" => disk[a].created
    /\ spawned[a] > 0 => spawned[a] = 1 /\ disk[a].dispatched /\ dir[a] # "none"
    /\ mem[a].released \/ disk[a].released => dir[a] = "stopped"
    /\ said[a] # {} =>
          /\ disk[a].stopped /\ mem[a].stopped
          /\ dir[a] = "stopped" \/ (~disk[a].created /\ ~mem[a].created)

Files == \A a \in Allocs : Grounded(a)

HostInv == HostTypes /\ Gated /\ Journal /\ Handling /\ Files

(* Reserved capacity, in memory and on disk.                               *)
DiskUsed == {a \in Allocs : disk[a].created /\ ~disk[a].released}
Room == Cardinality(Used) <= Capacity /\ Cardinality(DiskUsed) <= Capacity

-----------------------------------------------------------------------------
(* Steps of one handler.                                                   *)

(* The journal's view of one allocation, and a handler's own obligations:  *)
(* the invariant, one allocation and one thread at a time.                 *)
Kept(a) == Grounded(a) /\ Ordered(mem[a]) /\ Ordered(disk[a]) /\ Below(disk[a], mem[a])
Mine(t) ==
    /\ Busy(t) => alive /\ Alloc(t) \in Allocs
    /\ thr[t].pc \in Held => gate[Alloc(t)] = t
    /\ Remembers(t) /\ Launching(t)

(* A handler of allocation a changes nothing of another thread or          *)
(* allocation, takes a gate only when it is free, and only adds to what    *)
(* the journal knows; without the gate it decides nothing about a.         *)
Local(t, a) ==
    /\ alive' = alive /\ (~poisoned' => disk' = mem')
    /\ \A u \in Threads \ {t} : thr'[u] = thr[u]
    /\ \A b \in Allocs : gate'[b] = gate[b] \/ gate[b] \in {t, None}
    /\ \A b \in Allocs \ {a} :
          /\ mem'[b] = mem[b] /\ disk'[b] = disk[b]
          /\ dir'[b] = dir[b] /\ spawned'[b] = spawned[b] /\ said'[b] = said[b]
    /\ Below(mem[a], mem'[a]) /\ Below(disk[a], disk'[a])
    /\ dir[a] # "none" => dir'[a] # "none"
    /\ dir[a] = "stopped" => dir'[a] = "stopped"
    /\ thr[t].pc \notin Held =>
          /\ mem'[a].created = mem[a].created /\ mem'[a].stopped = mem[a].stopped
          /\ dir'[a] = dir[a] /\ spawned'[a] = spawned[a]

(* A column added to a record leaves it a record (the journal updates).    *)
LEMMA RecordTypes ==
    ASSUME NEW r \in Records, NEW k \in Claims, NEW n \in Nat
    PROVE  /\ [NoRecord EXCEPT !.present = TRUE] \in Records /\ NoRecord \in Records
           /\ [r EXCEPT !.rev[k] = n] \in Records /\ [r EXCEPT !.created = TRUE] \in Records
           /\ [r EXCEPT !.dispatched = TRUE] \in Records /\ [r EXCEPT !.stopped = TRUE] \in Records
           /\ [r EXCEPT !.stopped = TRUE, !.released = TRUE] \in Records
  BY DEF Records, NoRecord, Claims

(* A handler that moves on is a handler.                                   *)
LEMMA HandlerTypes ==
    ASSUME NEW h \in Handlers, NEW pc \in Points, NEW x \in BOOLEAN, NEW y \in BOOLEAN
    PROVE  /\ [h EXCEPT !.pc = pc] \in Handlers /\ Idle \in Handlers
           /\ [h EXCEPT !.pc = pc, !.created = TRUE] \in Handlers
           /\ [h EXCEPT !.pc = pc, !.stopped = TRUE] \in Handlers
           /\ [h EXCEPT !.created = x, !.stopped = y, !.pc = pc] \in Handlers
  <1>1. [h EXCEPT !.pc = pc] \in Handlers  BY DEF Handlers
  <1>2. Idle \in Handlers  BY DEF Handlers, Idle, Points, Kinds
  <1>3. [h EXCEPT !.pc = pc, !.created = TRUE] \in Handlers  BY DEF Handlers
  <1>4. [h EXCEPT !.pc = pc, !.stopped = TRUE] \in Handlers  BY DEF Handlers
  <1>5. [h EXCEPT !.created = x, !.stopped = y, !.pc = pc] \in Handlers  BY DEF Handlers
  <1> QED BY <1>1, <1>2, <1>3, <1>4, <1>5

(* What a critical section that writes the journal does, whether or not    *)
(* the write was certain (Save).                                           *)
LEMMA Written ==
    ASSUME HostTypes, Journal, alive, NEW t \in Threads, NEW a \in Allocs, a = Alloc(t),
           NEW r \in Records, NEW next \in Handlers, Save(t, r, next)
    PROVE  /\ mem' \in [Allocs -> Records] /\ disk' \in [Allocs -> Records]
           /\ disk[a] = mem[a] /\ mem'[a] = r /\ disk'[a] \in {mem[a], r}
           /\ \A b \in Allocs \ {a} : mem'[b] = mem[b] /\ disk'[b] = disk[b]
           /\ poisoned' \in BOOLEAN /\ (~poisoned' => disk' = mem') /\ faults' \in Nat
           /\ \/ disk'[a] = r /\ thr' = [thr EXCEPT ![t] = next] /\ gate' = gate
              \/ Return(t)
  <1>1. disk = mem /\ mem \in [Allocs -> Records] /\ poisoned = FALSE /\ faults \in Nat
    BY DEF Save, Journal, HostTypes, TypeOK
  <1>2. mem' = [mem EXCEPT ![a] = r] /\ disk' \in {mem, mem'}
    BY <1>1 DEF Save
  <1>3. disk' \in [Allocs -> Records] /\ mem' \in [Allocs -> Records]
    BY <1>1, <1>2
  <1>4. \/ disk' = mem' /\ thr' = [thr EXCEPT ![t] = next] /\ gate' = gate /\ poisoned' = poisoned
           /\ faults' = faults
        \/ Return(t) /\ poisoned' = TRUE /\ faults' = faults + 1
    BY DEF Save, Fault
  <1>5. disk[a] = mem[a] /\ mem'[a] = r /\ disk'[a] \in {mem[a], r}
    BY <1>1, <1>2
  <1>6. \A b \in Allocs \ {a} : mem'[b] = mem[b] /\ disk'[b] = disk[b]
    BY <1>1, <1>2
  <1>7. poisoned' \in BOOLEAN /\ (~poisoned' => disk' = mem') /\ faults' \in Nat
    <2>1. CASE poisoned' = poisoned /\ disk' = mem' /\ faults' = faults  BY <1>1, <2>1
    <2>2. CASE poisoned' = TRUE /\ faults' = faults + 1  BY <1>1, <2>2
    <2> QED BY <1>4, <2>1, <2>2
  <1>8. \/ disk'[a] = r /\ thr' = [thr EXCEPT ![t] = next] /\ gate' = gate
        \/ Return(t)
    BY <1>2, <1>4, <1>5
  <1> QED BY <1>3, <1>5, <1>6, <1>7, <1>8

(* How a handler's thread and gate change: it moves on, or it returns.     *)
LEMMA Moved ==
    ASSUME HostTypes, NEW t \in Threads, NEW h \in Handlers,
           thr' = [thr EXCEPT ![t] = h]
    PROVE  /\ thr' \in [Threads -> Handlers] /\ thr'[t] = h
           /\ \A u \in Threads \ {t} : thr'[u] = thr[u]
  BY DEF HostTypes

(* A handler that answers gives its gate back and is idle.                 *)
LEMMA Returned ==
    ASSUME HostTypes, NEW t \in Threads, Return(t)
    PROVE  /\ thr' \in [Threads -> Handlers] /\ thr'[t] = Idle
           /\ gate' \in [Allocs -> Threads \union {None}]
           /\ \A u \in Threads \ {t} : thr'[u] = thr[u]
           /\ \A b \in Allocs : gate'[b] = gate[b] \/ gate[b] = t
           /\ Mine(t)'
  <1>1. Idle \in Handlers  BY DEF Handlers, Idle, Points, Kinds
  <1>2. thr' = [thr EXCEPT ![t] = Idle]  BY DEF Return
  <1>3. thr' \in [Threads -> Handlers] /\ thr'[t] = Idle
        /\ \A u \in Threads \ {t} : thr'[u] = thr[u]
    BY <1>1, <1>2, Moved
  <1>4. Mine(t)'
    BY <1>3 DEF Mine, Busy, Remembers, Launching, Idle, Held
  <1>5. gate' \in [Allocs -> Threads \union {None}]
        /\ \A b \in Allocs : gate'[b] = gate[b] \/ gate[b] = t
    BY DEF Return, HostTypes, TypeOK
  <1> QED BY <1>3, <1>4, <1>5

(* A local step that keeps its own allocation and thread in order keeps    *)
(* every other in order too: the gate's holder is undisturbed.             *)
LEMMA Framed ==
    ASSUME HostInv, HostTypes', NEW t \in Threads, NEW a \in Allocs, alive,
           thr[t].pc \in Held => gate[a] = t,
           Local(t, a), Kept(a)', Mine(t)'
    PROVE  HostInv'
  <1>1. ASSUME NEW u \in Threads \ {t} PROVE Mine(u)'
    <2>1. thr'[u] = thr[u] /\ Mine(u)
      BY DEF Local, HostInv, Gated, Handling, Mine
    <2>2. thr[u].pc \in Held => gate'[Alloc(u)] = u
      BY <2>1, HostAssumption DEF Local, Mine, Busy, Held
    <2>3. CASE Alloc(u) # a
      BY <2>1, <2>2, <2>3 DEF Local, Mine, Busy, Remembers, Launching, Alloc, Held
    <2>4. CASE Alloc(u) = a /\ thr[u].pc \notin Held
      BY <2>1, <2>2, <2>4 DEF Local, Mine, Busy, Remembers, Launching, Alloc, Held, Below
    <2>5. CASE Alloc(u) = a /\ thr[u].pc \in Held
      BY <2>1, <2>2, <2>5 DEF Local, Mine, Busy, Remembers, Launching, Alloc, Held, Below
    <2> QED BY <2>3, <2>4, <2>5
  <1>2. Gated' /\ Handling'
    BY <1>1 DEF Gated, Handling, Mine
  <1>3. ASSUME NEW b \in Allocs \ {a} PROVE Kept(b)'
    BY DEF Local, Kept, HostInv, Journal, Files, Grounded, Ordered, Below
  <1>4. Journal' /\ Files'
    BY <1>3 DEF Journal, Files, Kept, Local
  <1> QED BY <1>2, <1>4 DEF HostInv

(* A step that only ends a handler, with whatever answer.                  *)
LEMMA Ends ==
    ASSUME HostInv, NEW t \in Threads, Return(t), Steady, UNCHANGED <<journalVars, guardVars>>,
           faults' \in Nat, said' = said
    PROVE  HostInv'
  <1>1. HostTypes'
    BY Returned DEF HostInv, HostTypes, TypeOK, Steady, journalVars, guardVars
  <1>2. Mine(t)'  BY Returned DEF HostInv
  <1>3. \A u \in Threads \ {t} : Mine(u)'
    BY Returned, HostAssumption
       DEF HostInv, Mine, Busy, Remembers, Launching, Alloc, Gated, Handling, Held, Steady,
           journalVars, guardVars
  <1>4. Gated' /\ Handling'  BY <1>2, <1>3 DEF Gated, Handling, Mine
  <1>5. Journal' /\ Files'
    BY DEF HostInv, Journal, Files, Grounded, Ordered, Below, Steady, journalVars, guardVars
  <1> QED BY <1>1, <1>4, <1>5 DEF HostInv

(* Record r only adds to what the journal has for the handler's allocation *)
(* and claims no more than the directory shows.                            *)
Advances(t, a, r) ==
    /\ Ordered(r) /\ Below(mem[a], r)
    /\ r.released => dir[a] = "stopped"
    /\ said[a] # {} => dir[a] = "stopped" \/ ~r.created
    /\ thr[t].pc \notin Held => r.created = mem[a].created /\ r.stopped = mem[a].stopped

(* The critical section that writes r succeeded.                           *)
WroteIt(t, a, r, next) == disk'[a] = r /\ mem'[a] = r /\ gate' = gate /\ thr'[t] = next

(* A critical section that writes an advancing record keeps the invariant, *)
(* if the handler goes on knowing what it wrote.                           *)
LEMMA Saves ==
    ASSUME HostInv, NEW t \in Threads, Busy(t), NEW a \in Allocs, a = Alloc(t),
           NEW r \in Records, NEW next \in Handlers, Save(t, r, next),
           Steady, UNCHANGED <<guardVars, said>>,
           Advances(t, a, r), WroteIt(t, a, r, next) => Mine(t)'
    PROVE  HostInv'
  <1>1. alive /\ HostTypes /\ Journal /\ Gated /\ Files /\ (thr[t].pc \in Held => gate[a] = t)
    BY DEF HostInv, Gated
  <1>2. /\ mem' \in [Allocs -> Records] /\ disk' \in [Allocs -> Records]
        /\ disk[a] = mem[a] /\ mem'[a] = r /\ disk'[a] \in {mem[a], r}
        /\ \A b \in Allocs \ {a} : mem'[b] = mem[b] /\ disk'[b] = disk[b]
        /\ poisoned' \in BOOLEAN /\ (~poisoned' => disk' = mem') /\ faults' \in Nat
    BY <1>1, Written
  <1>3. \/ disk'[a] = r /\ thr' = [thr EXCEPT ![t] = next] /\ gate' = gate
        \/ Return(t)
    BY <1>1, Written
  <1>4. /\ thr' \in [Threads -> Handlers] /\ gate' \in [Allocs -> Threads \union {None}]
        /\ \A u \in Threads \ {t} : thr'[u] = thr[u]
        /\ \A b \in Allocs : gate'[b] = gate[b] \/ gate[b] = t
        /\ Mine(t)'
    <2>1. CASE Return(t)  BY <1>1, <2>1, Returned
    <2>2. CASE disk'[a] = r /\ thr' = [thr EXCEPT ![t] = next] /\ gate' = gate
      <3>1. thr'[t] = next /\ thr' \in [Threads -> Handlers]
            /\ \A u \in Threads \ {t} : thr'[u] = thr[u]
        BY <1>1, <2>2, Moved
      <3>2. Mine(t)'  BY <1>2, <2>2, <3>1 DEF WroteIt
      <3> QED BY <1>1, <2>2, <3>1, <3>2 DEF HostTypes, TypeOK
    <2> QED BY <1>3, <2>1, <2>2
  <1>5. HostTypes'
    BY <1>1, <1>2, <1>4 DEF HostTypes, TypeOK, Steady, guardVars
  <1>6. Local(t, a)
    BY <1>1, <1>2, <1>4 DEF Local, Steady, guardVars, Below, Advances
  <1>7. Kept(a)'
    BY <1>1, <1>2 DEF Kept, Files, Grounded, Journal, Ordered, Below, guardVars, Advances
  <1> QED BY <1>1, <1>4, <1>5, <1>6, <1>7, Framed

(* What a handler may change outside the journal: its thread, its gate and *)
(* its allocation's files, which never come back once they are gone.       *)
Touches(t, a) ==
    /\ \A u \in Threads \ {t} : thr'[u] = thr[u]
    /\ \A b \in Allocs : gate'[b] = gate[b] \/ gate[b] \in {t, None}
    /\ \A b \in Allocs \ {a} : dir'[b] = dir[b] /\ spawned'[b] = spawned[b] /\ said'[b] = said[b]
    /\ dir[a] # "none" => dir'[a] # "none"
    /\ dir[a] = "stopped" => dir'[a] = "stopped"
    /\ thr[t].pc \notin Held => dir'[a] = dir[a] /\ spawned'[a] = spawned[a]

(* Such a step keeps the invariant if its own allocation and thread stay   *)
(* in order.                                                               *)
LEMMA Acts ==
    ASSUME HostInv, NEW t \in Threads, Busy(t), NEW a \in Allocs, a = Alloc(t),
           UNCHANGED journalVars, Steady, HostTypes',
           Touches(t, a), Grounded(a)', Mine(t)'
    PROVE  HostInv'
  <1>1. alive /\ (thr[t].pc \in Held => gate[a] = t)
    BY DEF HostInv, Gated
  <1>2. Local(t, a)
    BY <1>1 DEF Local, Steady, journalVars, Below, HostInv, Journal, Touches
  <1>3. Kept(a)'
    BY <1>1 DEF Kept, HostInv, Journal, journalVars, Ordered, Below
  <1> QED BY <1>1, <1>2, <1>3, Framed

-----------------------------------------------------------------------------
(* One step per operation.                                                 *)

(* Moving on with the same gate keeps the types.                           *)
LEMMA GoesOn ==
    ASSUME HostInv, NEW t \in Threads, NEW pc \in Points, Goto(t, pc)
    PROVE  /\ thr' \in [Threads -> Handlers] /\ gate' = gate
           /\ thr'[t] = [thr[t] EXCEPT !.pc = pc]
           /\ \A u \in Threads \ {t} : thr'[u] = thr[u]
  <1>1. [thr[t] EXCEPT !.pc = pc] \in Handlers  BY HandlerTypes DEF HostInv, HostTypes
  <1>2. thr' = [thr EXCEPT ![t] = [thr[t] EXCEPT !.pc = pc]] /\ gate' = gate
    BY DEF Goto, HostInv, HostTypes
  <1> QED BY <1>1, <1>2, Moved DEF HostInv

(* What the invariant says about a busy handler and its allocation.        *)
LEMMA Knows ==
    ASSUME HostInv, NEW t \in Threads, Busy(t), NEW a, a = Alloc(t)
    PROVE  /\ a \in Allocs /\ thr[t] \in Handlers /\ mem[a] \in Records /\ HostTypes /\ alive
           /\ Kept(a) /\ Mine(t)
  BY DEF HostInv, Gated, Handling, Files, HostTypes, TypeOK, Journal, Mine, Kept

(* The record found or admitted, and the gate taken.                       *)
LEMMA EnterStep ==
    ASSUME HostInv, NEW t \in Threads, FindGate(t) \/ LeaseAbsent(t) \/ LockGate(t)
    PROVE  HostInv'
  <1>a. PICK a : a = Alloc(t)  OBVIOUS
  <1>0. Busy(t)
    BY DEF FindGate, LeaseAbsent, LockGate, At, Busy
  <1>1. /\ a \in Allocs /\ thr[t] \in Handlers /\ mem[a] \in Records /\ HostTypes /\ alive
        /\ Kept(a) /\ Mine(t)
    BY <1>0, <1>a, Knows
  <1>2. CASE FindGate(t)
    <2>0. Steady /\ UNCHANGED <<guardVars, said>> /\ thr[t].pc = "gate" /\ thr[t].alloc = a
      BY <1>a, <1>2 DEF FindGate, At, Alloc
    <2>1. CASE mem[a].present /\ Goto(t, "lock") /\ UNCHANGED <<journalVars, faults>>
      <3>1. /\ thr' \in [Threads -> Handlers] /\ gate' = gate
            /\ thr'[t] = [thr[t] EXCEPT !.pc = "lock"]
            /\ \A u \in Threads \ {t} : thr'[u] = thr[u]
        BY <2>1, GoesOn DEF Points
      <3>2. HostTypes'
        BY <1>1, <2>0, <2>1, <3>1 DEF HostTypes, TypeOK, Steady, journalVars, guardVars
      <3>3. Mine(t)'
        BY <1>1, <2>0, <2>1, <3>1
           DEF Mine, Busy, Remembers, Launching, Alloc, Handlers, Held, Steady, journalVars
      <3>4. Grounded(a)'
        BY <1>1, <2>0, <2>1 DEF Kept, Grounded, journalVars, guardVars
      <3>5. Touches(t, a)  BY <2>0, <3>1 DEF Touches, guardVars
      <3>6. UNCHANGED journalVars  BY <2>1
      <3> QED BY <1>a, <1>0, <1>1, <2>0, <3>2, <3>3, <3>4, <3>5, <3>6, Acts
    <2>2. CASE ~mem[a].present /\ Save(t, [NoRecord EXCEPT !.present = TRUE],
                                       [thr[t] EXCEPT !.pc = "lock"])
      <3>a. PICK r, next : r = [NoRecord EXCEPT !.present = TRUE]
                           /\ next = [thr[t] EXCEPT !.pc = "lock"]
        OBVIOUS
      <3>1. r \in Records /\ r.present /\ ~r.created /\ ~r.stopped /\ ~r.dispatched /\ ~r.released
        BY <3>a DEF Records, NoRecord
      <3>2. /\ next \in Handlers /\ next.pc = "lock" /\ next.alloc = a
            /\ next.created = thr[t].created /\ next.stopped = thr[t].stopped
            /\ next.kind = thr[t].kind
        BY <1>1, <2>0, <3>a, HandlerTypes DEF Points, Handlers
      <3>3. Advances(t, a, r)
        BY <1>1, <2>2, <3>1 DEF Advances, Kept, Ordered, Below, Records
      <3>4. WroteIt(t, a, r, next) => Mine(t)'
        BY <1>1, <2>0, <3>1, <3>2
           DEF WroteIt, Mine, Busy, Remembers, Launching, Alloc, Held, Steady
      <3>5. Save(t, r, next)  BY <2>2, <3>a
      <3> QED BY <1>a, <1>0, <1>1, <2>0, <3>1, <3>2, <3>3, <3>4, <3>5, Saves
    <2> QED BY <1>a, <1>2, <2>1, <2>2 DEF FindGate
  <1>3. CASE LeaseAbsent(t)
    BY <1>1, <1>3, Ends DEF LeaseAbsent, Fails, HostTypes, TypeOK, journalVars, guardVars
  <1>4. CASE LockGate(t)
    <2>0. /\ Steady /\ UNCHANGED <<guardVars, said, faults>> /\ UNCHANGED journalVars
          /\ thr[t].pc = "lock" /\ thr[t].alloc = a
      BY <1>a, <1>4 DEF LockGate, At, Alloc
    <2>a. PICK next : next = [thr[t] EXCEPT !.pc = "fence"]  OBVIOUS
    <2>1. next \in Handlers /\ thr' = [thr EXCEPT ![t] = next]
      BY <1>1, <1>4, <2>a, HandlerTypes DEF LockGate, Points, Held, HostTypes
    <2>2. /\ thr' \in [Threads -> Handlers] /\ thr'[t] = next
          /\ \A u \in Threads \ {t} : thr'[u] = thr[u]
      BY <1>1, <2>1, Moved
    <2>3. /\ gate' \in [Allocs -> Threads \union {None}] /\ gate'[a] = t /\ gate[a] = None
          /\ \A b \in Allocs \ {a} : gate'[b] = gate[b]
      BY <1>a, <1>1, <1>4 DEF LockGate, HostTypes, TypeOK
    <2>4. HostTypes'
      BY <1>1, <2>0, <2>2, <2>3 DEF HostTypes, TypeOK, Steady, journalVars, guardVars
    <2>5. Mine(t)'
      BY <1>1, <2>a, <2>0, <2>2, <2>3
         DEF Mine, Busy, Remembers, Launching, Alloc, Handlers, Held, Steady, journalVars
    <2>6. Grounded(a)'
      BY <1>1, <2>0 DEF Kept, Grounded, journalVars, guardVars
    <2>7. Touches(t, a)  BY <2>0, <2>2, <2>3 DEF Touches, guardVars
    <2> QED BY <1>a, <1>0, <1>1, <2>0, <2>4, <2>5, <2>6, <2>7, Acts
  <1> QED BY <1>2, <1>3, <1>4

(* The claim's revision is fenced and the record read under the gate.      *)
LEMMA FenceStep ==
    ASSUME HostInv, NEW t \in Threads, Fence(t)
    PROVE  HostInv'
  <1>a. PICK a : a = Alloc(t)  OBVIOUS
  <1>0. Busy(t)
    BY DEF Fence, At, Busy
  <1>1. /\ a \in Allocs /\ thr[t] \in Handlers /\ mem[a] \in Records /\ HostTypes /\ alive
        /\ Kept(a) /\ Mine(t)
    BY <1>0, <1>a, Knows
  <1>2. PICK k, pc : k = ClaimOf(thr[t].kind) /\ pc = AfterFence(thr[t].kind)  OBVIOUS
  <1>3. k \in Claims /\ pc \in {"create", "halt", "observe"} /\ thr[t].rev \in Nat
        /\ mem[a].created \in BOOLEAN /\ mem[a].stopped \in BOOLEAN
    BY <1>1, <1>2 DEF ClaimOf, Claims, AfterFence, Handlers, Records
  <1>4. PICK r, next : r = [mem[a] EXCEPT !.rev[k] = thr[t].rev] /\ next = Snapshot(t, mem[a], pc)
    OBVIOUS
  <1>5. r \in Records /\ next \in Handlers
    BY <1>1, <1>3, <1>4, RecordTypes, HandlerTypes DEF Snapshot, Points, Held
  <1>6. /\ r.present = mem[a].present /\ r.created = mem[a].created
        /\ r.dispatched = mem[a].dispatched /\ r.stopped = mem[a].stopped
        /\ r.released = mem[a].released
    BY <1>1, <1>3, <1>4 DEF Records
  <1>7. next.pc = pc /\ next.alloc = a /\ next.kind = thr[t].kind
        /\ next.created = mem[a].created /\ next.stopped = mem[a].stopped
    BY <1>a, <1>1, <1>3, <1>4 DEF Snapshot, Handlers, Alloc
  <1>8. Steady /\ UNCHANGED <<guardVars, said>> /\ Save(t, r, next) /\ thr[t].pc = "fence"
    BY <1>a, <1>2, <1>4 DEF Fence, At
  <1>9. Advances(t, a, r)
    BY <1>1, <1>6, <1>8 DEF Advances, Kept, Grounded, Ordered, Below, Held
  <1>10. WroteIt(t, a, r, next) => Mine(t)'
    BY <1>a, <1>0, <1>1, <1>3, <1>6, <1>7, <1>8
       DEF WroteIt, Mine, Busy, Remembers, Launching, Alloc, Held, Steady
  <1> QED BY <1>a, <1>0, <1>1, <1>5, <1>8, <1>9, <1>10, Saves

(* A handler that saves one column and goes on to pc.                      *)
LEMMA SavesAt ==
    ASSUME HostInv, NEW t \in Threads, Busy(t), NEW a, a = Alloc(t), thr[t].pc \in Held,
           NEW r \in Records, NEW next \in Handlers, Save(t, r, next),
           Steady, UNCHANGED <<guardVars, said>>,
           Ordered(r), Below(mem[a], r), r.released => dir[a] = "stopped",
           said[a] # {} => dir[a] = "stopped" \/ ~r.created,
           next.alloc = a, next.kind = thr[t].kind, next.pc \in Held \ {"fence", "create"},
           next.created = r.created, next.stopped => r.stopped,
           next.kind = "reconcile" => next.created,
           next.pc \in {"prepare", "dispatch", "spawn"} => spawned[a] = 0,
           next.pc \in {"prepare", "dispatch", "spawn", "release", "reply"} => next.created,
           next.pc \in {"dispatch", "spawn"} => dir[a] # "none",
           next.pc = "spawn" => r.dispatched,
           next.pc \in {"release", "reply"} => dir[a] = "stopped",
           next.pc = "reply" => r.stopped
    PROVE  HostInv'
  <1>1. /\ a \in Allocs /\ thr[t] \in Handlers /\ mem[a] \in Records /\ HostTypes /\ alive
        /\ Kept(a) /\ Mine(t)
    BY Knows
  <1>2. Advances(t, a, r)  BY DEF Advances
  <1>3. WroteIt(t, a, r, next) => Mine(t)'
    BY <1>1 DEF WroteIt, Mine, Busy, Remembers, Launching, Alloc, Held, Steady,
                guardVars, Below, Kept
  <1> QED BY <1>1, <1>2, <1>3, Saves

(* A gate holder that only moves on.                                       *)
LEMMA MovesAt ==
    ASSUME HostInv, NEW t \in Threads, Busy(t), NEW a, a = Alloc(t), thr[t].pc \in Held,
           NEW pc \in Held \ {"fence", "create", "prepare", "spawn"}, Goto(t, pc),
           thr[t].pc # "fence",
           UNCHANGED <<journalVars, said>>, Steady, faults' \in Nat,
           dir' \in [Allocs -> {"none", "staged", "partial", "live", "ended", "stopped"}],
           spawned' \in [Allocs -> Nat],
           \A b \in Allocs \ {a} : dir'[b] = dir[b] /\ spawned'[b] = spawned[b],
           dir[a] # "none" => dir'[a] # "none", dir[a] = "stopped" => dir'[a] = "stopped",
           pc \in {"dispatch", "release", "reply"} => thr[t].created,
           pc = "dispatch" => spawned'[a] = 0 /\ dir'[a] # "none",
           pc \in {"release", "reply"} => dir'[a] = "stopped",
           pc = "reply" => disk[a].stopped,
           Grounded(a)'
    PROVE  HostInv'
  <1>1. /\ a \in Allocs /\ thr[t] \in Handlers /\ mem[a] \in Records /\ HostTypes /\ alive
        /\ Kept(a) /\ Mine(t)
    BY Knows
  <1>2. /\ thr' \in [Threads -> Handlers] /\ gate' = gate
        /\ thr'[t] = [thr[t] EXCEPT !.pc = pc]
        /\ \A u \in Threads \ {t} : thr'[u] = thr[u]
    BY GoesOn DEF Points
  <1>3. /\ thr'[t].pc = pc /\ thr'[t].alloc = a /\ thr'[t].kind = thr[t].kind
        /\ thr'[t].created = thr[t].created /\ thr'[t].stopped = thr[t].stopped
    BY <1>1, <1>2 DEF Handlers, Alloc
  <1>4. HostTypes'
    BY <1>1, <1>2 DEF HostTypes, TypeOK, Steady, journalVars
  <1>5. Mine(t)'
    BY <1>1, <1>2, <1>3 DEF Mine, Busy, Remembers, Launching, Alloc, Held, Steady, journalVars
  <1>6. Touches(t, a)  BY <1>2 DEF Touches
  <1> QED BY <1>1, <1>4, <1>5, <1>6, Acts

(* Admission, preparation and the launch.                                  *)
LEMMA CreateStep ==
    ASSUME HostInv, NEW t \in Threads,
           CreateAgain(t) \/ Admit(t) \/ Prepare(t) \/ PrepareLate(t) \/ Dispatch(t) \/ Spawn(t)
    PROVE  HostInv'
  <1>a. PICK a : a = Alloc(t)  OBVIOUS
  <1>0. Busy(t) /\ thr[t].pc \in Held
    BY DEF CreateAgain, Admit, Prepare, PrepareLate, Dispatch, Spawn, At, Busy, Held
  <1>1. /\ a \in Allocs /\ thr[t] \in Handlers /\ mem[a] \in Records /\ HostTypes /\ alive
        /\ Kept(a) /\ Mine(t)
    BY <1>0, <1>a, Knows
  <1>b. /\ dir \in [Allocs -> {"none", "staged", "partial", "live", "ended", "stopped"}]
        /\ spawned \in [Allocs -> Nat] /\ faults \in Nat
    BY <1>1 DEF HostTypes, TypeOK
  <1>c. Grounded(a)  BY <1>1 DEF Kept
  <1>2. CASE CreateAgain(t) \/ PrepareLate(t)
    <2>1. PICK pc \in {"observe", "halt"} : Goto(t, pc)
      BY <1>2 DEF CreateAgain, PrepareLate
    <2>2. Steady /\ UNCHANGED <<journalVars, said>> /\ faults' \in Nat /\ dir' = dir
          /\ spawned' = spawned /\ thr[t].pc # "fence"
      BY <1>2, <1>b DEF CreateAgain, PrepareLate, guardVars, At
    <2>3. Grounded(a)'  BY <1>c, <2>2 DEF Grounded, journalVars
    <2>4. pc \in Held \ {"fence", "create", "prepare", "spawn"} /\ pc \notin {"dispatch", "release", "reply"}
      BY DEF Held
    <2> QED BY <1>a, <1>0, <1>1, <1>b, <2>1, <2>2, <2>3, <2>4, MovesAt
  <1>3. CASE Admit(t)
    <2>a. PICK r, next : r = [mem[a] EXCEPT !.created = TRUE]
                         /\ next = [thr[t] EXCEPT !.pc = "prepare", !.created = TRUE]
      OBVIOUS
    <2>1. r \in Records /\ next \in Handlers
      BY <1>1, <2>a, RecordTypes, HandlerTypes DEF Points, Held, Claims
    <2>2. /\ r.created /\ r.present = mem[a].present /\ r.dispatched = mem[a].dispatched
          /\ r.stopped = mem[a].stopped /\ r.released = mem[a].released
      BY <1>1, <2>a DEF Records
    <2>3. /\ next.pc = "prepare" /\ next.created /\ next.alloc = a /\ next.kind = thr[t].kind
          /\ next.stopped = thr[t].stopped
      BY <1>a, <1>1, <2>a DEF Handlers, Alloc
    <2>4. Save(t, r, next) /\ Steady /\ UNCHANGED <<guardVars, said>>
      BY <1>a, <1>3, <2>a DEF Admit
    <2>5. mem[a].present /\ ~mem[a].stopped /\ ~mem[a].created
      BY <1>a, <1>1, <1>3 DEF Admit, At, Mine, Remembers, Busy, Held
    <2>6. ~disk[a].created /\ spawned[a] = 0 /\ dir[a] = "none" /\ said[a] = {} /\ ~mem[a].released
      BY <1>1, <1>b, <2>5 DEF Kept, Grounded, Below, Ordered
    <2>7. Ordered(r) /\ Below(mem[a], r)
      BY <2>2, <2>5, <2>6, <1>1 DEF Ordered, Below, Kept
    <2>8. next.created = r.created /\ (next.stopped => r.stopped)
      BY <1>a, <1>3, <2>2, <2>3, <2>1 DEF Admit, Handlers, Records
    <2>9. next.pc \in Held \ {"fence", "create"} BY <2>3 DEF Held
    <2> QED BY <1>a, <1>0, <1>1, <2>1, <2>2, <2>3, <2>4, <2>5, <2>6, <2>7, <2>8, <2>9, SavesAt
  <1>4. CASE Prepare(t)
    <2>0. thr[t].pc = "prepare" /\ Steady /\ UNCHANGED <<journalVars, spawned, said>>
      BY <1>4 DEF Prepare, At
    <2>1. thr[t].created /\ disk[a].created /\ spawned[a] = 0
      BY <1>a, <1>1, <2>0 DEF Mine, Remembers, Launching, Busy
    <2>2. PICK pc \in {"dispatch", "halt"} :
             /\ Goto(t, pc) /\ faults' \in Nat
             /\ dir' \in [Allocs -> {"none", "staged", "partial", "live", "ended", "stopped"}]
             /\ \A b \in Allocs \ {a} : dir'[b] = dir[b]
             /\ dir[a] # "none" => dir'[a] = dir[a]
             /\ pc = "dispatch" => dir'[a] = "staged"
      BY <1>a, <1>1, <1>4, <1>b DEF Prepare, Fault
    <2>3. Grounded(a)'
      BY <1>c, <1>b, <2>0, <2>1, <2>2 DEF Grounded, journalVars
    <2>4. pc \in Held \ {"fence", "create", "prepare", "spawn"} /\ pc \notin {"release", "reply"}
      BY DEF Held
    <2> QED BY <1>a, <1>0, <1>1, <1>b, <2>0, <2>1, <2>2, <2>3, <2>4, MovesAt
  <1>5. CASE Dispatch(t)
    <2>a. PICK r, next : r = [mem[a] EXCEPT !.dispatched = TRUE]
                         /\ next = [thr[t] EXCEPT !.pc = "spawn"]
      OBVIOUS
    <2>1. r \in Records /\ next \in Handlers
      BY <1>1, <2>a, RecordTypes, HandlerTypes DEF Points, Held, Claims
    <2>2. /\ r.created = mem[a].created /\ r.present = mem[a].present /\ r.dispatched
          /\ r.stopped = mem[a].stopped /\ r.released = mem[a].released
      BY <1>1, <2>a DEF Records
    <2>3. /\ next.pc = "spawn" /\ next.created = thr[t].created /\ next.alloc = a
          /\ next.kind = thr[t].kind /\ next.stopped = thr[t].stopped
      BY <1>a, <1>1, <2>a DEF Handlers, Alloc
    <2>4. Save(t, r, next) /\ Steady /\ UNCHANGED <<guardVars, said>> /\ thr[t].pc = "dispatch"
      BY <1>a, <1>5, <2>a DEF Dispatch, At
    <2>5. /\ thr[t].created /\ mem[a].created /\ spawned[a] = 0 /\ dir[a] # "none"
          /\ thr[t].stopped => mem[a].stopped
      BY <1>a, <1>0, <1>1, <2>4 DEF Mine, Remembers, Launching, Kept, Below
    <2>6. Ordered(r) /\ Below(mem[a], r)
      BY <1>1, <2>2, <2>5 DEF Ordered, Below, Kept
    <2>7. (r.released => dir[a] = "stopped") /\ (said[a] # {} => dir[a] = "stopped" \/ ~r.created)
      BY <1>c, <2>2, <2>5 DEF Grounded
    <2>8. next.created = r.created /\ (next.stopped => r.stopped) /\ next.created
      BY <1>1, <2>2, <2>3, <2>5 DEF Records, Handlers
    <2>9. next.pc \in Held \ {"fence", "create"} BY <2>3 DEF Held
    <2> QED BY <1>a, <1>0, <1>1, <2>1, <2>2, <2>3, <2>4, <2>5, <2>6, <2>7, <2>8, <2>9, SavesAt
  <1>6. CASE Spawn(t)
    <2>0. thr[t].pc = "spawn" /\ Steady /\ UNCHANGED <<journalVars, dir, said>>
      BY <1>6 DEF Spawn, At
    <2>1. thr[t].created /\ disk[a].dispatched /\ spawned[a] = 0 /\ dir[a] # "none"
      BY <1>a, <1>1, <2>0 DEF Mine, Remembers, Launching, Busy
    <2>2. PICK pc \in {"wait", "halt"} :
             /\ Goto(t, pc) /\ faults' \in Nat /\ spawned' \in [Allocs -> Nat]
             /\ \A b \in Allocs \ {a} : spawned'[b] = spawned[b]
             /\ spawned'[a] \in {0, 1}
      BY <1>a, <1>1, <1>6, <1>b, <2>1 DEF Spawn, Fault
    <2>3. Grounded(a)'
      BY <1>c, <1>b, <2>0, <2>1, <2>2 DEF Grounded, journalVars
    <2>4. pc \in Held \ {"fence", "create", "prepare", "spawn"} /\ pc \notin {"dispatch", "release", "reply"}
      BY DEF Held
    <2> QED BY <1>a, <1>0, <1>1, <1>b, <2>0, <2>1, <2>2, <2>3, <2>4, MovesAt
  <1> QED BY <1>2, <1>3, <1>4, <1>5, <1>6

(* An answer leaves the host: if it is evidence, it is true.               *)
LEMMA Answers ==
    ASSUME HostInv, NEW t \in Threads, Busy(t), NEW a, a = Alloc(t), NEW state,
           Reply(t, state), Steady, UNCHANGED <<journalVars, guardVars, faults>>,
           state \in Evidence =>
              /\ disk[a].stopped /\ mem[a].stopped
              /\ dir[a] = "stopped" \/ (~disk[a].created /\ ~mem[a].created)
    PROVE  HostInv'
  <1>1. /\ a \in Allocs /\ thr[t] \in Handlers /\ mem[a] \in Records /\ HostTypes /\ alive
        /\ Kept(a) /\ Mine(t)
    BY Knows
  <1>2. Return(t)  BY DEF Reply
  <1>3. /\ said' \in [Allocs -> SUBSET Evidence]
        /\ \A b \in Allocs \ {a} : said'[b] = said[b]
        /\ said'[a] = said[a] \/ state \in Evidence
    BY <1>1 DEF Reply, HostTypes
  <1>4. /\ thr' \in [Threads -> Handlers] /\ gate' \in [Allocs -> Threads \union {None}]
        /\ \A u \in Threads \ {t} : thr'[u] = thr[u]
        /\ \A b \in Allocs : gate'[b] = gate[b] \/ gate[b] = t
        /\ Mine(t)'
    BY <1>1, <1>2, Returned
  <1>5. HostTypes'
    BY <1>1, <1>3, <1>4 DEF HostTypes, TypeOK, Steady, journalVars, guardVars
  <1>6. Grounded(a)'
    BY <1>1, <1>3 DEF Kept, Grounded, journalVars, guardVars
  <1>7. Touches(t, a)  BY <1>3, <1>4 DEF Touches, guardVars
  <1>8. UNCHANGED journalVars  OBVIOUS
  <1> QED BY <1>1, <1>4, <1>5, <1>6, <1>7, <1>8, Acts

(* The stop fence, the observation and the release.                        *)
LEMMA StopStep ==
    ASSUME HostInv, NEW t \in Threads,
           \/ WaitReady(t) \/ Halt(t) \/ ObserveAbsent(t) \/ ObserveReady(t) \/ ObserveFence(t)
           \/ Release(t) \/ ReplyReleased(t)
    PROVE  HostInv'
  <1>a. PICK a : a = Alloc(t)  OBVIOUS
  <1>0. Busy(t) /\ thr[t].pc \in Held
    BY DEF WaitReady, Halt, ObserveAbsent, ObserveReady, ObserveFence, Release, ReplyReleased,
           At, Busy, Held
  <1>1. /\ a \in Allocs /\ thr[t] \in Handlers /\ mem[a] \in Records /\ HostTypes /\ alive
        /\ Kept(a) /\ Mine(t)
    BY <1>0, <1>a, Knows
  <1>b. /\ dir \in [Allocs -> {"none", "staged", "partial", "live", "ended", "stopped"}]
        /\ spawned \in [Allocs -> Nat] /\ faults \in Nat
    BY <1>1 DEF HostTypes, TypeOK
  <1>c. Grounded(a)  BY <1>1 DEF Kept
  <1>2. CASE WaitReady(t) \/ ObserveReady(t)
    <2>1. Reply(t, "ready") /\ Steady /\ UNCHANGED <<journalVars, guardVars, faults>>
      BY <1>2 DEF WaitReady, ObserveReady
    <2>2. "ready" \notin Evidence  BY DEF Evidence
    <2> QED BY <1>a, <1>0, <2>1, <2>2, Answers
  <1>3. CASE Halt(t)
    <2>a. PICK r, next : r = [mem[a] EXCEPT !.stopped = TRUE]
                         /\ next = [thr[t] EXCEPT !.pc = "observe", !.stopped = TRUE]
      OBVIOUS
    <2>1. r \in Records /\ next \in Handlers
      BY <1>1, <2>a, RecordTypes, HandlerTypes DEF Points, Held, Claims
    <2>2. /\ r.created = mem[a].created /\ r.present = mem[a].present
          /\ r.dispatched = mem[a].dispatched /\ r.stopped /\ r.released = mem[a].released
      BY <1>1, <2>a DEF Records
    <2>3. /\ next.pc = "observe" /\ next.created = thr[t].created /\ next.alloc = a
          /\ next.kind = thr[t].kind /\ next.stopped
      BY <1>a, <1>1, <2>a DEF Handlers, Alloc
    <2>4. Save(t, r, next) /\ Steady /\ UNCHANGED <<guardVars, said>> /\ thr[t].pc = "halt"
      BY <1>a, <1>3, <2>a DEF Halt, At
    <2>5. /\ (thr[t].created <=> mem[a].created) /\ mem[a].present
          /\ thr[t].kind = "reconcile" => thr[t].created
      BY <1>a, <1>0, <1>1, <2>4 DEF Mine, Remembers, Kept, Below, Held
    <2>6. Ordered(r) /\ Below(mem[a], r)
      BY <1>1, <2>2, <2>5 DEF Ordered, Below, Kept
    <2>7. (r.released => dir[a] = "stopped") /\ (said[a] # {} => dir[a] = "stopped" \/ ~r.created)
      BY <1>c, <2>2, <2>5 DEF Grounded
    <2>8. next.created = r.created
      BY <1>1, <2>2, <2>3, <2>5 DEF Records, Handlers
    <2>9. next.pc \in Held \ {"fence", "create"} BY <2>3 DEF Held
    <2> QED BY <1>a, <1>0, <1>1, <2>1, <2>2, <2>3, <2>4, <2>5, <2>6, <2>7, <2>8, <2>9, SavesAt
  <1>4. CASE ObserveAbsent(t)
    <2>1. PICK state : /\ state = (IF thr[t].stopped THEN "fenced_absent" ELSE "absent")
                       /\ Reply(t, state)
      BY <1>4 DEF ObserveAbsent
    <2>2. Steady /\ UNCHANGED <<journalVars, guardVars, faults>> /\ ~thr[t].created /\ thr[t].pc = "observe"
      BY <1>4 DEF ObserveAbsent, At
    <2>3. state \in Evidence => thr[t].stopped  BY <2>1 DEF Evidence
    <2>4. thr[t].stopped => disk[a].stopped /\ mem[a].stopped
      BY <1>a, <1>0, <1>1 DEF Mine, Remembers, Kept, Below
    <2>5. ~mem[a].created /\ ~disk[a].created
      BY <1>a, <1>0, <1>1, <2>2 DEF Mine, Remembers, Kept, Below, Held
    <2> QED BY <1>a, <1>0, <2>1, <2>2, <2>3, <2>4, <2>5, Answers
  <1>5. CASE ObserveFence(t)
    <2>0. Steady /\ UNCHANGED <<journalVars, said>> /\ spawned' = spawned /\ thr[t].created
          /\ thr[t].pc = "observe"
      BY <1>5 DEF ObserveFence, At
    <2>1. disk[a].created
      BY <1>a, <1>0, <1>1, <2>0 DEF Mine, Remembers
    <2>2. \A s \in {"stopped", "partial"} : dir' = [dir EXCEPT ![a] = s] =>
             /\ dir' \in [Allocs -> {"none", "staged", "partial", "live", "ended", "stopped"}]
             /\ \A b \in Allocs \ {a} : dir'[b] = dir[b]
             /\ dir'[a] = s
      BY <1>1, <1>b
    <2>3. CASE dir' = [dir EXCEPT ![a] = "stopped"] /\ Goto(t, "release") /\ UNCHANGED faults
      <3>1. /\ dir' \in [Allocs -> {"none", "staged", "partial", "live", "ended", "stopped"}]
            /\ \A b \in Allocs \ {a} : dir'[b] = dir[b] /\ spawned'[b] = spawned[b]
            /\ dir'[a] = "stopped"
        BY <2>0, <2>2, <2>3
      <3>2. Grounded(a)'
        BY <1>c, <2>0, <2>1, <3>1 DEF Grounded, journalVars
      <3>3. "release" \in Held \ {"fence", "create", "prepare", "spawn"}  BY DEF Held
      <3> QED BY <1>a, <1>0, <1>1, <1>b, <2>0, <2>3, <3>1, <3>2, <3>3, MovesAt
    <2>4. CASE /\ Fault /\ Return(t)
               /\ dir' = IF dir[a] = "none" THEN [dir EXCEPT ![a] = "partial"] ELSE dir
      <3>1. /\ dir' \in [Allocs -> {"none", "staged", "partial", "live", "ended", "stopped"}]
            /\ \A b \in Allocs \ {a} : dir'[b] = dir[b]
            /\ dir'[a] = dir[a] \/ (dir[a] = "none" /\ dir'[a] = "partial")
        <4>1. CASE dir[a] = "none"  BY <2>2, <2>4, <4>1
        <4>2. CASE dir[a] # "none"
          <5>1. dir' = dir  BY <2>4, <4>2
          <5> QED BY <1>b, <5>1
        <4> QED BY <4>1, <4>2
      <3>2. Grounded(a)'
        BY <1>c, <2>0, <2>1, <3>1 DEF Grounded, journalVars
      <3>3. /\ thr' \in [Threads -> Handlers] /\ gate' \in [Allocs -> Threads \union {None}]
            /\ \A u \in Threads \ {t} : thr'[u] = thr[u]
            /\ \A b \in Allocs : gate'[b] = gate[b] \/ gate[b] = t
            /\ Mine(t)'
        BY <1>1, <2>4, Returned
      <3>4. HostTypes'
        BY <1>1, <1>b, <2>0, <2>4, <3>1, <3>3 DEF HostTypes, TypeOK, Steady, journalVars, Fault
      <3>5. Touches(t, a)  BY <1>0, <2>0, <3>1, <3>3 DEF Touches
      <3>6. UNCHANGED journalVars  BY <2>0
      <3> QED BY <1>a, <1>0, <1>1, <2>0, <3>2, <3>3, <3>4, <3>5, <3>6, Acts
    <2> QED BY <1>a, <1>5, <2>3, <2>4 DEF ObserveFence
  <1>6. CASE Release(t)
    <2>0. /\ Steady /\ UNCHANGED <<guardVars, said>> /\ thr[t].pc = "release" /\ ~poisoned
          /\ dir' = dir /\ spawned' = spawned
      BY <1>6 DEF Release, At, guardVars
    <2>1. /\ dir[a] = "stopped" /\ thr[t].created /\ mem[a].created /\ mem[a].present
          /\ thr[t].kind = "reconcile" => thr[t].created
      BY <1>a, <1>0, <1>1, <2>0 DEF Mine, Remembers, Launching, Kept, Below
    <2>2. CASE mem[a].released /\ Goto(t, "reply") /\ UNCHANGED <<journalVars, faults>>
      <3>1. disk[a].stopped
        BY <1>1, <2>0, <2>2 DEF Kept, Ordered, HostInv, Journal
      <3>2. Grounded(a)'  BY <1>c, <2>0, <2>2 DEF Grounded, journalVars
      <3>3. "reply" \in Held \ {"fence", "create", "prepare", "spawn"}  BY DEF Held
      <3>4. UNCHANGED <<journalVars, said>> /\ faults' \in Nat  BY <1>b, <2>0, <2>2
      <3> QED BY <1>a, <1>0, <1>1, <1>b, <2>0, <2>1, <2>2, <3>1, <3>2, <3>3, <3>4, MovesAt
    <2>3. CASE ~mem[a].released /\ Save(t, [mem[a] EXCEPT !.stopped = TRUE, !.released = TRUE],
                                        [thr[t] EXCEPT !.pc = "reply"])
      <3>a. PICK r, next : r = [mem[a] EXCEPT !.stopped = TRUE, !.released = TRUE]
                           /\ next = [thr[t] EXCEPT !.pc = "reply"]
        OBVIOUS
      <3>1. r \in Records /\ next \in Handlers
        BY <1>1, <3>a, RecordTypes, HandlerTypes DEF Points, Held, Claims
      <3>2. /\ r.created = mem[a].created /\ r.present = mem[a].present
            /\ r.dispatched = mem[a].dispatched /\ r.stopped /\ r.released
        BY <1>1, <3>a DEF Records
      <3>3. /\ next.pc = "reply" /\ next.created = thr[t].created /\ next.alloc = a
            /\ next.kind = thr[t].kind /\ next.stopped = thr[t].stopped
        BY <1>a, <1>1, <3>a DEF Handlers, Alloc
      <3>4. Save(t, r, next)  BY <2>3, <3>a
      <3>5. Ordered(r) /\ Below(mem[a], r)
        BY <1>1, <2>1, <3>2 DEF Ordered, Below, Kept
      <3>6. next.created = r.created /\ next.created
        BY <1>1, <2>1, <3>2, <3>3 DEF Records, Handlers
      <3>7. next.pc \in Held \ {"fence", "create"} BY <3>3 DEF Held
      <3> QED BY <1>a, <1>0, <1>1, <2>0, <2>1, <3>1, <3>2, <3>3, <3>4, <3>5, <3>6, <3>7, SavesAt
    <2> QED BY <1>a, <1>6, <2>2, <2>3 DEF Release
  <1>7. CASE ReplyReleased(t)
    <2>0. Reply(t, "released") /\ Steady /\ UNCHANGED <<journalVars, guardVars, faults>>
          /\ thr[t].pc = "reply"
      BY <1>7 DEF ReplyReleased, At
    <2>1. dir[a] = "stopped" /\ disk[a].stopped /\ mem[a].stopped
      BY <1>a, <1>0, <1>1, <2>0 DEF Mine, Launching, Kept, Below
    <2> QED BY <1>a, <1>0, <2>0, <2>1, Answers
  <1> QED BY <1>2, <1>3, <1>4, <1>5, <1>6, <1>7

(* A handler that gives up.                                                *)
LEMMA FailStep ==
    ASSUME HostInv, NEW t \in Threads, ObserveUncertain(t) \/ Refuse(t)
    PROVE  HostInv'
  <1>1. Return(t) /\ Steady /\ UNCHANGED <<journalVars, guardVars>> /\ said' = said /\ faults' = faults
    BY DEF ObserveUncertain, Refuse, Fails
  <1>2. faults' \in Nat  BY <1>1 DEF HostInv, HostTypes, TypeOK
  <1> QED BY <1>1, <1>2, Ends

(* Recovery of an older epoch and the maintenance pass take the gate       *)
(* without waiting.                                                        *)
LEMMA TryStep ==
    ASSUME HostInv, NEW t \in Threads, TryGate(t)
    PROVE  HostInv'
  <1>a. PICK a : a = Alloc(t)  OBVIOUS
  <1>0. Busy(t) /\ thr[t].pc = "try"
    BY DEF TryGate, At, Busy
  <1>1. /\ a \in Allocs /\ thr[t] \in Handlers /\ mem[a] \in Records /\ HostTypes /\ alive
        /\ Kept(a) /\ Mine(t)
    BY <1>0, <1>a, Knows
  <1>2. Steady /\ UNCHANGED <<journalVars, guardVars>> /\ said' = said /\ faults' = faults
        /\ UNCHANGED journalVars
    BY DEF TryGate
  <1>3. CASE Return(t)
    <2>1. faults' \in Nat  BY <1>1, <1>2 DEF HostTypes, TypeOK
    <2> QED BY <1>2, <1>3, <2>1, Ends
  <1>4. ASSUME NEW next \in Handlers, gate[a] = None, gate' = [gate EXCEPT ![a] = t],
               thr' = [thr EXCEPT ![t] = next],
               next.pc = "observe", next.alloc = a, next.kind = thr[t].kind,
               next.created = mem[a].created, next.created => disk[a].created,
               next.stopped => disk[a].stopped,
               next.kind = "reconcile" => next.created, mem[a].present
        PROVE  HostInv'
    <2>1. /\ thr' \in [Threads -> Handlers] /\ thr'[t] = next
          /\ \A u \in Threads \ {t} : thr'[u] = thr[u]
      BY <1>1, <1>4, Moved
    <2>2. /\ gate' \in [Allocs -> Threads \union {None}] /\ gate'[a] = t
          /\ \A b \in Allocs \ {a} : gate'[b] = gate[b]
      BY <1>1, <1>4 DEF HostTypes, TypeOK
    <2>3. HostTypes'
      BY <1>1, <1>2, <2>1, <2>2 DEF HostTypes, TypeOK, Steady, journalVars, guardVars
    <2>4. Mine(t)'
      BY <1>1, <1>2, <1>4, <2>1, <2>2
         DEF Mine, Busy, Remembers, Launching, Alloc, Held, Steady, journalVars
    <2>5. Grounded(a)'
      BY <1>1, <1>2 DEF Kept, Grounded, journalVars, guardVars
    <2>6. Touches(t, a)  BY <1>2, <1>4, <2>1, <2>2 DEF Touches, guardVars
    <2> QED BY <1>a, <1>0, <1>1, <1>2, <2>3, <2>4, <2>5, <2>6, Acts
  <1>5. CASE /\ gate[a] = None /\ gate' = [gate EXCEPT ![a] = t]
             /\ thr[t].kind = "previous" /\ ~poisoned /\ mem[a].stopped
             /\ thr' = [thr EXCEPT ![t] = Snapshot(t, mem[a], "observe")]
    <2>a. PICK next : next = Snapshot(t, mem[a], "observe")  OBVIOUS
    <2>1. mem[a].created \in BOOLEAN /\ mem[a].stopped \in BOOLEAN  BY <1>1 DEF Records
    <2>2. next \in Handlers
      BY <1>1, <2>a, <2>1, HandlerTypes DEF Snapshot, Points, Held
    <2>3. /\ next.pc = "observe" /\ next.alloc = a /\ next.kind = thr[t].kind
          /\ next.created = mem[a].created /\ next.stopped = mem[a].stopped
      BY <1>a, <1>1, <2>a DEF Snapshot, Handlers, Alloc
    <2>4. disk[a] = mem[a] /\ mem[a].present
      BY <1>1, <1>5 DEF HostInv, Journal, Kept, Ordered
    <2> QED BY <1>4, <1>5, <2>a, <2>2, <2>3, <2>4
  <1>6. CASE /\ gate[a] = None /\ gate' = [gate EXCEPT ![a] = t]
             /\ thr[t].kind = "reconcile" /\ thr' = [thr EXCEPT ![t].pc = "observe"]
    <2>a. PICK next : next = [thr[t] EXCEPT !.pc = "observe"]  OBVIOUS
    <2>1. next \in Handlers
      BY <1>1, <2>a, HandlerTypes DEF Points, Held
    <2>2. /\ next.pc = "observe" /\ next.alloc = a /\ next.kind = thr[t].kind
          /\ next.created = thr[t].created /\ next.stopped = thr[t].stopped
      BY <1>a, <1>1, <2>a DEF Handlers, Alloc
    <2>3. thr' = [thr EXCEPT ![t] = next]  BY <1>1, <1>6, <2>a DEF HostTypes
    <2>4. /\ thr[t].created /\ disk[a].created /\ mem[a].created /\ mem[a].present
          /\ thr[t].stopped => disk[a].stopped
      BY <1>a, <1>0, <1>1, <1>6 DEF Mine, Remembers, Kept, Below, Ordered
    <2>5. next.created = mem[a].created
      BY <1>1, <2>2, <2>4 DEF Handlers, Records
    <2> QED BY <1>4, <1>6, <2>1, <2>2, <2>3, <2>4, <2>5
  <1> QED BY <1>a, <1>3, <1>5, <1>6 DEF TryGate

(* A request or a maintenance copy starts on an idle thread.               *)
LEMMA ReceiveStep ==
    ASSUME HostInv, NEW t \in Threads, NEW a \in Allocs,
           \/ \E kind \in Requests, rev \in 1..MaxRev : Receive(t, a, kind, rev)
           \/ ReceivePrevious(t, a) \/ ReconcilePick(t, a)
    PROVE  HostInv'
  <1>1. HostTypes /\ Journal /\ Files  BY DEF HostInv
  <1>2. /\ alive /\ thr[t].pc = "idle" /\ Steady
        /\ UNCHANGED <<journalVars, gate, guardVars, said, faults>>
    BY DEF Receive, ReceivePrevious, ReconcilePick, At
  <1>3. ASSUME NEW next \in Handlers, thr' = [thr EXCEPT ![t] = next], next.alloc = a,
               next.pc \in {"gate", "try"},
               next.created => disk[a].created, next.stopped => disk[a].stopped,
               next.kind = "reconcile" => next.created,
               next.pc = "gate" => ~next.created /\ ~next.stopped,
               next.pc = "try" => next.kind \in {"previous", "reconcile"}
        PROVE  HostInv'
    <2>1. /\ thr' \in [Threads -> Handlers] /\ thr'[t] = next
          /\ \A u \in Threads \ {t} : thr'[u] = thr[u]
      BY <1>1, <1>3, Moved
    <2>2. HostTypes'
      BY <1>1, <1>2, <2>1 DEF HostTypes, TypeOK, Steady, journalVars, guardVars
    <2>3. Mine(t)'
      BY <1>2, <1>3, <2>1
         DEF Mine, Busy, Remembers, Launching, Alloc, Held, Steady, journalVars
    <2>4. Local(t, a)
      BY <1>1, <1>2, <2>1 DEF Local, Steady, journalVars, guardVars, Below, Journal, Held
    <2>5. Kept(a)'
      BY <1>1, <1>2 DEF Kept, Journal, Files, Grounded, journalVars, guardVars, Ordered, Below
    <2>6. thr[t].pc \notin Held  BY <1>2 DEF Held
    <2> QED BY <1>2, <2>2, <2>3, <2>4, <2>5, <2>6, Framed
  <1>4. ASSUME NEW kind \in Requests \union {"previous"}, NEW rev \in Nat,
               NEW pc \in {"gate", "try"}, Request(t, a, kind, rev, pc),
               pc = "try" => kind = "previous"
        PROVE  HostInv'
    <2>a. PICK next : next = [pc |-> pc, alloc |-> a, kind |-> kind, rev |-> rev,
                              created |-> FALSE, stopped |-> FALSE]
      OBVIOUS
    <2>1. next \in Handlers /\ kind # "reconcile"
      BY <2>a, HostAssumption DEF Handlers, Points, Kinds
    <2>2. /\ next.alloc = a /\ next.pc = pc /\ ~next.created /\ ~next.stopped
          /\ next.kind = kind /\ thr' = [thr EXCEPT ![t] = next]
      BY <1>4, <2>a DEF Request
    <2> QED BY <1>3, <1>4, <2>1, <2>2
  <1>5. CASE \E kind \in Requests, rev \in 1..MaxRev : Receive(t, a, kind, rev)
    <2>1. PICK kind \in Requests, rev \in 1..MaxRev : Receive(t, a, kind, rev)  BY <1>5
    <2>2. rev \in Nat  BY HostAssumption
    <2> QED BY <1>4, <2>1, <2>2 DEF Receive
  <1>6. CASE ReceivePrevious(t, a)  BY <1>4, <1>6 DEF ReceivePrevious
  <1>7. CASE ReconcilePick(t, a)
    <2>a. PICK next : next = [pc |-> "try", alloc |-> a, kind |-> "reconcile", rev |-> 0,
                              created |-> mem[a].created, stopped |-> mem[a].stopped]
      OBVIOUS
    <2>1. disk[a] = mem[a] /\ mem[a].created /\ thr' = [thr EXCEPT ![t] = next]
      BY <1>1, <1>2, <1>7, <2>a DEF ReconcilePick, Journal
    <2>2. next \in Handlers
      BY <1>1, <2>a DEF Handlers, Points, Kinds, HostTypes, TypeOK, Records
    <2> QED BY <1>3, <2>a, <2>1, <2>2
  <1> QED BY <1>5, <1>6, <1>7

(* Placement and the guardians' own steps.                                 *)
LEMMA GuardianStep ==
    ASSUME HostInv, NEW a \in Allocs, Reserve(a) \/ GuardianLaunch(a) \/ GuardianEnd(a)
    PROVE  HostInv'
  <1>1. /\ UNCHANGED <<journalVars, gate, thr, spawned, said>> /\ epoch' = epoch /\ alive' = alive
        /\ faults' = faults
    BY DEF Reserve, GuardianLaunch, GuardianEnd, Steady, guardVars
  <1>2. HostTypes'
    <2>1. reserved' \in [Allocs -> Nat]
      BY DEF Reserve, GuardianLaunch, GuardianEnd, Steady, HostInv, HostTypes, TypeOK
    <2>2. dir' \in [Allocs -> {"none", "staged", "partial", "live", "ended", "stopped"}]
      BY DEF Reserve, GuardianLaunch, GuardianEnd, guardVars, HostInv, HostTypes, TypeOK
    <2> QED BY <1>1, <2>1, <2>2 DEF HostInv, HostTypes, TypeOK, journalVars
  <1>3. \A b \in Allocs : /\ dir[b] = "none" <=> dir'[b] = "none"
                          /\ dir[b] = "stopped" <=> dir'[b] = "stopped"
    BY DEF Reserve, GuardianLaunch, GuardianEnd, HostInv, HostTypes, TypeOK, guardVars
  <1>4. Gated' /\ Handling'
    BY <1>1, <1>3 DEF HostInv, Gated, Handling, Busy, Remembers, Launching, Alloc, journalVars
  <1>5. Journal' /\ Files'
    BY <1>1, <1>3 DEF HostInv, Journal, Files, Grounded, Ordered, Below, journalVars
  <1> QED BY <1>2, <1>4, <1>5 DEF HostInv

(* A crash ends every handler and leaves what is durable.                  *)
LEMMA CrashStep == ASSUME HostInv, Crash PROVE HostInv'
  <1>1. HostTypes'
    BY HandlerTypes DEF HostInv, HostTypes, TypeOK, Crash, journalVars, guardVars,
       Handlers, Idle, Points, Kinds
  <1>2. \A t \in Threads : thr'[t] = Idle  BY DEF Crash
  <1>3. Gated' /\ Handling'
    BY <1>2 DEF Gated, Handling, Busy, Remembers, Launching, Idle, Held
  <1>4. Journal' /\ Files'
    BY DEF Crash, HostInv, Journal, Files, Grounded, Ordered, Below, journalVars, guardVars
  <1> QED BY <1>1, <1>3, <1>4 DEF HostInv

(* The restart reads the disk back with every retained owner fenced.       *)
LEMMA OpenStep == ASSUME HostInv, Open PROVE HostInv'
  <1>1. HostTypes /\ Gated /\ Journal /\ Files /\ ~alive  BY DEF HostInv, Open
  <1>2. \A t \in Threads : thr'[t].pc = "idle"
    BY <1>1 DEF Gated, Busy, Open
  <1>3. Gated' /\ Handling'
    BY <1>2 DEF Gated, Handling, Busy, Remembers, Launching, Held
  <1>4. ASSUME NEW b \in Allocs
        PROVE  /\ mem'[b] \in Records /\ Ordered(mem'[b])
               /\ mem'[b].created = disk[b].created /\ mem'[b].released = disk[b].released
               /\ mem'[b].dispatched = disk[b].dispatched
               /\ disk[b].stopped => mem'[b].stopped
    <2>1. disk[b] \in Records /\ Ordered(disk[b])  BY <1>1 DEF HostTypes, TypeOK, Journal
    <2>2. CASE disk[b].present
      <3>1. mem'[b] = [disk[b] EXCEPT !.stopped = TRUE]  BY <2>2 DEF Open
      <3>2. mem'[b] \in Records  BY <2>1, <3>1 DEF Records
      <3>3. /\ mem'[b].created = disk[b].created /\ mem'[b].released = disk[b].released
            /\ mem'[b].dispatched = disk[b].dispatched /\ mem'[b].stopped
            /\ mem'[b].present = disk[b].present
        BY <2>1, <3>1 DEF Records
      <3> QED BY <2>1, <2>2, <3>2, <3>3 DEF Ordered
    <2>3. CASE ~disk[b].present
      <3>1. mem'[b] = NoRecord  BY <2>3 DEF Open
      <3>2. NoRecord \in Records  BY DEF Records, NoRecord, Claims
      <3>3. /\ disk[b].created = FALSE /\ disk[b].released = FALSE
            /\ disk[b].dispatched = FALSE /\ disk[b].stopped = FALSE
        BY <2>1, <2>3 DEF Records, Ordered
      <3>4. /\ mem'[b].created = FALSE /\ mem'[b].released = FALSE
            /\ mem'[b].dispatched = FALSE /\ mem'[b].stopped = FALSE
        BY <3>1 DEF NoRecord
      <3>5. Ordered(mem'[b])  BY <3>4 DEF Ordered
      <3> QED BY <3>1, <3>2, <3>3, <3>4, <3>5
    <2> QED BY <2>2, <2>3
  <1>5. mem' \in [Allocs -> Records]
    <2>1. mem' = [b \in Allocs |-> mem'[b]]  BY DEF Open
    <2> QED BY <1>4, <2>1
  <1>6. \/ disk' = mem' /\ alive' = TRUE /\ poisoned' = FALSE /\ faults' = faults
        \/ disk' \in {disk, mem'} /\ alive' = alive /\ poisoned' = poisoned /\ faults' = faults + 1
    BY DEF Open, Fault
  <1>7. disk' \in [Allocs -> Records] /\ \A b \in Allocs : disk'[b] \in {disk[b], mem'[b]}
    BY <1>1, <1>5, <1>6 DEF HostTypes, TypeOK
  <1>8. HostTypes'
    <2>1. alive' \in BOOLEAN /\ poisoned' \in BOOLEAN /\ faults' \in Nat
      <3>1. alive \in BOOLEAN /\ poisoned \in BOOLEAN /\ faults \in Nat
        BY <1>1 DEF HostTypes, TypeOK
      <3>2. CASE alive' = TRUE /\ poisoned' = FALSE /\ faults' = faults  BY <3>1, <3>2
      <3>3. CASE alive' = alive /\ poisoned' = poisoned /\ faults' = faults + 1  BY <3>1, <3>3
      <3> QED BY <1>6, <3>2, <3>3
    <2>2. epoch' \in Nat /\ UNCHANGED <<gate, thr, reserved, dir, spawned, said>>
      BY <1>1 DEF HostTypes, TypeOK, Open, guardVars
    <2> QED BY <1>1, <1>5, <1>7, <2>1, <2>2 DEF HostTypes, TypeOK
  <1>9. Journal'
    BY <1>1, <1>4, <1>6, <1>7 DEF Journal, Below
  <1>10. Files'
    <2>1. UNCHANGED <<dir, spawned, said>>  BY DEF Open, guardVars
    <2>2. ASSUME NEW b \in Allocs PROVE Grounded(b)'
      <3>1. CASE disk'[b] = disk[b]  BY <1>1, <1>4, <2>1, <3>1 DEF Files, Grounded
      <3>2. CASE disk'[b] = mem'[b]  BY <1>1, <1>4, <2>1, <3>2 DEF Files, Grounded
      <3> QED BY <1>7, <3>1, <3>2
    <2> QED BY <2>2 DEF Files
  <1> QED BY <1>3, <1>8, <1>9, <1>10 DEF HostInv

(* No step of the supervisor, its guardians or its operator breaks the     *)
(* invariant.                                                              *)
LEMMA HostStep == HostInv /\ [Next]_vars => HostInv'
  <1> SUFFICES ASSUME HostInv, [Next]_vars PROVE HostInv'  OBVIOUS
  <1>1. ASSUME NEW t \in Threads, Work(t) PROVE HostInv'
    BY <1>1, EnterStep, FenceStep, CreateStep, StopStep, FailStep, TryStep DEF Work
  <1>2. ASSUME NEW t \in Threads, NEW a \in Allocs,
               \/ \E kind \in Requests, rev \in 1..MaxRev : Receive(t, a, kind, rev)
               \/ ReceivePrevious(t, a) \/ ReconcilePick(t, a)
        PROVE  HostInv'
    BY <1>2, ReceiveStep
  <1>3. ASSUME NEW a \in Allocs, Reserve(a) \/ GuardianLaunch(a) \/ GuardianEnd(a)
        PROVE  HostInv'
    BY <1>3, GuardianStep
  <1>4. CASE UNCHANGED vars
    BY <1>4 DEF vars, HostInv, HostTypes, TypeOK, Gated, Journal, Handling, Files, Busy, Alloc,
       Remembers, Launching, Grounded, Ordered, Below, journalVars, guardVars
  <1> QED BY <1>1, <1>2, <1>3, <1>4, CrashStep, OpenStep DEF Next

(* The invariant holds initially.                                          *)
LEMMA HostInitially == Init => HostInv
  <1> SUFFICES ASSUME Init PROVE HostInv  OBVIOUS
  <1>1. NoRecord \in Records  BY DEF NoRecord, Records, Claims
  <1>2. Idle \in Handlers  BY DEF Idle, Handlers, Points, Kinds
  <1>3. HostTypes  BY <1>1, <1>2 DEF Init, HostTypes, TypeOK
  <1>4. Gated /\ Handling  BY DEF Init, Gated, Handling, Busy, Remembers, Launching, Idle, Held
  <1>5. Journal /\ Files  BY DEF Init, Journal, Files, Ordered, Below, Grounded, NoRecord
  <1> QED BY <1>3, <1>4, <1>5 DEF HostInv

(* The inductive invariant holds in every reachable state.                 *)
THEOREM HostInvariant == Spec => []HostInv
  BY HostInitially, HostStep, PTL DEF Spec

(* Every variable keeps its declared shape.                                *)
THEOREM HostTypeCorrect == Spec => []TypeOK
  <1>1. HostInv => TypeOK  BY DEF HostInv, HostTypes
  <1> QED BY <1>1, HostInvariant, PTL

(* Whatever write a crash interrupts, open() accepts the journal it finds, *)
(* and the journal holds the intent of every launch that happened.         *)
THEOREM JournalAlwaysSound == Spec => []JournalSound
  <1>1. HostInv => RestartAccepts
    BY DEF HostInv, Journal, Files, Ordered, Grounded, RestartAccepts, Acceptable
  <1>2. HostInv => LaunchIsDurable
    <2> SUFFICES ASSUME HostInv, NEW a \in Allocs
                 PROVE  spawned[a] <= 1 /\ (spawned[a] = 1 => disk[a].created /\ disk[a].dispatched)
      BY DEF LaunchIsDurable
    <2>1. Grounded(a) /\ Ordered(disk[a]) /\ spawned[a] \in Nat
      BY DEF HostInv, HostTypes, TypeOK, Journal, Files
    <2> QED BY <2>1 DEF Grounded, Ordered
  <1>3. HostInv => JournalSound  BY <1>1, <1>2 DEF JournalSound
  <1> QED BY <1>3, HostInvariant, PTL

(* Release evidence that left the host is true for ever and its fence is   *)
(* on disk (stopped(), released() and the reply after them).               *)
THEOREM EvidenceStaysTrue == Spec => []EvidenceDurable
  <1>1. HostInv => EvidenceDurable
    <2> SUFFICES ASSUME HostInv, NEW a \in Allocs, said[a] # {}
                 PROVE  disk[a].stopped /\ Gone(a)
      BY DEF EvidenceDurable
    <2>1. Grounded(a) /\ Ordered(disk[a]) /\ spawned[a] \in Nat
      BY DEF HostInv, HostTypes, TypeOK, Journal, Files
    <2> QED BY <2>1 DEF Grounded, Ordered, Gone
  <1> QED BY <1>1, HostInvariant, PTL

-----------------------------------------------------------------------------
(* Capacity.                                                               *)

(* Sets of allocations are finite, and a subset is not larger.             *)
LEMMA Counts ==
    ASSUME NEW S \in SUBSET Allocs, NEW T \in SUBSET Allocs
    PROVE  /\ IsFiniteSet(S) /\ Cardinality(S) \in Nat
           /\ S \subseteq T => Cardinality(S) <= Cardinality(T)
           /\ \A a : S \subseteq T \union {a} => Cardinality(S) <= Cardinality(T) + 1
  <1>1. \A U \in SUBSET Allocs : IsFiniteSet(U) /\ Cardinality(U) \in Nat
    BY HostAssumption, FS_Subset, FS_CardinalityType
  <1>2. S \subseteq T => Cardinality(S) <= Cardinality(T)
    BY <1>1, FS_Subset
  <1>3. ASSUME NEW a, S \subseteq T \union {a} PROVE Cardinality(S) <= Cardinality(T) + 1
    <2>1. IsFiniteSet(T \union {a}) /\ Cardinality(T \union {a}) <= Cardinality(T) + 1
          /\ Cardinality(T \union {a}) \in Nat
      BY <1>1, FS_AddElement, FS_CardinalityType
    <2>2. Cardinality(S) <= Cardinality(T \union {a})
      BY <1>3, <2>1, FS_Subset
    <2> QED BY <1>1, <2>1, <2>2
  <1> QED BY <1>1, <1>2, <1>3

(* A journal write reserves no capacity unless it admits, and then only    *)
(* where there is room; what is on disk is then one of two journals that   *)
(* fit.                                                                    *)
LEMMA RoomSaves ==
    ASSUME HostInv, Room, NEW t \in Threads, Busy(t), NEW a, a = Alloc(t), NEW r, NEW next,
           Save(t, r, next),
           \/ (r.created /\ ~r.released => mem[a].created /\ ~mem[a].released)
           \/ Cardinality(Used) < Capacity
    PROVE  Room'
  <1>1. disk = mem /\ a \in Allocs /\ mem \in [Allocs -> Records]
    BY DEF Save, HostInv, HostTypes, TypeOK, Gated, Journal
  <1>2. mem' = [mem EXCEPT ![a] = r] /\ disk' \in {mem, mem'}
    BY <1>1 DEF Save, Fault
  <1>3. Used \in SUBSET Allocs /\ Used' \in SUBSET Allocs /\ DiskUsed' \in SUBSET Allocs
    BY DEF Used, DiskUsed
  <1>4. DiskUsed' = Used \/ DiskUsed' = Used'
    BY <1>2 DEF Used, DiskUsed
  <1>5. Used' \subseteq Used \union {a}
    BY <1>1, <1>2 DEF Used
  <1>6. CASE r.created /\ ~r.released => mem[a].created /\ ~mem[a].released
    <2>1. Used' \subseteq Used  BY <1>1, <1>2, <1>6 DEF Used
    <2>2. Cardinality(Used') <= Cardinality(Used) /\ Cardinality(Used) \in Nat
          /\ Cardinality(Used') \in Nat
      BY <1>3, <2>1, Counts
    <2> QED BY <1>4, <2>2, HostAssumption DEF Room
  <1>7. CASE Cardinality(Used) < Capacity
    <2>1. Cardinality(Used') <= Cardinality(Used) + 1 /\ Cardinality(Used) \in Nat
          /\ Cardinality(Used') \in Nat
      BY <1>3, <1>5, Counts
    <2> QED BY <1>4, <1>7, <2>1, HostAssumption DEF Room
  <1> QED BY <1>6, <1>7

(* Reserved capacity stays within the host's, in memory and on disk.       *)
LEMMA RoomStep == HostInv /\ Room /\ [Next]_vars => Room'
  <1> SUFFICES ASSUME HostInv, Room, [Next]_vars PROVE Room'  OBVIOUS
  <1>0. CASE UNCHANGED <<mem, disk>>  BY <1>0 DEF Room, Used, DiskUsed
  <1>1. ASSUME NEW t \in Threads, Work(t) PROVE Room'
    <2>a. PICK a : a = Alloc(t)  OBVIOUS
    <2>1. CASE FindGate(t)
      <3>1. Busy(t)  BY <2>1 DEF FindGate, At, Busy
      <3>2. CASE Save(t, [NoRecord EXCEPT !.present = TRUE], [thr[t] EXCEPT !.pc = "lock"])
        BY <2>a, <3>1, <3>2, RoomSaves DEF NoRecord
      <3> QED BY <1>0, <2>1, <3>2 DEF FindGate, journalVars
    <2>2. ASSUME NEW r, NEW next, Save(t, r, next), Busy(t),
                 r.created = mem[a].created, mem[a].released => r.released
          PROVE  Room'
      BY <2>a, <2>2, RoomSaves
    <2>3. Busy(t) => mem[a] \in Records  BY <2>a, Knows
    <2>4. CASE Fence(t)
      BY <2>a, <2>2, <2>3, <2>4 DEF Fence, At, Busy, Records
    <2>5. CASE Admit(t)
      BY <2>a, <2>5, RoomSaves DEF Admit, At, Busy
    <2>6. CASE Dispatch(t)
      BY <2>a, <2>2, <2>3, <2>6 DEF Dispatch, At, Busy, Records
    <2>7. CASE Halt(t)
      BY <2>a, <2>2, <2>3, <2>7 DEF Halt, At, Busy, Records
    <2>8. CASE Release(t)
      <3>1. Busy(t)  BY <2>8 DEF Release, At, Busy
      <3>2. ASSUME Save(t, [mem[a] EXCEPT !.stopped = TRUE, !.released = TRUE],
                        [thr[t] EXCEPT !.pc = "reply"])
            PROVE  Room'
        <4>1. PICK r : r = [mem[a] EXCEPT !.stopped = TRUE, !.released = TRUE]  OBVIOUS
        <4>2. r.created = mem[a].created /\ r.released  BY <2>3, <3>1, <4>1 DEF Records
        <4> QED BY <2>2, <3>1, <3>2, <4>1, <4>2
      <3> QED BY <1>0, <2>a, <2>8, <3>2 DEF Release, journalVars
    <2> QED BY <1>0, <1>1, <2>1, <2>4, <2>5, <2>6, <2>7, <2>8
        DEF Work, LeaseAbsent, LockGate, CreateAgain, Prepare, PrepareLate, Spawn, WaitReady,
            ObserveAbsent, ObserveReady, ObserveFence, ObserveUncertain, ReplyReleased, TryGate,
            Refuse, Fails, journalVars
  <1>2. CASE Open
    <2>1. \A b \in Allocs : Ordered(disk[b]) /\ disk[b] \in Records
      BY DEF HostInv, Journal, HostTypes, TypeOK
    <2>2. \A b \in Allocs : /\ disk[b].present => mem'[b] = [disk[b] EXCEPT !.stopped = TRUE]
                            /\ ~disk[b].present => mem'[b] = NoRecord
      BY <1>2 DEF Open
    <2>3. ASSUME NEW b \in Allocs
          PROVE  (mem'[b].created /\ ~mem'[b].released) <=> (disk[b].created /\ ~disk[b].released)
      <3>1. CASE disk[b].present  BY <2>1, <2>2, <3>1 DEF Records
      <3>2. CASE ~disk[b].present
        <4>1. ~disk[b].created  BY <2>1, <3>2 DEF Ordered
        <4>2. mem'[b] = NoRecord  BY <2>2, <3>2
        <4>3. ~mem'[b].created  BY <4>2 DEF NoRecord
        <4> QED BY <4>1, <4>3
      <3> QED BY <3>1, <3>2
    <2>4. Used' = DiskUsed  BY <2>3 DEF Used, DiskUsed
    <2>5. disk' = disk \/ disk' = mem'  BY <1>2 DEF Open
    <2>6. DiskUsed' = DiskUsed \/ DiskUsed' = Used'  BY <2>5 DEF Used, DiskUsed
    <2> QED BY <2>4, <2>6 DEF Room
  <1> QED BY <1>0, <1>1, <1>2
      DEF Next, vars, Receive, ReceivePrevious, ReconcilePick, Reserve, GuardianLaunch,
          GuardianEnd, Crash, journalVars

(* Allocations with files or processes never exceed the host's capacity,   *)
(* whatever a crash or a lost write forgot (admit()).                      *)
THEOREM CapacityAlwaysHolds == Spec => []CapacityHolds
  <1>1. Init => Room
    <2> SUFFICES ASSUME Init PROVE Room  OBVIOUS
    <2>1. Used = {} /\ DiskUsed = {}  BY DEF Init, Used, DiskUsed, NoRecord
    <2> QED BY <2>1, FS_EmptySet, HostAssumption DEF Room
  <1>2. HostInv /\ Room => CapacityHolds
    <2> SUFFICES ASSUME HostInv, Room PROVE CapacityHolds  OBVIOUS
    <2> DEFINE S == {a \in Allocs : dir[a] \in {"staged", "partial", "live", "ended"}}
    <2>1. S \subseteq DiskUsed
      BY DEF HostInv, Files, Grounded, DiskUsed
    <2>2. S \in SUBSET Allocs /\ DiskUsed \in SUBSET Allocs  BY DEF DiskUsed
    <2>3. Cardinality(S) <= Cardinality(DiskUsed) /\ Cardinality(S) \in Nat
          /\ Cardinality(DiskUsed) \in Nat
      BY <2>1, <2>2, Counts
    <2> QED BY <2>3, HostAssumption DEF Room, CapacityHolds
  <1> QED BY <1>1, <1>2, RoomStep, HostInvariant, PTL DEF Spec

-----------------------------------------------------------------------------
(* The contract of the allocation's runtime.                               *)

(* One step of any thread, guardian or operator is a step of the contract. *)
LEMMA RuntimeStep ==
    ASSUME HostInv, [Next]_vars, NEW a \in Allocs
    PROVE  Runtime(a)!RuntimeNext \/ RuntimeOf(a)' = RuntimeOf(a)
  <1>1. CASE dir' = dir  BY <1>1 DEF RuntimeOf
  <1>2. ASSUME NEW s \in {"none", "staged", "partial", "live", "ended", "stopped"},
               \/ dir[a] = "none" /\ s \in {"none", "staged", "partial", "stopped"}
               \/ dir[a] \in {"staged", "ended", "stopped"} /\ s = "stopped"
               \/ dir[a] = "staged" /\ s = "live"
               \/ dir[a] = "live" /\ s = "ended"
               \/ dir[a] = s,
               dir'[a] = s
        PROVE  Runtime(a)!RuntimeNext \/ RuntimeOf(a)' = RuntimeOf(a)
    BY <1>2 DEF RuntimeOf, Runtime!RuntimeNext, Runtime!Launch, Runtime!End, Runtime!Release
  <1>3. ASSUME NEW t \in Threads, Prepare(t) \/ ObserveFence(t)
        PROVE  Runtime(a)!RuntimeNext \/ RuntimeOf(a)' = RuntimeOf(a)
    <2>1. dir \in [Allocs -> {"none", "staged", "partial", "live", "ended", "stopped"}]
      BY DEF HostInv, HostTypes, TypeOK
    <2>2. CASE Prepare(t)  BY <1>2, <2>1, <2>2 DEF Prepare
    <2>3. CASE ObserveFence(t)  BY <1>2, <2>1, <2>3 DEF ObserveFence
    <2> QED BY <1>3, <2>2, <2>3
  <1>4. ASSUME NEW b \in Allocs, GuardianLaunch(b) \/ GuardianEnd(b)
        PROVE  Runtime(a)!RuntimeNext \/ RuntimeOf(a)' = RuntimeOf(a)
    <2>1. dir \in [Allocs -> {"none", "staged", "partial", "live", "ended", "stopped"}]
      BY DEF HostInv, HostTypes, TypeOK
    <2>2. CASE GuardianLaunch(b)  BY <1>2, <2>1, <2>2 DEF GuardianLaunch
    <2>3. CASE GuardianEnd(b)  BY <1>2, <2>1, <2>3 DEF GuardianEnd
    <2> QED BY <1>4, <2>2, <2>3
  <1> QED BY <1>1, <1>3, <1>4
      DEF Next, Work, vars, guardVars, FindGate, LeaseAbsent, LockGate, Fence, CreateAgain, Admit,
          PrepareLate, Dispatch, Spawn, WaitReady, Halt, ObserveAbsent, ObserveReady,
          ObserveUncertain, Release, ReplyReleased, TryGate, Refuse, Fails, Receive,
          ReceivePrevious, ReconcilePick, Reserve, Crash, Open

(* The host implements the runtime contract for each of its allocations.   *)
THEOREM HostImplementsRuntime == Spec => RuntimeContract
  <1>1. Init => \A a \in Allocs : Runtime(a)!RuntimeInit
    BY DEF Init, RuntimeOf, Runtime!RuntimeInit
  <1>2. HostInv /\ [Next]_vars =>
          [\A a \in Allocs : Runtime(a)!RuntimeNext \/ RuntimeOf(a)' = RuntimeOf(a)]_vars
    BY RuntimeStep
  <1> QED BY <1>1, <1>2, HostInvariant, PTL DEF Spec, RuntimeContract
=============================================================================
