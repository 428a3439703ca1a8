--------------------------- MODULE GuardianProofs ---------------------------
(***************************************************************************)
(* Proofs about Guardian, for every set of callers and every value of the  *)
(* bounds.  The inductive invariant IInv says who may hold the lifecycle   *)
(* lock and what the lock holder's program point implies for the journal,  *)
(* the cgroup and the processes.                                           *)
(***************************************************************************)
EXTENDS Guardian, TLAPS

Holds(c) == pc[c] \in CallHolds \/ init[c] \in InitHolds

(* The flock: one holder, in one role.                                     *)
OneHolder ==
    /\ \A c, d \in Callers : Holds(c) /\ Holds(d) => c = d
    /\ \A c \in Callers : ~(pc[c] \in CallHolds /\ init[c] \in InitHolds)

(* What a caller inside its critical section knows.                        *)
CallerKnows ==
    \A c \in Callers :
        /\ pc[c] = "staging"  => receipt.state = "staging"
        /\ pc[c] = "manifest" => receipt.state = "none" /\ group = 0
        /\ pc[c] \in {"cleaning", "removed"} => receipt.state = "fenced"
        /\ pc[c] \in {"staging", "spawn"} => init[c] = "none"
        /\ pc[c] = "removed"  => group = 0 /\ vm \in {"none", "gone"}

(* What a namespace init that holds the lock knows.                        *)
InitKnows ==
    \A c \in Callers :
        /\ init[c] \in InitHolds => receipt.boot = boot /\ vm # "dying"
        /\ init[c] \in {"owned", "armed"} => receipt.state = "prepared"
        /\ init[c] = "owned" => deadline = Unarmed
        /\ init[c] \in InitHolds \ {"owned"} => group # 0
        /\ init[c] \in {"owned", "armed", "intent"} => vm = "none"
        /\ init[c] \in {"intent", "spawned", "serving"} => receipt.inode = group
        /\ init[c] \in {"intent", "spawned"} => receipt.state = "launch_intent"
        /\ init[c] = "serving" =>
               /\ receipt.state \in {"running", "stopping"}
               /\ mem.state \in {"running", "stopping"}
               /\ mem.boot = boot /\ mem.inode = group

(* Without a lock holder nothing is starting, and only the doomed remain.  *)
VmHasInit ==
    vm \in {"joining", "alive"} =>
        \E c \in Callers : init[c] \in {"spawned", "serving"}

(* The word belongs to an armed init.                                      *)
WordHasInit ==
    deadline # Unarmed => \E c \in Callers : init[c] \in InitHolds \ {"owned"}

BeforeLaunch == receipt.state \in {"none", "staging", "prepared"} => vm = "none"

Rest == /\ OneHolder /\ CallerKnows /\ InitKnows /\ VmHasInit
        /\ WordHasInit /\ BeforeLaunch /\ LiveVmIsProvable /\ StoppedMeansGone

IInv == /\ TypeOK /\ OneHolder /\ CallerKnows /\ InitKnows /\ VmHasInit
        /\ WordHasInit /\ BeforeLaunch /\ LiveVmIsProvable /\ StoppedMeansGone

(* The missing receipt and the idle renewal have their types.              *)
LEMMA RecordTypes == Absent \in Receipts /\ Idle \in Renewals
  BY DEF Absent, Receipts, States, NoGuest, Idle, Renewals

(* The receipt a renewal writes is a receipt.                              *)
LEMMA RenewedType ==
  ASSUME NEW r \in Receipts, NEW rev \in Nat, NEW expires \in Int
  PROVE  Renewed(r, rev, expires) \in Receipts
  BY DEF Receipts, Renewed

(* The receipts prepare and fence_unstarted write are receipts.            *)
LEMMA FreshType ==
  ASSUME NEW state \in States, NEW b \in Nat
  PROVE  Fresh(state, b) \in Receipts
  BY GuardianAssumption DEF Receipts, Fresh, NoGuest

(* The state before the first call is well typed.                          *)
LEMMA InitType == Init => TypeOK
  <1> SUFFICES ASSUME Init PROVE TypeOK  OBVIOUS
  <1> USE RecordTypes DEF Init
  <1>1. pc \in [Callers -> CallPoints] /\ init \in [Callers -> InitPoints]
    BY DEF CallPoints, InitPoints
  <1>2. receipt \in Receipts /\ mem \in Receipts /\ renewing \in Renewals
    OBVIOUS
  <1>3. manifest \in BOOLEAN  OBVIOUS
  <1>4. hellos \in SUBSET GuestBoots  OBVIOUS
  <1>5. /\ deadline \in Int /\ group \in Nat /\ made \in Nat
        /\ boot \in Nat /\ now \in Nat /\ skew \in Nat /\ faults \in Nat
    BY DEF Unarmed
  <1> QED BY <1>1, <1>2, <1>3, <1>4, <1>5 DEF TypeOK

(* Every step of callers, inits, control threads and kernel preserves the  *)
(* types.                                                                  *)
LEMMA TypeStep == TypeOK /\ [Next]_vars => TypeOK'
  <1> SUFFICES ASSUME TypeOK, [Next]_vars PROVE TypeOK'  OBVIOUS
  <1> USE GuardianAssumption, RecordTypes
      DEF TypeOK, States, Renewals, CallPoints, InitPoints, NoGuest, Unarmed, Fault, vars,
          callVars, diskVars, memVars, hostVars, clockVars
  <1>1. ASSUME NEW c \in Callers, CallStep(c) PROVE TypeOK'
    <2>1. CASE PrepareNew(c)
      <3>1. receipt' \in Receipts  BY <2>1, FreshType DEF PrepareNew
      <3> QED BY <2>1, <3>1 DEF PrepareNew
    <2>2. CASE PrepareDone(c) BY <2>2 DEF Receipts, PrepareDone
    <2>3. CASE PrepareFailed(c) BY <2>3 DEF Receipts, PrepareFailed
    <2>4. CASE PrepareExisting(c) BY <2>4 DEF PrepareExisting
    <2>5. CASE PrepareReturns(c) BY <2>5 DEF PrepareReturns
    <2>6. CASE SpawnInit(c) BY <2>6 DEF SpawnInit
    <2>7. CASE InitReaped(c) BY <2>7 DEF InitReaped
    <2>8. CASE Reconcile(c) BY <2>8 DEF Receipts, Reconcile
    <2>9. CASE ReconcileBusy(c) BY <2>9 DEF ReconcileBusy
    <2>10. CASE FenceRecord(c) BY <2>10 DEF Receipts, FenceRecord
    <2>11. CASE FenceAbsent(c) BY <2>11 DEF FenceAbsent
    <2>12. CASE FenceWrite(c)
      <3>1. receipt' \in Receipts  BY <2>12, FreshType DEF FenceWrite
      <3> QED BY <2>12, <3>1 DEF FenceWrite
    <2>13. CASE CleanKill(c) BY <2>13 DEF CleanKill
    <2>14. CASE CleanRemove(c) BY <2>14 DEF CleanRemove
    <2>15. CASE CleanStop(c) BY <2>15 DEF Receipts, CleanStop
    <2>16. CASE CallerFails(c) BY <2>16 DEF CallerFails
    <2> QED BY <1>1, <2>1, <2>2, <2>3, <2>4, <2>5, <2>6, <2>7, <2>8, <2>9, <2>10, <2>11, <2>12,
        <2>13, <2>14, <2>15, <2>16 DEF CallStep
  <1>2. ASSUME NEW c \in Callers, InitStep(c) PROVE TypeOK'
    <2>1. CASE InitLock(c) BY <2>1 DEF InitLock
    <2>2. CASE InitRefused(c) BY <2>2 DEF InitRefused
    <2>3. CASE InitArm(c) BY <2>3 DEF InitArm, wall, Convertible, Convert
    <2>4. CASE InitArmFails(c) BY <2>4 DEF InitArmFails, Exit, Doomed, InitHolds
    <2>5. CASE InitIntent(c) BY <2>5 DEF Receipts, InitIntent
    <2>6. CASE InitSpawn(c) BY <2>6 DEF InitSpawn
    <2>7. CASE InitConfirm(c) BY <2>7 DEF Receipts, InitConfirm
    <2>8. CASE InitUnconfirmed(c) BY <2>8 DEF InitUnconfirmed, Exit, Doomed, InitHolds
    <2>9. CASE InitReaps(c) BY <2>9 DEF Receipts, InitReaps, Exit, Doomed, InitHolds
    <2>10. CASE WatchdogExpire(c) BY <2>10 DEF WatchdogExpire
    <2>11. CASE WatchdogExit(c) BY <2>11 DEF WatchdogExit, Exit, Doomed, InitHolds
    <2>12. CASE InitDies(c) BY <2>12 DEF InitDies, Exit, Doomed, InitHolds
    <2> QED BY <1>2, <2>1, <2>2, <2>3, <2>4, <2>5, <2>6, <2>7, <2>8, <2>9, <2>10, <2>11,
        <2>12 DEF InitStep
  <1>3. ASSUME NEW c \in Callers, ControlStep(c) PROVE TypeOK'
    <2>1. CASE HandleStop(c) BY <2>1 DEF Receipts, HandleStop
    <2>2. ASSUME NEW rev \in 1..MaxRevision, NEW expires \in 1..IdentityUntil,
                 RenewPersist(c, rev, expires)
          PROVE  TypeOK'
      <3>1. Renewed(mem, rev, expires) \in Receipts
        BY RenewedType
      <3>2. receipt' \in Receipts  BY <2>2, <3>1 DEF RenewPersist
      <3>3. renewing' \in Renewals
        <4>1. rev \in Nat /\ expires \in Int  OBVIOUS
        <4>2. [on |-> TRUE, prior |-> deadline, next |-> 0, rev |-> rev,
               expires |-> expires] \in Renewals
          BY <4>1 DEF Renewals
        <4> QED BY <2>2, <4>2 DEF RenewPersist
      <3>4. deadline' \in Int /\ faults' \in Nat  BY <2>2 DEF RenewPersist
      <3> QED BY <2>2, <3>2, <3>3, <3>4 DEF RenewPersist
    <2>3. CASE RenewCheck(c) BY <2>3 DEF RenewCheck, Convert, wall
    <2>4. CASE RenewExchange(c)
      <3>1. mem' \in Receipts  BY <2>4, RenewedType DEF RenewExchange
      <3> QED BY <2>4, <3>1 DEF RenewExchange
    <2>5. ASSUME NEW b \in GuestBoots, BindHello(c, b) PROVE TypeOK' BY <2>5 DEF BindHello
    <2>6. ASSUME NEW b \in GuestBoots, BindCommit(c, b) PROVE TypeOK' BY <2>6 DEF Receipts,
        BindCommit
    <2> QED BY <1>3, <2>1, <2>2, <2>3, <2>4, <2>5, <2>6 DEF ControlStep
  <1>4. CASE KernelStep BY <1>4 DEF KernelStep, JailerJoin, VmExit, Tick, WallStep, HostReboot
  <1>5. CASE UNCHANGED vars BY <1>5
  <1> QED BY <1>1, <1>2, <1>3, <1>4, <1>5 DEF Next

(* Every step preserves what the holder of the lifecycle lock knows.       *)
LEMMA LockStep == IInv /\ [Next]_vars => Rest'
  <1> SUFFICES ASSUME IInv, [Next]_vars PROVE Rest'  OBVIOUS
  <1>0. TypeOK'  BY TypeStep DEF IInv
  <1> USE <1>0, GuardianAssumption DEF Rest, IInv, TypeOK, Receipts, Holds, OneHolder,
      CallerKnows, InitKnows,
      VmHasInit, WordHasInit, BeforeLaunch, LiveVmIsProvable, StoppedMeansGone,
      CallHolds, InitHolds, Unarmed, vars, callVars, diskVars, memVars, hostVars, clockVars
  <1>1. ASSUME NEW c \in Callers, CallStep(c) PROVE Rest'
    <2>1. CASE PrepareNew(c) BY <2>1 DEF PrepareNew, LockFree, Fresh
    <2>2. CASE PrepareDone(c) BY <2>2 DEF PrepareDone
    <2>3. CASE PrepareFailed(c) BY <2>3 DEF PrepareFailed
    <2>4. CASE PrepareExisting(c) BY <2>4 DEF PrepareExisting, LockFree
    <2>5. CASE PrepareReturns(c) BY <2>5 DEF PrepareReturns
    <2>6. CASE SpawnInit(c)
      <3>1. OneHolder'  BY <2>6 DEF SpawnInit
      <3>2. CallerKnows'  BY <2>6 DEF SpawnInit
      <3>3. InitKnows'  BY <2>6 DEF SpawnInit
      <3>4. VmHasInit'
        <4>1. SUFFICES ASSUME vm \in {"joining", "alive"}
              PROVE  \E d \in Callers : init'[d] \in {"spawned", "serving"}
          BY <2>6 DEF SpawnInit
        <4>2. PICK d \in Callers : init[d] \in {"spawned", "serving"}  BY <4>1
        <4> QED BY <2>6, <4>2 DEF SpawnInit
      <3>5. BeforeLaunch'  BY <2>6 DEF SpawnInit
      <3>6. LiveVmIsProvable'  BY <2>6 DEF SpawnInit
      <3>7. StoppedMeansGone'  BY <2>6 DEF SpawnInit
      <3>8. WordHasInit'  BY <2>6 DEF SpawnInit
      <3> QED BY <3>1, <3>2, <3>3, <3>4, <3>5, <3>6, <3>7, <3>8
    <2>7. CASE InitReaped(c) BY <2>7 DEF InitReaped
    <2>8. CASE Reconcile(c) BY <2>8 DEF Reconcile, LockFree
    <2>9. CASE ReconcileBusy(c) BY <2>9 DEF ReconcileBusy, LockFree
    <2>10. CASE FenceRecord(c) BY <2>10 DEF FenceRecord, LockFree
    <2>11. CASE FenceAbsent(c) BY <2>11 DEF FenceAbsent, LockFree
    <2>12. CASE FenceWrite(c) BY <2>12 DEF FenceWrite, Fresh
    <2>13. CASE CleanKill(c) BY <2>13 DEF CleanKill
    <2>14. CASE CleanRemove(c) BY <2>14 DEF CleanRemove
    <2>15. CASE CleanStop(c) BY <2>15 DEF CleanStop
    <2>16. CASE CallerFails(c) BY <2>16 DEF CallerFails
    <2> QED BY <1>1, <2>1, <2>2, <2>3, <2>4, <2>5, <2>6, <2>7, <2>8, <2>9, <2>10, <2>11, <2>12,
        <2>13, <2>14, <2>15, <2>16 DEF CallStep
  <1>2. ASSUME NEW c \in Callers, InitStep(c) PROVE Rest'
    <2>1. CASE InitLock(c)
      <3>1. OneHolder'  BY <2>1 DEF InitLock, LockFree
      <3>2. CallerKnows'  BY <2>1 DEF InitLock, LockFree
      <3>3. InitKnows'  BY <2>1 DEF InitLock, LockFree
      <3>4. VmHasInit'
        <4>1. \A d \in Callers : init[d] \notin {"spawned", "serving"}
          BY <2>1 DEF InitLock, LockFree
        <4>2. vm' \notin {"joining", "alive"}  BY <2>1, <4>1 DEF InitLock
        <4> QED BY <4>2
      <3>5. BeforeLaunch'  BY <2>1 DEF InitLock, LockFree
      <3>6. LiveVmIsProvable'  BY <2>1 DEF InitLock, LockFree
      <3>7. StoppedMeansGone'  BY <2>1 DEF InitLock, LockFree
      <3>8. WordHasInit'  BY <2>1 DEF InitLock, LockFree
      <3> QED BY <3>1, <3>2, <3>3, <3>4, <3>5, <3>6, <3>7, <3>8
    <2>2. CASE InitRefused(c) BY <2>2 DEF InitRefused
    <2>3. CASE InitArm(c) BY <2>3 DEF InitArm
    <2>4. CASE InitArmFails(c) BY <2>4 DEF InitArmFails, Exit, Doomed
    <2>5. CASE InitIntent(c) BY <2>5 DEF InitIntent
    <2>6. CASE InitSpawn(c) BY <2>6 DEF InitSpawn
    <2>7. CASE InitConfirm(c) BY <2>7 DEF InitConfirm
    <2>8. CASE InitUnconfirmed(c) BY <2>8 DEF InitUnconfirmed, Exit, Doomed
    <2>9. CASE InitReaps(c) BY <2>9 DEF InitReaps, Exit, Doomed
    <2>10. CASE WatchdogExpire(c) BY <2>10 DEF WatchdogExpire
    <2>11. CASE WatchdogExit(c) BY <2>11 DEF WatchdogExit, Exit, Doomed
    <2>12. CASE InitDies(c) BY <2>12 DEF InitDies, Exit, Doomed
    <2> QED BY <1>2, <2>1, <2>2, <2>3, <2>4, <2>5, <2>6, <2>7, <2>8, <2>9, <2>10, <2>11,
        <2>12 DEF InitStep
  <1>3. ASSUME NEW c \in Callers, ControlStep(c) PROVE Rest'
    <2>1. CASE HandleStop(c) BY <2>1 DEF HandleStop
    <2>2. ASSUME NEW rev \in 1..MaxRevision, NEW expires \in 1..IdentityUntil,
                 RenewPersist(c, rev, expires)
          PROVE  Rest'
      BY <2>2 DEF RenewPersist, Renewed
    <2>3. CASE RenewCheck(c) BY <2>3 DEF RenewCheck
    <2>4. CASE RenewExchange(c) BY <2>4 DEF RenewExchange, Renewed
    <2>5. ASSUME NEW b \in GuestBoots, BindHello(c, b) PROVE Rest' BY <2>5 DEF BindHello
    <2>6. ASSUME NEW b \in GuestBoots, BindCommit(c, b) PROVE Rest' BY <2>6 DEF BindCommit
    <2> QED BY <1>3, <2>1, <2>2, <2>3, <2>4, <2>5, <2>6 DEF ControlStep
  <1>4. CASE KernelStep BY <1>4 DEF KernelStep, JailerJoin, VmExit, Tick, WallStep, HostReboot
  <1>5. CASE UNCHANGED vars BY <1>5
  <1> QED BY <1>1, <1>2, <1>3, <1>4, <1>5 DEF Next

(* What the registry mutex protects: the record in memory is on disk, a    *)
(* renewal in progress is on disk and does not shorten the word in force.  *)
ControlKnows ==
    /\ renewing.on => \E c \in Callers : init[c] = "serving"
    /\ renewing.on => renewing.prior > 0
    /\ renewing.on /\ renewing.next # 0 => renewing.next >= renewing.prior
    /\ renewing.on => /\ receipt.rev = renewing.rev
                      /\ receipt.expires = renewing.expires
    /\ \A c \in Callers : init[c] = "serving" =>
          /\ receipt.rev >= mem.rev /\ receipt.expires >= mem.expires
          /\ mem.guest \in {NoGuest, receipt.guest}
          /\ deadline > 0 => receipt.guest = mem.guest

(* Every step preserves what the control threads know of the durable       *)
(* record.                                                                 *)
LEMMA ControlInv == IInv /\ ControlKnows /\ [Next]_vars => ControlKnows'
  <1> SUFFICES ASSUME IInv, ControlKnows, [Next]_vars PROVE ControlKnows'  OBVIOUS
  <1>0. TypeOK'  BY TypeStep DEF IInv
  <1> USE <1>0, GuardianAssumption DEF IInv, TypeOK, Receipts, Holds, OneHolder, InitKnows,
      CallerKnows, ControlKnows,
      CallHolds, InitHolds, Unarmed, NoGuest, vars, callVars, diskVars, memVars, hostVars,
          clockVars
  <1>1. ASSUME NEW c \in Callers, CallStep(c) PROVE ControlKnows'
    <2>1. CASE PrepareNew(c) BY <2>1 DEF PrepareNew, LockFree
    <2>2. CASE PrepareDone(c) BY <2>2 DEF PrepareDone
    <2>3. CASE PrepareFailed(c) BY <2>3 DEF PrepareFailed
    <2>4. CASE PrepareExisting(c) BY <2>4 DEF PrepareExisting
    <2>5. CASE PrepareReturns(c) BY <2>5 DEF PrepareReturns
    <2>6. CASE SpawnInit(c) BY <2>6 DEF SpawnInit
    <2>7. CASE InitReaped(c) BY <2>7 DEF InitReaped
    <2>8. CASE Reconcile(c) BY <2>8 DEF Reconcile, LockFree
    <2>9. CASE ReconcileBusy(c) BY <2>9 DEF ReconcileBusy
    <2>10. CASE FenceRecord(c) BY <2>10 DEF FenceRecord, LockFree
    <2>11. CASE FenceAbsent(c) BY <2>11 DEF FenceAbsent, LockFree
    <2>12. CASE FenceWrite(c) BY <2>12 DEF FenceWrite
    <2>13. CASE CleanKill(c) BY <2>13 DEF CleanKill
    <2>14. CASE CleanRemove(c) BY <2>14 DEF CleanRemove
    <2>15. CASE CleanStop(c) BY <2>15 DEF CleanStop
    <2>16. CASE CallerFails(c) BY <2>16 DEF CallerFails
    <2> QED BY <1>1, <2>1, <2>2, <2>3, <2>4, <2>5, <2>6, <2>7, <2>8, <2>9, <2>10, <2>11, <2>12,
        <2>13, <2>14, <2>15, <2>16 DEF CallStep
  <1>2. ASSUME NEW c \in Callers, InitStep(c) PROVE ControlKnows'
    <2>1. CASE InitLock(c) BY <2>1 DEF InitLock, LockFree
    <2>2. CASE InitRefused(c) BY <2>2 DEF InitRefused
    <2>3. CASE InitArm(c) BY <2>3 DEF InitArm
    <2>4. CASE InitArmFails(c) BY <2>4 DEF InitArmFails, Exit, Idle, Absent
    <2>5. CASE InitIntent(c) BY <2>5 DEF InitIntent
    <2>6. CASE InitSpawn(c) BY <2>6 DEF InitSpawn
    <2>7. CASE InitConfirm(c) BY <2>7 DEF InitConfirm
    <2>8. CASE InitUnconfirmed(c) BY <2>8 DEF InitUnconfirmed, Exit, Idle, Absent
    <2>9. CASE InitReaps(c) BY <2>9 DEF InitReaps, Exit, Idle, Absent
    <2>10. CASE WatchdogExpire(c) BY <2>10 DEF WatchdogExpire
    <2>11. CASE WatchdogExit(c) BY <2>11 DEF WatchdogExit, Exit, Idle, Absent
    <2>12. CASE InitDies(c) BY <2>12 DEF InitDies, Exit, Idle, Absent
    <2> QED BY <1>2, <2>1, <2>2, <2>3, <2>4, <2>5, <2>6, <2>7, <2>8, <2>9, <2>10, <2>11,
        <2>12 DEF InitStep
  <1>3. ASSUME NEW c \in Callers, ControlStep(c) PROVE ControlKnows'
    <2>1. CASE HandleStop(c) BY <2>1 DEF HandleStop
    <2>2. ASSUME NEW rev \in 1..MaxRevision, NEW expires \in 1..IdentityUntil,
                 RenewPersist(c, rev, expires)
          PROVE  ControlKnows'
      <3> DEFINE r == Renewed(mem, rev, expires)
      <3>0. rev \in Nat /\ expires \in Int  OBVIOUS
      <3>1. r.rev = rev /\ r.expires = expires /\ r.guest = mem.guest
        BY <3>0 DEF Renewed
      <3>2. /\ rev > mem.rev /\ expires >= mem.expires /\ init' = init
            /\ mem' = mem /\ deadline > 0 /\ init[c] = "serving"
        BY <2>2 DEF RenewPersist, Live
      <3>3. CASE renewing' = [on |-> TRUE, prior |-> deadline, next |-> 0,
                              rev |-> rev, expires |-> expires]
                 /\ receipt' = r /\ deadline' = deadline
        <4> HIDE DEF r
        <4> QED BY <3>1, <3>2, <3>3
      <3>4. CASE renewing' = renewing /\ ~renewing.on /\ deadline' = 0
                 /\ receipt' \in {receipt, r}
        <4> HIDE DEF r
        <4> QED BY <3>1, <3>2, <3>4
      <3> QED BY <2>2, <3>3, <3>4 DEF RenewPersist
    <2>3. CASE RenewCheck(c) BY <2>3 DEF RenewCheck, ExtendChecks, Convert, wall, Idle
    <2>4. CASE RenewExchange(c)
      <3> DEFINE r == Renewed(mem, renewing.rev, renewing.expires)
      <3>0. renewing.rev \in Nat /\ renewing.expires \in Int  BY DEF Renewals
      <3>1. /\ r.rev = renewing.rev /\ r.expires = renewing.expires
            /\ r.guest = mem.guest
        BY <3>0 DEF Renewed
      <3>2. /\ ~renewing'.on /\ init' = init /\ receipt' = receipt
            /\ renewing.on /\ init[c] = "serving"
        BY <2>4 DEF RenewExchange, Idle
      <3>3. CASE mem' = r /\ deadline = renewing.prior
        <4> HIDE DEF r
        <4> QED BY <3>1, <3>2, <3>3
      <3>4. CASE mem' = mem /\ deadline' = deadline
        BY <3>2, <3>4
      <3> QED BY <2>4, <3>3, <3>4 DEF RenewExchange, Exchangeable
    <2>5. ASSUME NEW b \in GuestBoots, BindHello(c, b) PROVE ControlKnows' BY <2>5 DEF BindHello
    <2>6. ASSUME NEW b \in GuestBoots, BindCommit(c,
        b) PROVE ControlKnows' BY <2>6 DEF BindCommit, Bindable, Live
    <2> QED BY <1>3, <2>1, <2>2, <2>3, <2>4, <2>5, <2>6 DEF ControlStep
  <1>4. CASE KernelStep BY <1>4 DEF KernelStep, JailerJoin, VmExit, Tick, WallStep, HostReboot,
      Idle, Absent
  <1>5. CASE UNCHANGED vars BY <1>5
  <1> QED BY <1>1, <1>2, <1>3, <1>4, <1>5 DEF Next

(* Every reachable state of the guardian is of the declared types.         *)
THEOREM TypeCorrect == Spec => []TypeOK
  BY InitType, TypeStep, PTL DEF Spec

(* The inductive invariant holds in every reachable state.                 *)
LEMMA Invariants == Spec => [](IInv /\ ControlKnows)
  <1>1. Init => IInv /\ ControlKnows
    <2> SUFFICES ASSUME Init PROVE IInv /\ ControlKnows  OBVIOUS
    <2>1. TypeOK  BY InitType
    <2>2. Rest
      BY DEF Init, Rest, OneHolder, Holds, CallerKnows, InitKnows, VmHasInit,
             WordHasInit, BeforeLaunch, LiveVmIsProvable, StoppedMeansGone,
             CallHolds, InitHolds, Absent
    <2>3. ControlKnows  BY DEF Init, ControlKnows, Idle
    <2> QED BY <2>1, <2>2, <2>3 DEF IInv, Rest
  <1>2. IInv /\ ControlKnows /\ [Next]_vars => (IInv /\ ControlKnows)'
    BY TypeStep, LockStep, ControlInv DEF IInv, Rest
  <1> QED BY <1>1, <1>2, PTL DEF Spec

(* Release evidence is sound: with a Stopped receipt no process of the     *)
(* allocation exists and none can be started (finish_cleanup,              *)
(* fence_unstarted against a racing namespace_init).                       *)
THEOREM ReleaseEvidenceSound == Spec => []StoppedMeansGone
  BY Invariants, PTL DEF IInv

(* Recovery can always prove that a populated cgroup is its own.           *)
THEOREM RecoveryCanProve == Spec => []LiveVmIsProvable
  BY Invariants, PTL DEF IInv

(* What a control reply acknowledged is durable.                           *)
THEOREM AckIsDurable == Spec => []DurableBeforeAck
  <1>1. ControlKnows => DurableBeforeAck  BY DEF ControlKnows, DurableBeforeAck
  <1> QED BY <1>1, Invariants, PTL

(* The deadline word: a fence stays, and a live deadline only grows.       *)
WordSafe == /\ deadline = 0 => deadline' \in {0, Unarmed}
            /\ deadline > 0 /\ deadline' > 0 => deadline' >= deadline

(* No step revives a zero deadline word or shortens a live one.            *)
LEMMA WordStep == IInv /\ ControlKnows /\ [Next]_vars => WordSafe
  <1> SUFFICES ASSUME IInv, ControlKnows, [Next]_vars PROVE WordSafe  OBVIOUS
  <1> USE GuardianAssumption DEF WordSafe, Unarmed, vars, callVars, diskVars, memVars, hostVars,
      clockVars
  <1>0. /\ deadline \in Int /\ now \in Nat
        /\ renewing.next \in Int /\ renewing.prior \in Int
    BY DEF IInv, TypeOK, Renewals
  <1>1. ASSUME NEW c \in Callers, CallStep(c) PROVE WordSafe
    BY <1>0, <1>1 DEF CallStep, PrepareNew, PrepareDone, PrepareFailed,
       PrepareExisting, PrepareReturns, SpawnInit, InitReaped, Reconcile,
       ReconcileBusy, FenceRecord, FenceAbsent, FenceWrite, CleanKill,
       CleanRemove, CleanStop, CallerFails
  <1>2. ASSUME NEW c \in Callers, InitStep(c) PROVE WordSafe
    <2>1. CASE InitArm(c)
      BY <1>0, <2>1 DEF InitArm, IInv, InitKnows
    <2>2. CASE InitLock(c) \/ InitRefused(c) \/ InitIntent(c) \/ InitSpawn(c) \/ InitConfirm(c)
      BY <1>0, <2>2 DEF InitLock, InitRefused, InitIntent, InitSpawn, InitConfirm
    <2>3. CASE WatchdogExpire(c)
      BY <1>0, <2>3 DEF WatchdogExpire
    <2>4. CASE \/ InitArmFails(c) \/ InitUnconfirmed(c) \/ InitReaps(c)
               \/ WatchdogExit(c) \/ InitDies(c)
      BY <1>0, <2>4 DEF InitArmFails, InitUnconfirmed, InitReaps, WatchdogExit, InitDies, Exit
    <2> QED BY <1>2, <2>1, <2>2, <2>3, <2>4 DEF InitStep
  <1>3. ASSUME NEW c \in Callers, ControlStep(c) PROVE WordSafe
    <2>1. CASE HandleStop(c)  BY <1>0, <2>1 DEF HandleStop
    <2>2. ASSUME NEW rev, NEW expires, RenewPersist(c, rev, expires)
          PROVE  WordSafe
      BY <1>0, <2>2 DEF RenewPersist
    <2>3. CASE RenewCheck(c)  BY <1>0, <2>3 DEF RenewCheck
    <2>4. CASE RenewExchange(c)
      BY <1>0, <2>4 DEF RenewExchange, Exchangeable, ControlKnows
    <2>5. ASSUME NEW b, BindHello(c, b) PROVE WordSafe
      BY <1>0, <2>5 DEF BindHello
    <2>6. ASSUME NEW b, BindCommit(c, b) PROVE WordSafe
      BY <1>0, <2>6 DEF BindCommit
    <2> QED BY <1>3, <2>1, <2>2, <2>3, <2>4, <2>5, <2>6 DEF ControlStep
  <1>4. CASE KernelStep
    BY <1>0, <1>4 DEF KernelStep, JailerJoin, VmExit, Tick, WallStep, HostReboot
  <1>5. CASE UNCHANGED vars  BY <1>0, <1>5
  <1> QED BY <1>1, <1>2, <1>3, <1>4, <1>5 DEF Next

(* No interleaving of renewal, stop and watchdog revives a fenced lease    *)
(* (Deadline::extend against Deadline::expire and Deadline::stop).         *)
THEOREM FenceIsIrrevocable == Spec => FenceIrrevocable
  <1>1. IInv /\ ControlKnows /\ [Next]_vars
          => [deadline = 0 => deadline' \in {0, Unarmed}]_vars
    BY WordStep DEF WordSafe
  <1> QED BY <1>1, Invariants, PTL DEF Spec, FenceIrrevocable

(* Nor does a renewal shorten a live lease, whatever the wall clock does.  *)
THEOREM RenewalsOnlyExtend == Spec => RenewalNeverShortens
  <1>1. IInv /\ ControlKnows /\ [Next]_vars
          => [deadline > 0 /\ deadline' > 0 => deadline' >= deadline]_vars
    BY WordStep DEF WordSafe
  <1> QED BY <1>1, Invariants, PTL DEF Spec, RenewalNeverShortens

(* Every step is a step of the abstract runtime or leaves it unchanged.    *)
LEMMA RuntimeStep == IInv /\ [Next]_vars => [Runtime!RuntimeNext]_RuntimeState
  <1> SUFFICES ASSUME IInv, [Next]_vars
               PROVE  Runtime!RuntimeNext \/ RuntimeState' = RuntimeState
    OBVIOUS
  <1>0. TypeOK'  BY TypeStep DEF IInv
  <1> DEFINE Goal == Runtime!RuntimeNext \/ RuntimeState' = RuntimeState
  <1> USE <1>0, GuardianAssumption DEF IInv, TypeOK, RuntimeState, Runtime!RuntimeNext,
      Runtime!Launch,
      Runtime!End, Runtime!Release, vars, callVars, diskVars, memVars, hostVars, clockVars
  <1>1. ASSUME NEW c \in Callers, CallStep(c) PROVE Goal
    <2>1. CASE PrepareNew(c) BY <2>1 DEF PrepareNew, Fresh
    <2>2. CASE PrepareDone(c) BY <2>2 DEF PrepareDone, Receipts, CallerKnows
    <2>3. CASE PrepareFailed(c) BY <2>3 DEF PrepareFailed, Receipts, CallerKnows
    <2>4. CASE PrepareExisting(c) BY <2>4 DEF PrepareExisting
    <2>5. CASE PrepareReturns(c) BY <2>5 DEF PrepareReturns
    <2>6. CASE SpawnInit(c) BY <2>6 DEF SpawnInit
    <2>7. CASE InitReaped(c) BY <2>7 DEF InitReaped
    <2>8. CASE Reconcile(c) BY <2>8 DEF Reconcile, Receipts
    <2>9. CASE ReconcileBusy(c) BY <2>9 DEF ReconcileBusy
    <2>10. CASE FenceRecord(c) BY <2>10 DEF FenceRecord, Receipts
    <2>11. CASE FenceAbsent(c) BY <2>11 DEF FenceAbsent
    <2>12. CASE FenceWrite(c) BY <2>12 DEF FenceWrite, Fresh, CallerKnows, BeforeLaunch
    <2>13. CASE CleanKill(c) BY <2>13 DEF CleanKill, CallerKnows
    <2>14. CASE CleanRemove(c) BY <2>14 DEF CleanRemove
    <2>15. CASE CleanStop(c) BY <2>15 DEF CleanStop, Receipts, CallerKnows
    <2>16. CASE CallerFails(c) BY <2>16 DEF CallerFails
    <2> QED BY <1>1, <2>1, <2>2, <2>3, <2>4, <2>5, <2>6, <2>7, <2>8, <2>9, <2>10, <2>11, <2>12,
        <2>13, <2>14, <2>15, <2>16 DEF CallStep
  <1>2. ASSUME NEW c \in Callers, InitStep(c) PROVE Goal
    <2>1. CASE InitLock(c) BY <2>1 DEF InitLock
    <2>2. CASE InitRefused(c) BY <2>2 DEF InitRefused
    <2>3. CASE InitArm(c) BY <2>3 DEF InitArm
    <2>4. CASE InitArmFails(c) BY <2>4 DEF InitArmFails, Exit, Doomed, InitHolds, InitKnows
    <2>5. CASE InitIntent(c) BY <2>5 DEF InitIntent, Receipts, InitKnows
    <2>6. CASE InitSpawn(c) BY <2>6 DEF InitSpawn, InitKnows
    <2>7. CASE InitConfirm(c) BY <2>7 DEF InitConfirm, Receipts, InitKnows
    <2>8. CASE InitUnconfirmed(c) BY <2>8 DEF InitUnconfirmed, Exit, Doomed, InitHolds, InitKnows
    <2>9. CASE InitReaps(c) BY <2>9 DEF InitReaps, Exit, Doomed, InitHolds, InitKnows, Receipts
    <2>10. CASE WatchdogExpire(c) BY <2>10 DEF WatchdogExpire
    <2>11. CASE WatchdogExit(c) BY <2>11 DEF WatchdogExit, Exit, Doomed, InitHolds, InitKnows
    <2>12. CASE InitDies(c) BY <2>12 DEF InitDies, Exit, Doomed, InitHolds, InitKnows
    <2> QED BY <1>2, <2>1, <2>2, <2>3, <2>4, <2>5, <2>6, <2>7, <2>8, <2>9, <2>10, <2>11,
        <2>12 DEF InitStep
  <1>3. ASSUME NEW c \in Callers, ControlStep(c) PROVE Goal
    <2>1. ASSUME init[c] = "serving", vm' = vm,
                 receipt' = receipt \/ receipt'.state \in {"running", "stopping"}
          PROVE  Goal
      BY <2>1 DEF InitKnows
    <2>2. CASE HandleStop(c)  BY <2>1, <2>2 DEF HandleStop, Receipts
    <2>3. ASSUME NEW rev \in 1..MaxRevision, NEW expires \in 1..IdentityUntil, RenewPersist(c,
        rev, expires)
          PROVE  Goal
      BY <2>1, <2>3 DEF RenewPersist, Renewed, Receipts, Live
    <2>4. CASE RenewCheck(c)  BY <2>1, <2>4 DEF RenewCheck
    <2>5. CASE RenewExchange(c)  BY <2>1, <2>5 DEF RenewExchange
    <2>6. ASSUME NEW b \in GuestBoots, BindHello(c, b) PROVE Goal
      BY <2>1, <2>6 DEF BindHello
    <2>7. ASSUME NEW b \in GuestBoots, BindCommit(c, b) PROVE Goal
      BY <2>1, <2>7 DEF BindCommit, Bindable, Live, Receipts
    <2> QED BY <1>3, <2>2, <2>3, <2>4, <2>5, <2>6, <2>7 DEF ControlStep
  <1>4. CASE KernelStep
    BY <1>4 DEF KernelStep, JailerJoin, VmExit, Tick, WallStep, HostReboot
  <1>5. CASE UNCHANGED vars  BY <1>5
  <1> QED BY <1>1, <1>2, <1>3, <1>4, <1>5 DEF Next

(* The guardian implements the runtime contract: one launch, one end, and  *)
(* a release that is final.                                                *)
THEOREM GuardianImplementsRuntime == Spec => ImplementsRuntime
  <1>1. Init => Runtime!RuntimeInit
    BY DEF Init, Absent, RuntimeState, Runtime!RuntimeInit
  <1> QED BY <1>1, RuntimeStep, Invariants, PTL
          DEF Spec, ImplementsRuntime, Runtime!RuntimeSpec

(* The durable guest identity: bound once, to one guest.                   *)
GuestSafe == receipt.guest # NoGuest /\ receipt'.guest # NoGuest
                 => receipt'.guest = receipt.guest

(* No step replaces a bound guest boot by another.                         *)
LEMMA GuestStep == IInv /\ ControlKnows /\ [Next]_vars => GuestSafe
  <1> SUFFICES ASSUME IInv, ControlKnows, [Next]_vars PROVE GuestSafe  OBVIOUS
  <1> USE DEF GuestSafe, vars, callVars, diskVars, memVars, hostVars, clockVars
  <1>0. receipt \in Receipts /\ mem \in Receipts  BY DEF IInv, TypeOK
  <1>1. ASSUME NEW c \in Callers, CallStep(c) PROVE GuestSafe
    BY <1>0, <1>1 DEF CallStep, PrepareNew, PrepareDone, PrepareFailed,
       PrepareExisting, PrepareReturns, SpawnInit, InitReaped, Reconcile,
       ReconcileBusy, FenceRecord, FenceAbsent, FenceWrite, CleanKill,
       CleanRemove, CleanStop, CallerFails, Fresh, Receipts
  <1>2. ASSUME NEW c \in Callers, InitStep(c) PROVE GuestSafe
    <2>1. CASE InitReaps(c)
      BY <1>0, <2>1 DEF InitReaps, Receipts, ControlKnows
    <2>2. CASE InitIntent(c) \/ InitConfirm(c)
      BY <1>0, <2>2 DEF InitIntent, InitConfirm, Receipts
    <2>3. CASE receipt' = receipt  BY <2>3
    <2> QED BY <1>2, <2>1, <2>2, <2>3
            DEF InitStep, InitLock, InitRefused, InitArm, InitArmFails,
                InitSpawn, InitUnconfirmed, WatchdogExpire, WatchdogExit, InitDies
  <1>3. ASSUME NEW c \in Callers, ControlStep(c) PROVE GuestSafe
    <2>0. init[c] = "serving" => mem.guest \in {NoGuest, receipt.guest}
      BY DEF ControlKnows
    <2>1. CASE HandleStop(c)
      BY <1>0, <2>0, <2>1 DEF HandleStop, Receipts
    <2>2. ASSUME NEW rev, NEW expires, RenewPersist(c, rev, expires)
          PROVE  GuestSafe
      BY <1>0, <2>0, <2>2 DEF RenewPersist, Renewed, Receipts
    <2>3. CASE RenewCheck(c)  BY <2>3 DEF RenewCheck
    <2>4. CASE RenewExchange(c)  BY <2>4 DEF RenewExchange
    <2>5. ASSUME NEW b, BindHello(c, b) PROVE GuestSafe  BY <2>5 DEF BindHello
    <2>6. ASSUME NEW b, BindCommit(c, b) PROVE GuestSafe
      <3>1. CASE receipt' = receipt  BY <3>1
      <3>2. CASE Bindable(b) /\ mem.guest # b
        <4>1. deadline > 0
          BY <3>2 DEF Bindable, Live, IInv, TypeOK
        <4>2. receipt.guest = NoGuest
          BY <2>6, <3>2, <4>1 DEF ControlKnows, Bindable, BindCommit
        <4> QED BY <4>2
      <3> QED BY <2>6, <3>1, <3>2 DEF BindCommit
    <2> QED BY <1>3, <2>1, <2>2, <2>3, <2>4, <2>5, <2>6 DEF ControlStep
  <1>4. CASE KernelStep
    BY <1>4 DEF KernelStep, JailerJoin, VmExit, Tick, WallStep, HostReboot
  <1>5. CASE UNCHANGED vars  BY <1>5
  <1> QED BY <1>1, <1>2, <1>3, <1>4, <1>5 DEF Next

(* Handshakes in progress with two guests never rebind the allocation      *)
(* (bind_guest rechecks the record after the greeting).                    *)
THEOREM GuestIsBoundOnce == Spec => BoundGuestStable
  <1>1. IInv /\ ControlKnows /\ [Next]_vars
          => [receipt.guest # NoGuest /\ receipt'.guest # NoGuest
                => receipt'.guest = receipt.guest]_vars
    BY GuestStep DEF GuestSafe
  <1> QED BY <1>1, Invariants, PTL DEF Spec, BoundGuestStable

(* The durable receipt is never behind what recovery or a caller relies    *)
(* on: the machine that exists, the answer that was given.                 *)
THEOREM ReceiptAheadAlways == Spec => []ReceiptIsAhead
  <1>1. LiveVmIsProvable /\ DurableBeforeAck => ReceiptIsAhead  BY DEF ReceiptIsAhead
  <1> QED BY <1>1, RecoveryCanProve, AckIsDurable, PTL

(* No interleaving of renewals, stops, expiry and clock steps revives or   *)
(* shortens a lease.                                                       *)
THEOREM DeadlineIsMonotone == Spec => DeadlineNeverRevives
  BY FenceIsIrrevocable, RenewalsOnlyExtend DEF DeadlineNeverRevives
=============================================================================
