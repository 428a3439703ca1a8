-------------------------- MODULE RetirementProofs --------------------------
(***************************************************************************)
(* Proofs about Retirement: for any number of host threads, claims, epochs *)
(* and faults, a completion the database holds is true of the directory,   *)
(* the cgroup and the launch authority, a fenced serial never launches or  *)
(* writes again, and every journal a crash leaves is accepted by the next  *)
(* start.  The last section shows that all of this together implements     *)
(* AllocationRuntime.                                                      *)
(***************************************************************************)
EXTENDS Retirement, TLAPS

(* Records of each variable.                                               *)
Epochs == 1..MaxEpoch
DbRecords == [epoch : Epochs, registered : 0..1, sent : BOOLEAN, released : BOOLEAN,
              rev : 0..MaxClaims, repoch : 0..MaxEpoch, lease : BOOLEAN, done : Requests,
              frev : 0..MaxForgets, fepoch : 0..MaxEpoch, flease : BOOLEAN,
              forgotten : BOOLEAN]
HostRecords == [pc : {"up", "down", "loaded", "advanced"}, epoch : Epochs, saved : Epochs]
CheckRecords == [epoch : Epochs, through : 0..1]
AuthRecords == [epoch : Epochs, through : 0..1,
                state : {"none", "active", "fenced", "complete"}]
RecRecords == [present : BOOLEAN, manifest : BOOLEAN, dispatched : BOOLEAN,
               stopped : BOOLEAN, released : BOOLEAN, ret : Requests,
               plan : {"none", "saved", "removed"}]
WkRecords == [pc : Sharing \union GateHeld \union {"idle", "gate", "reopen", "check"},
              req : Requests, stop : BOOLEAN]
DiskRecords == [dir : BOOLEAN, files : SUBSET Names,
                receipt : {"none", "staging", "prepared", "running", "stopped"}]

Typed ==
    /\ db \in DbRecords /\ host \in HostRecords /\ check \in CheckRecords
    /\ rec \in RecRecords /\ wk \in [Workers -> WkRecords]
    /\ auth \in AuthRecords /\ disk \in DiskRecords
    /\ vm \in {"none", "live", "dead"}
    /\ gd \in {"none", "spawned", "checked", "init", "locked", "running",
               "reconcile", "done"}
    /\ faults \in 0..MaxFaults

(* A claim that is no later than another.                                  *)
Below(p, q) == p.rev <= q.rev /\ p.epoch <= q.epoch

(* The serial can never launch again, and nothing of it is left.           *)
Down == auth.through = 1 /\ auth.state # "active"
Gone == ~disk.dir /\ vm = "none" /\ Down

(* The host has completed the serial: its record is gone.                  *)
Completed == ~rec.present /\ (auth.state = "complete" \/ Closed)

(* Epochs: a start advances the journal, then the authority file, then the *)
(* checkpoint; the database follows the host.                              *)
EpochOK ==
    /\ host.saved = host.epoch
    /\ check.epoch <= auth.epoch /\ auth.epoch <= host.epoch
    /\ check.through <= auth.through
    /\ db.repoch <= db.epoch /\ db.epoch <= host.epoch

(* The database row against the host.                                      *)
DoneOK ==
    /\ Gone
    /\ (rec.present /\ rec.ret = db.done /\ rec.plan = "removed") \/ Completed
DbOK ==
    /\ db.lease => db.done = NoReq
    /\ db.done # NoReq => DoneOK
    /\ Closed \/ auth.state = "complete" => db.done # NoReq
    /\ db.forgotten => Closed

(* The authority file against the guardian.                                *)
AuthOK ==
    /\ auth.through = 0 => auth.state = "none" /\ gd = "none"
    /\ gd = "locked" => auth.state = "active" /\ disk.receipt = "prepared"
    /\ gd # "none" /\ auth.state = "active" => rec.present /\ rec.manifest

(* The journal record by itself, and against the authority file, the       *)
(* directory, the cgroup and the guardian.                                 *)
RecordOK ==
    /\ ~rec.present => rec = NoRecord
    /\ rec.dispatched => rec.manifest
    /\ rec.released => rec.stopped /\ rec.manifest
    /\ rec.ret # NoReq => /\ rec.stopped /\ 1 <= rec.ret.epoch
                          /\ rec.ret.epoch <= auth.epoch
                          /\ Below(rec.ret, RetireClaim)
    /\ rec.plan # "none" => rec.ret # NoReq
PlanOK ==
    /\ rec.present => auth.state # "none"
    /\ rec.present /\ rec.plan = "none" => auth.state # "complete"
    /\ rec.released /\ rec.plan = "none" => disk.receipt = "stopped" /\ "receipt" \in disk.files
    /\ rec.plan = "saved" => /\ auth.state = "fenced" /\ vm = "none"
                             /\ LifecycleFree /\ (disk.dir => rec.manifest)
    /\ rec.plan = "removed" => /\ auth.state \in {"fenced", "complete"}
                               /\ ~disk.dir /\ vm = "none"
    /\ ~disk.dir => disk.files = {}

(* Requests and replies that may still be delivered.                       *)
Issued(q) == q \in Requests /\ 1 <= q.epoch /\ Below(q, RetireClaim)
NetOK ==
    /\ \A m \in net : m.kind = "retire" => m.req \in Requests /\ Below(m.req, RetireClaim)
    /\ \A m \in net : m.kind = "forget" => m.meta = db.done /\ db.done # NoReq
AnswerOK(q) ==
    /\ q \in Requests /\ Gone
    /\ (rec.present /\ Below(q, rec.ret) /\ rec.plan = "removed") \/ Completed
AnswersOK ==
    /\ \A m \in answers : m.kind = "removed" => AnswerOK(m.req)
    /\ \A m \in answers : m.kind = "forgotten" => Closed

(* What a suspended request thread relies on.                              *)
WkOK(x) ==
    /\ x.pc \in Sharing => auth.state = "active"
    /\ x.pc = "create" => rec.present
    /\ x.pc \in {"prepare", "dispatch"} =>
          rec.present /\ rec.manifest /\ ~rec.released /\ gd = "none"
    /\ x.pc \in {"fence", "reopen", "delete"} => Issued(x.req)
    /\ x.pc = "delete" => /\ auth.state = "fenced" /\ vm = "none" /\ LifecycleFree
                          /\ rec.present /\ rec.plan # "none" /\ rec.ret = x.req
GateOK == \A v, w \in Workers : wk[v].pc \in GateHeld /\ wk[w].pc \in GateHeld => v = w
Threads == (\A w \in Workers : WkOK(wk[w])) /\ GateOK

Shared == EpochOK /\ DbOK /\ AuthOK /\ RecordOK /\ PlanOK
Messages == NetOK /\ AnswersOK
RetInv == Typed /\ Shared /\ Messages /\ Threads
-----------------------------------------------------------------------------
(* Frames.                                                                 *)

(* A step of thread w that leaves it at pc with request q.                 *)
Moves(w, pc, q) ==
    /\ wk' \in [Workers -> WkRecords]
    /\ wk'[w].pc = pc /\ wk'[w].req = q
    /\ \A v \in Workers : v # w => wk'[v] = wk[v]

Pcs == Sharing \union GateHeld \union {"idle", "gate", "reopen", "check"}

(* Requests that are none.                                                 *)
LEMMA NoReqFacts ==
    /\ NoReq \in Requests /\ NoReq.rev = 0 /\ NoReq.epoch = 0
    /\ Idle \in WkRecords /\ Idle.pc = "idle" /\ Idle.req = NoReq
    /\ NoRecord \in RecRecords /\ NewRecord \in RecRecords
    /\ ~NoRecord.present /\ NoRecord.ret = NoReq /\ NoRecord.plan = "none"
    /\ ~NoRecord.manifest /\ ~NoRecord.dispatched /\ ~NoRecord.stopped /\ ~NoRecord.released
    /\ NewRecord.present /\ NewRecord.ret = NoReq /\ NewRecord.plan = "none"
    /\ ~NewRecord.manifest /\ ~NewRecord.dispatched /\ ~NewRecord.stopped
    /\ ~NewRecord.released
  <1>1. NoReq \in Requests /\ NoReq.rev = 0 /\ NoReq.epoch = 0
    BY RetirementAssumption DEF NoReq, Requests
  <1>2. Idle \in WkRecords /\ Idle.pc = "idle" /\ Idle.req = NoReq
    BY <1>1 DEF Idle, WkRecords
  <1>3. /\ NoRecord \in RecRecords
        /\ ~NoRecord.present /\ NoRecord.ret = NoReq /\ NoRecord.plan = "none"
        /\ ~NoRecord.manifest /\ ~NoRecord.dispatched /\ ~NoRecord.stopped
        /\ ~NoRecord.released
    BY <1>1 DEF NoRecord, RecRecords
  <1>4. PICK n : n = NoRecord  OBVIOUS
  <1>5. /\ NewRecord \in RecRecords
        /\ NewRecord.present /\ NewRecord.ret = NoReq /\ NewRecord.plan = "none"
        /\ ~NewRecord.manifest /\ ~NewRecord.dispatched /\ ~NewRecord.stopped
        /\ ~NewRecord.released
    BY <1>3, <1>4 DEF NewRecord, RecRecords
  <1> QED BY <1>1, <1>2, <1>3, <1>5

(* Step(w, pc) keeps the thread's request.                                 *)
LEMMA StepMoves ==
    ASSUME NEW w \in Workers, NEW pc \in Pcs, wk \in [Workers -> WkRecords], Step(w, pc)
    PROVE  Moves(w, pc, wk[w].req)
  <1>1. wk' = [wk EXCEPT ![w] = [wk[w] EXCEPT !.pc = pc]]  BY DEF Step
  <1>2. PICK y : y = [wk[w] EXCEPT !.pc = pc]  OBVIOUS
  <1>3. y \in WkRecords /\ y.pc = pc /\ y.req = wk[w].req
    BY <1>2 DEF WkRecords, Pcs
  <1>4. wk' = [wk EXCEPT ![w] = y]  BY <1>1, <1>2
  <1> QED BY <1>3, <1>4 DEF Moves

(* Finish(w) leaves the thread idle.                                       *)
LEMMA FinishMoves ==
    ASSUME NEW w \in Workers, wk \in [Workers -> WkRecords], Finish(w)
    PROVE  Moves(w, "idle", NoReq)
  BY NoReqFacts DEF Finish, Moves

SameRecord ==
    /\ rec'.present = rec.present /\ rec'.manifest = rec.manifest
    /\ rec'.released = rec.released /\ rec'.ret = rec.ret /\ rec'.plan = rec.plan

(* The facts a thread at x relies on are left alone.                       *)
Undisturbed(x) ==
    /\ x.pc \in Sharing \union {"delete"} => auth'.state = auth.state
    /\ x.pc = "create" /\ rec.present => rec'.present
    /\ x.pc \in GateHeld /\ rec.present => SameRecord
    /\ x.pc \in {"prepare", "dispatch"} => gd' = gd
    /\ x.pc = "delete" => /\ vm = "none" => vm' = "none"
                          /\ LifecycleFree => LifecycleFree'
    /\ Below(RetireClaim, RetireClaim')

(* Claims are ordered.                                                     *)
LEMMA BelowTransitive ==
    ASSUME NEW p, NEW q, NEW r, Below(p, q), Below(q, r),
           p.rev \in Nat, p.epoch \in Nat, q.rev \in Nat, q.epoch \in Nat,
           r.rev \in Nat, r.epoch \in Nat
    PROVE  Below(p, r)
  BY DEF Below

(* The claim of the row, and requests, are pairs of numbers.               *)
LEMMA ClaimFacts ==
    ASSUME db \in DbRecords
    PROVE  /\ RetireClaim \in Requests
           /\ RetireClaim.rev = db.rev /\ RetireClaim.epoch = db.repoch
           /\ db.rev \in Nat /\ db.repoch \in Nat
           /\ \A q \in Requests : q.rev \in Nat /\ q.epoch \in Nat
           /\ Below(RetireClaim, RetireClaim)
  BY RetirementAssumption DEF RetireClaim, Requests, DbRecords, Below

(* What was issued stays issued.                                           *)
LEMMA IssuedStays ==
    ASSUME db \in DbRecords, db' \in DbRecords, Below(RetireClaim, RetireClaim'),
           NEW q, Issued(q)
    PROVE  Issued(q)'
  <1>1. q \in Requests /\ 1 <= q.epoch /\ Below(q, RetireClaim)  BY DEF Issued
  <1>2. RetireClaim' \in Requests
    BY RetirementAssumption DEF RetireClaim, Requests, DbRecords
  <1>3. PICK c : c = RetireClaim  OBVIOUS
  <1>4. PICK d : d = RetireClaim'  OBVIOUS
  <1>5. c.rev \in Nat /\ c.epoch \in Nat /\ d.rev \in Nat /\ d.epoch \in Nat
        /\ q.rev \in Nat /\ q.epoch \in Nat
    BY <1>1, <1>2, <1>3, <1>4, ClaimFacts
  <1>6. Below(q, d)  BY <1>1, <1>3, <1>4, <1>5, BelowTransitive
  <1> QED BY <1>1, <1>4, <1>6 DEF Issued

(* A thread that a step does not disturb.                                  *)
LEMMA WkStable ==
    ASSUME NEW x, db \in DbRecords, db' \in DbRecords, WkOK(x), Undisturbed(x)
    PROVE  WkOK(x)'
  <1>1. Issued(x.req) => Issued(x.req)'  BY IssuedStays DEF Undisturbed
  <1>2. (x.pc \in Sharing => auth.state = "active")'  BY DEF WkOK, Undisturbed
  <1>3. (x.pc = "create" => rec.present)'  BY DEF WkOK, Undisturbed
  <1>4. (x.pc \in {"prepare", "dispatch"} =>
            rec.present /\ rec.manifest /\ ~rec.released /\ gd = "none")'
    BY DEF WkOK, Undisturbed, GateHeld, SameRecord
  <1>5. (x.pc \in {"fence", "reopen", "delete"} => Issued(x.req))'
    BY <1>1 DEF WkOK
  <1>6. ASSUME x.pc = "delete"
        PROVE  (/\ auth.state = "fenced" /\ vm = "none" /\ LifecycleFree
                /\ rec.present /\ rec.plan # "none" /\ rec.ret = x.req)'
    <2>1. auth.state = "fenced" /\ vm = "none" /\ LifecycleFree
          /\ rec.present /\ rec.plan # "none" /\ rec.ret = x.req
      BY <1>6 DEF WkOK
    <2>2. SameRecord /\ auth'.state = auth.state /\ vm' = "none" /\ LifecycleFree'
      BY <1>6, <2>1 DEF Undisturbed, GateHeld
    <2> QED BY <2>1, <2>2 DEF SameRecord
  <1> QED BY <1>2, <1>3, <1>4, <1>5, <1>6 DEF WkOK

(* A step of one thread keeps the threads' part.                           *)
LEMMA ThreadMoves ==
    ASSUME RetInv, db' \in DbRecords, NEW w \in Workers, NEW pc, NEW q, Moves(w, pc, q),
           WkOK(wk[w])',
           \A v \in Workers : v # w => Undisturbed(wk[v]),
           pc \in GateHeld => wk[w].pc \in GateHeld \/ GateFree
    PROVE  Threads'
  <1>1. ASSUME NEW v \in Workers PROVE WkOK(wk[v])'
    <2>1. CASE v = w  BY <2>1
    <2>2. CASE v # w
      <3>1. PICK x : x = wk[v]  OBVIOUS
      <3>2. WkOK(x) /\ Undisturbed(x) /\ db \in DbRecords
        BY <2>2, <3>1 DEF RetInv, Threads, Typed
      <3>3. WkOK(x)'  BY <3>2, WkStable
      <3>4. wk'[v] = x  BY <2>2, <3>1 DEF Moves
      <3> QED BY <3>3, <3>4 DEF WkOK
    <2> QED BY <2>1, <2>2
  <1>2. GateOK'
    <2>1. SUFFICES ASSUME NEW u \in Workers, NEW v \in Workers, u # v,
                          wk'[u].pc \in GateHeld, wk'[v].pc \in GateHeld
                   PROVE  FALSE
      BY DEF GateOK
    <2>2. GateOK  BY DEF RetInv, Threads
    <2>3. CASE u = w  BY <2>1, <2>2, <2>3 DEF Moves, GateOK, GateFree
    <2>4. CASE v = w  BY <2>1, <2>2, <2>4 DEF Moves, GateOK, GateFree
    <2>5. CASE u # w /\ v # w  BY <2>1, <2>2, <2>5 DEF Moves, GateOK
    <2> QED BY <2>3, <2>4, <2>5
  <1> QED BY <1>1, <1>2 DEF Threads

(* A step that moves no thread.                                            *)
LEMMA ThreadsStay ==
    ASSUME RetInv, db' \in DbRecords, UNCHANGED wk,
           \A v \in Workers : Undisturbed(wk[v])
    PROVE  Threads'
  <1>1. ASSUME NEW v \in Workers PROVE WkOK(wk[v])'
    <2>1. PICK x : x = wk[v]  OBVIOUS
    <2>2. WkOK(x) /\ Undisturbed(x) /\ db \in DbRecords
      BY <2>1 DEF RetInv, Threads, Typed
    <2>3. WkOK(x)'  BY <2>2, WkStable
    <2> QED BY <2>1, <2>3 DEF WkOK
  <1>2. GateOK'  BY DEF RetInv, Threads, GateOK
  <1> QED BY <1>1, <1>2 DEF Threads

(* The holder of the gate disturbs nobody by what it does to the record.   *)
LEMMA Alone ==
    ASSUME RetInv, UNCHANGED db, NEW w \in Workers, wk[w].pc \in GateHeld \/ GateFree,
           rec.present => rec'.present, auth'.state = auth.state
    PROVE  \A v \in Workers : v # w => Undisturbed(wk[v])
  <1>1. SUFFICES ASSUME NEW v \in Workers, v # w PROVE Undisturbed(wk[v])
    OBVIOUS
  <1>2. wk[v].pc \notin GateHeld  BY <1>1 DEF RetInv, Threads, GateOK, GateFree
  <1>3. Below(RetireClaim, RetireClaim')
    <2>1. RetireClaim' = RetireClaim  BY DEF RetireClaim
    <2> QED BY <2>1, ClaimFacts DEF RetInv, Typed
  <1> QED BY <1>2, <1>3 DEF Undisturbed, GateHeld

(* A step that may run beside the holder of the gate.                      *)
LEMMA Beside ==
    ASSUME RetInv, UNCHANGED <<db, vm, gd>>, NEW w, rec.present => rec' = rec,
           \/ auth'.state = auth.state
           \/ \A v \in Workers : wk[v].pc \notin Sharing \union {"delete"}
    PROVE  \A v \in Workers : v # w => Undisturbed(wk[v])
  <1>1. SUFFICES ASSUME NEW v \in Workers, v # w PROVE Undisturbed(wk[v])
    OBVIOUS
  <1>3. Below(RetireClaim, RetireClaim')
    <2>1. RetireClaim' = RetireClaim  BY DEF RetireClaim
    <2> QED BY <2>1, ClaimFacts DEF RetInv, Typed
  <1>4. LifecycleFree' = LifecycleFree  BY DEF LifecycleFree
  <1>5. wk[v].pc \in Sharing \union {"delete"} => auth'.state = auth.state
    OBVIOUS
  <1>6. rec.present => SameRecord  BY DEF SameRecord
  <1> QED BY <1>3, <1>4, <1>5, <1>6 DEF Undisturbed, SameRecord

(* What the database and replies rely on survives a step.                  *)
Lasts ==
    /\ Gone => Gone'
    /\ rec.present /\ rec.plan = "removed" =>
          \/ /\ rec'.present /\ rec'.plan = "removed" /\ Below(rec.ret, rec'.ret)
             /\ db.done # NoReq => rec'.ret = rec.ret
          \/ Completed'
    /\ Completed => Completed'
    /\ Closed => Closed'
    /\ (Closed \/ auth.state = "complete")' =>
          Closed \/ auth.state = "complete" \/ db.done # NoReq

ReplyOK(m) ==
    /\ m.kind = "removed" => AnswerOK(m.req)
    /\ m.kind = "forgotten" => Closed

(* A step of the host keeps the database's and the messages' part.         *)
LEMMA HostKeeps ==
    ASSUME RetInv, UNCHANGED db, rec' \in RecRecords, Lasts,
           \A m \in net' : m \in net,
           \A m \in answers' : m \in answers \/ ReplyOK(m)'
    PROVE  DbOK' /\ Messages'
  <1>1. DbOK /\ NetOK /\ AnswersOK  BY DEF RetInv, Shared, Messages
  <1>2. ASSUME DoneOK, db.done # NoReq PROVE DoneOK'
    BY <1>2 DEF DoneOK, Lasts
  <1>3. DbOK'  BY <1>1, <1>2 DEF DbOK, Lasts
  <1>4. NetOK'
    <2>1. RetireClaim' = RetireClaim  BY DEF RetireClaim
    <2> QED BY <1>1, <2>1 DEF NetOK
  <1>5. ASSUME NEW q, AnswerOK(q) PROVE AnswerOK(q)'
    <2>1. q \in Requests /\ Gone /\ Gone'  BY <1>5 DEF AnswerOK, Lasts
    <2>2. CASE Completed  BY <2>1, <2>2 DEF AnswerOK, Lasts
    <2>3. CASE rec.present /\ Below(q, rec.ret) /\ rec.plan = "removed"
      <3>1. CASE Completed'  BY <2>1, <3>1 DEF AnswerOK
      <3>2. CASE rec'.present /\ rec'.plan = "removed" /\ Below(rec.ret, rec'.ret)
        <4>1. Below(q, rec'.ret)
          <5>1. \A p \in Requests : p.rev \in Nat /\ p.epoch \in Nat
            BY RetirementAssumption DEF Requests
          <5>2. q \in Requests /\ rec.ret \in Requests /\ rec'.ret \in Requests
            BY <1>5 DEF AnswerOK, RetInv, Typed, RecRecords
          <5>3. PICK a : a = rec.ret  OBVIOUS
          <5>4. PICK b : b = rec'.ret  OBVIOUS
          <5>5. Below(q, a) /\ Below(a, b)  BY <2>3, <3>2, <5>3, <5>4
          <5>6. Below(q, b)  BY <5>1, <5>2, <5>3, <5>4, <5>5, BelowTransitive
          <5> QED BY <5>4, <5>6
        <4> QED BY <2>1, <3>2, <4>1 DEF AnswerOK
      <3> QED BY <2>3, <3>1, <3>2 DEF Lasts
    <2> QED BY <1>5, <2>2, <2>3 DEF AnswerOK
  <1>6. AnswersOK'
    <2>1. ASSUME NEW m \in answers' PROVE ReplyOK(m)'
      BY <1>1, <1>5 DEF AnswersOK, ReplyOK, Lasts
    <2> QED BY <2>1 DEF AnswersOK, ReplyOK
  <1> QED BY <1>3, <1>4, <1>6 DEF Messages

(* The parts together, for a step of the host.                             *)
LEMMA HostFramed ==
    ASSUME RetInv, UNCHANGED db, Typed', EpochOK', AuthOK', RecordOK', PlanOK', Lasts,
           \A m \in net' : m \in net,
           \A m \in answers' : m \in answers \/ ReplyOK(m)',
           Threads'
    PROVE  RetInv'
  <1>1. rec' \in RecRecords  BY DEF Typed
  <1>2. DbOK' /\ Messages'  BY <1>1, HostKeeps
  <1> QED BY <1>2 DEF RetInv, Shared

(* A change of the record that keeps its retirement as it is.              *)
Annotates ==
    /\ rec' \in RecRecords /\ rec'.present
    /\ rec.present \/ auth.state = "active"
    /\ rec'.plan = rec.plan /\ rec'.ret = rec.ret /\ rec'.released = rec.released
    /\ rec.manifest => rec'.manifest
    /\ rec.stopped => rec'.stopped
    /\ rec'.dispatched => rec'.manifest

(* Steps that write the record's admission, dispatch or stop.              *)
LEMMA RecordStep ==
    ASSUME RetInv, UNCHANGED <<db, answers, host, check, auth, disk, vm, gd, faults>>,
           rec' = rec \/ Annotates, \A m \in net' : m \in net,
           wk' \in [Workers -> WkRecords], Threads'
    PROVE  RetInv'
  <1>1. Typed /\ EpochOK /\ DbOK /\ AuthOK /\ RecordOK /\ PlanOK  BY DEF RetInv, Shared
  <1>2. Typed'  BY <1>1 DEF Typed, Annotates
  <1>3. EpochOK'  BY <1>1 DEF EpochOK
  <1>4. (Closed' <=> Closed) /\ (Gone' <=> Gone) /\ RetireClaim' = RetireClaim
        /\ (LifecycleFree' <=> LifecycleFree)
    BY DEF Closed, Gone, Down, RetireClaim, LifecycleFree
  <1>5. rec.ret \in Requests /\ Below(rec.ret, rec.ret)
    BY <1>1, RetirementAssumption DEF Typed, RecRecords, Below, Requests
  <1>6. CASE rec' = rec
    <2>1. AuthOK' /\ RecordOK' /\ PlanOK'
      BY <1>1, <1>4, <1>6 DEF AuthOK, RecordOK, PlanOK
    <2>2. Lasts  BY <1>4, <1>5, <1>6 DEF Lasts, Completed
    <2> QED BY <1>2, <1>3, <2>1, <2>2, HostFramed
  <1>7. CASE Annotates
    <2>1. AuthOK'  BY <1>1, <1>7 DEF AuthOK, Annotates
    <2>2. RecordOK'  BY <1>1, <1>4, <1>7 DEF RecordOK, Annotates
    <2>3. PlanOK'  BY <1>1, <1>4, <1>7 DEF PlanOK, RecordOK, Annotates
    <2>4. Completed => auth.state # "active"
      BY DEF Completed, Closed
    <2>5. Lasts  BY <1>4, <1>5, <1>7, <2>4 DEF Lasts, Annotates, Completed
    <2> QED BY <1>2, <1>3, <2>1, <2>2, <2>3, <2>5, HostFramed
  <1> QED BY <1>6, <1>7

-----------------------------------------------------------------------------
(* Requests at the host.                                                   *)

(* Opening a record where there is none.                                   *)
LEMMA OpensRecord ==
    ASSUME RetInv, rec' = IF rec.present THEN rec ELSE NewRecord,
           rec.present \/ auth.state = "active"
    PROVE  /\ rec' = rec \/ Annotates
           /\ rec.present => rec' = rec
           /\ rec'.present
  <1>1. ~rec.present => rec = NoRecord  BY DEF RetInv, Shared, RecordOK
  <1>2. CASE rec.present  BY <1>2
  <1>3. CASE ~rec.present
    <2>1. rec' = NewRecord /\ rec = NoRecord  BY <1>1, <1>3
    <2>2. rec' \in RecRecords /\ rec'.present  BY <2>1, NoReqFacts
    <2>3. rec'.plan = rec.plan /\ rec'.ret = rec.ret /\ rec'.released = rec.released
      BY <2>1 DEF NewRecord, NoRecord
    <2>4. ~rec.manifest /\ ~rec.stopped /\ ~rec'.dispatched  BY <2>1, NoReqFacts
    <2>5. Annotates  BY <1>3, <2>2, <2>3, <2>4 DEF Annotates
    <2> QED BY <1>3, <2>2, <2>5
  <1> QED BY <1>2, <1>3

(* A create takes up its request: a missing record is opened under an      *)
(* active permit.                                                          *)
LEMMA CreateBeginStep ==
    ASSUME RetInv, NEW w \in Workers, CreateBegin(w)
    PROVE  RetInv'
  <1>1. /\ wk[w].pc = "idle" /\ auth.state = "active" /\ net' = net \ {Msg("create")}
        /\ rec' = IF rec.present THEN rec ELSE NewRecord
        /\ Step(w, "create")
        /\ UNCHANGED <<db, answers, host, check, auth, disk, vm, gd, faults>>
    BY DEF CreateBegin, Authorized
  <1>2. (rec' = rec \/ Annotates) /\ (rec.present => rec' = rec) /\ rec'.present
    BY <1>1, OpensRecord
  <1>3. Moves(w, "create", wk[w].req)
    BY <1>1, StepMoves DEF RetInv, Typed, Pcs, Sharing
  <1>4. \A v \in Workers : v # w => Undisturbed(wk[v])  BY <1>1, <1>2, Beside
  <1>5. WkOK(wk[w])'  BY <1>1, <1>2, <1>3 DEF WkOK, Moves
  <1>6. "create" \notin GateHeld  BY DEF GateHeld
  <1>7. db' \in DbRecords  BY <1>1 DEF RetInv, Typed
  <1>8. Threads'  BY <1>3, <1>4, <1>5, <1>6, <1>7, ThreadMoves
  <1> QED BY <1>1, <1>2, <1>3, <1>8, RecordStep DEF Moves

(* A stop or an inspection takes up its request.                           *)
LEMMA StopBeginStep ==
    ASSUME RetInv, NEW w \in Workers, StopBegin(w)
    PROVE  RetInv'
  <1>1. /\ wk[w].pc = "idle" /\ net' = net \ {Msg("stop")}
        /\ rec.present \/ auth.state = "active"
        /\ rec' = IF rec.present THEN rec ELSE NewRecord
        /\ UNCHANGED <<db, answers, host, check, auth, disk, vm, gd, faults>>
    BY DEF StopBegin, GateAdmits, Authorized
  <1>2. (rec' = rec \/ Annotates) /\ (rec.present => rec' = rec) /\ rec'.present
    BY <1>1, OpensRecord
  <1>3. Moves(w, "gate", NoReq)
    <2>1. PICK s \in BOOLEAN : wk' = [wk EXCEPT ![w] = [Idle EXCEPT !.pc = "gate",
                                                                !.stop = s]]
      BY DEF StopBegin
    <2>2. PICK y : y = [Idle EXCEPT !.pc = "gate", !.stop = s]  OBVIOUS
    <2>3. y \in WkRecords /\ y.pc = "gate" /\ y.req = NoReq
      BY <2>2, NoReqFacts DEF WkRecords, Idle
    <2>4. wk' = [wk EXCEPT ![w] = y]  BY <2>1, <2>2
    <2> QED BY <2>3, <2>4 DEF Moves, RetInv, Typed
  <1>4. \A v \in Workers : v # w => Undisturbed(wk[v])  BY <1>1, <1>2, Beside
  <1>5. WkOK(wk[w])'  BY <1>1, <1>2, <1>3 DEF WkOK, Moves, Sharing
  <1>6. "gate" \notin GateHeld  BY DEF GateHeld
  <1>7. db' \in DbRecords  BY <1>1 DEF RetInv, Typed
  <1>8. Threads'  BY <1>3, <1>4, <1>5, <1>6, <1>7, ThreadMoves
  <1> QED BY <1>1, <1>2, <1>3, <1>8, RecordStep DEF Moves

(* A step of the gate's holder, or under a free gate, that writes the      *)
(* record.                                                                 *)
LEMMA GatedRecord ==
    ASSUME RetInv, NEW w \in Workers, NEW pc, NEW q, Moves(w, pc, q),
           UNCHANGED <<db, net, answers, host, check, auth, disk, vm, gd, faults>>,
           rec' = rec \/ (rec.present /\ Annotates), WkOK(wk[w])',
           wk[w].pc \in GateHeld \/ GateFree
    PROVE  RetInv'
  <1>1. rec.present => rec'.present  BY DEF Annotates
  <1>2. \A v \in Workers : v # w => Undisturbed(wk[v])  BY <1>1, Alone
  <1>3. db' \in DbRecords  BY DEF RetInv, Typed
  <1>4. Threads'  BY <1>2, <1>3, ThreadMoves
  <1> QED BY <1>4, RecordStep DEF Moves

(* Admission under the gate: no guardian was started for a record without  *)
(* a manifest.                                                             *)
LEMMA CreateAdmitStep ==
    ASSUME RetInv, NEW w \in Workers, CreateAdmit(w)
    PROVE  RetInv'
  <1>1. /\ wk[w].pc = "create" /\ GateFree
        /\ UNCHANGED <<db, net, answers, host, check, auth, disk, vm, gd, faults>>
    BY DEF CreateAdmit
  <1>2. WkOK(wk[w]) /\ wk \in [Workers -> WkRecords] /\ rec \in RecRecords
        /\ AuthOK /\ RecordOK
    BY DEF RetInv, Threads, Typed, Shared
  <1>3. rec.present /\ auth.state = "active"  BY <1>1, <1>2 DEF WkOK, Sharing
  <1>4. CASE ~rec.manifest /\ ~rec.stopped /\ rec' = [rec EXCEPT !.manifest = TRUE]
             /\ Step(w, "prepare")
    <2>1. Moves(w, "prepare", wk[w].req)
      BY <1>2, <1>4, StepMoves DEF Pcs, Sharing
    <2>2. Annotates /\ rec'.manifest /\ rec'.released = rec.released
      BY <1>2, <1>3, <1>4 DEF Annotates, RecRecords
    <2>3. ~rec.released /\ gd = "none"  BY <1>2, <1>3, <1>4 DEF RecordOK, AuthOK
    <2>4. WkOK(wk[w])'  BY <1>1, <1>3, <2>1, <2>2, <2>3 DEF WkOK, Moves, Annotates
    <2> QED BY <1>1, <1>3, <2>1, <2>2, <2>4, GatedRecord
  <1>5. CASE Finish(w) /\ UNCHANGED rec
    <2>1. Moves(w, "idle", NoReq)  BY <1>2, <1>5, FinishMoves
    <2>2. WkOK(wk[w])'  BY <2>1 DEF WkOK, Moves, Sharing
    <2> QED BY <1>1, <1>5, <2>1, <2>2, GatedRecord
  <1>6. CASE Step(w, "cleanup") /\ UNCHANGED rec
    <2>1. Moves(w, "cleanup", wk[w].req)
      BY <1>2, <1>6, StepMoves DEF Pcs, GateHeld
    <2>2. WkOK(wk[w])'  BY <2>1 DEF WkOK, Moves, Sharing
    <2> QED BY <1>1, <1>6, <2>1, <2>2, GatedRecord
  <1> QED BY <1>4, <1>5, <1>6 DEF CreateAdmit

(* A create that fails stops the record, which it still holds the gate of. *)
LEMMA CreateFailsStep ==
    ASSUME RetInv, NEW w \in Workers, CreateFails(w)
    PROVE  RetInv'
  <1>1. /\ wk[w].pc \in {"prepare", "dispatch"} /\ rec' = [rec EXCEPT !.stopped = TRUE]
        /\ Step(w, "cleanup")
        /\ UNCHANGED <<db, net, answers, host, check, auth, disk, vm, gd, faults>>
    BY DEF CreateFails
  <1>2. WkOK(wk[w]) /\ wk \in [Workers -> WkRecords] /\ rec \in RecRecords /\ RecordOK
    BY DEF RetInv, Threads, Typed, Shared
  <1>3. Moves(w, "cleanup", wk[w].req)  BY <1>1, <1>2, StepMoves DEF Pcs, GateHeld
  <1>4. rec.present /\ Annotates  BY <1>1, <1>2 DEF WkOK, Annotates, RecRecords, RecordOK
  <1>5. WkOK(wk[w])'  BY <1>3 DEF WkOK, Moves, Sharing
  <1>6. wk[w].pc \in GateHeld  BY <1>1 DEF GateHeld
  <1> QED BY <1>1, <1>3, <1>4, <1>5, <1>6, GatedRecord

(* A create returns.                                                       *)
LEMMA CreateReturnStep ==
    ASSUME RetInv, NEW w \in Workers, CreateReturn(w)
    PROVE  RetInv'
  <1>1. /\ wk[w].pc = "poll" /\ Finish(w)
        /\ UNCHANGED <<db, net, answers, host, check, rec, auth, disk, vm, gd, faults>>
    BY DEF CreateReturn
  <1>2. Moves(w, "idle", NoReq)  BY <1>1, FinishMoves DEF RetInv, Typed
  <1>3. WkOK(wk[w])'  BY <1>2 DEF WkOK, Moves, Sharing
  <1>4. wk[w].pc \in GateHeld  BY <1>1 DEF GateHeld
  <1> QED BY <1>1, <1>2, <1>3, <1>4, GatedRecord

(* A stop under the gate: a retiring record is left alone.                 *)
LEMMA StopLockedStep ==
    ASSUME RetInv, NEW w \in Workers, StopLocked(w)
    PROVE  RetInv'
  <1>1. /\ wk[w].pc = "gate" /\ GateFree
        /\ UNCHANGED <<db, net, answers, host, check, auth, disk, vm, gd, faults>>
    BY DEF StopLocked
  <1>2. wk \in [Workers -> WkRecords] /\ rec \in RecRecords /\ RecordOK
        /\ wk[w].stop \in BOOLEAN
    BY DEF RetInv, Typed, Shared, WkRecords
  <1>3. CASE rec.present /\ rec.ret = NoReq
    <2>1. rec' = [rec EXCEPT !.stopped = @ \/ wk[w].stop] /\ Step(w, "cleanup")
      BY <1>3 DEF StopLocked
    <2>2. Moves(w, "cleanup", wk[w].req)  BY <1>2, <2>1, StepMoves DEF Pcs, GateHeld
    <2>3. PICK b \in BOOLEAN : b = (rec.stopped \/ wk[w].stop)
      BY <1>2 DEF RecRecords
    <2>4. rec' = [rec EXCEPT !.stopped = b]  BY <2>1, <2>3
    <2>5. rec.stopped => b  BY <2>3
    <2>6. Annotates  BY <1>2, <1>3, <2>4, <2>5 DEF Annotates, RecRecords, RecordOK
    <2>7. WkOK(wk[w])'  BY <2>2 DEF WkOK, Moves, Sharing
    <2> QED BY <1>1, <1>3, <2>2, <2>6, <2>7, GatedRecord
  <1>4. CASE ~(rec.present /\ rec.ret = NoReq)
    <2>1. Finish(w) /\ UNCHANGED rec  BY <1>4 DEF StopLocked
    <2>2. Moves(w, "idle", NoReq)  BY <1>2, <2>1, FinishMoves
    <2>3. WkOK(wk[w])'  BY <2>2 DEF WkOK, Moves, Sharing
    <2> QED BY <1>1, <2>1, <2>2, <2>3, GatedRecord
  <1> QED BY <1>3, <1>4

(* A step that leaves the authority file and the retirement alone.         *)
LEMMA SameLasts ==
    ASSUME Typed, Gone => Gone', auth' = auth, rec'.present = rec.present,
           rec'.plan = rec.plan, rec'.ret = rec.ret
    PROVE  Lasts
  <1>1. Below(rec.ret, rec.ret)
    BY RetirementAssumption DEF Typed, RecRecords, Below, Requests
  <1>2. (Closed' <=> Closed) /\ (Completed' <=> Completed)  BY DEF Closed, Completed
  <1> QED BY <1>1, <1>2 DEF Lasts

(* An active serial is neither gone, completed nor closed.                 *)
LEMMA ActiveFacts ==
    ASSUME RetInv, auth.state = "active"
    PROVE  /\ ~Gone /\ ~Completed /\ ~Closed /\ auth.through = 1
           /\ rec.plan = "none"
  <1>1. auth \in AuthRecords /\ rec \in RecRecords /\ AuthOK /\ PlanOK
    BY DEF RetInv, Typed, Shared
  <1>2. auth.through # 0 /\ auth.through \in 0..1  BY <1>1 DEF AuthOK, AuthRecords
  <1>3. auth.through = 1  BY <1>2
  <1>4. rec.plan = "none"  BY <1>1 DEF PlanOK, RecRecords
  <1> QED BY <1>3, <1>4 DEF Gone, Down, Completed, Closed

(* Staging of the directory: its thread shares the authority lock, so the  *)
(* serial is active and nothing is reported removed.                       *)
LEMMA CreatePrepareStep ==
    ASSUME RetInv, NEW w \in Workers, CreatePrepare(w)
    PROVE  RetInv'
  <1>1. /\ wk[w].pc = "prepare" /\ disk' = PrepareStep(disk)
        /\ UNCHANGED <<db, net, answers, host, check, rec, auth, vm, gd, faults>>
    BY DEF CreatePrepare
  <1>2. PICK pc \in {"prepare", "dispatch"} : Step(w, pc)  BY DEF CreatePrepare
  <1>3. Typed /\ EpochOK /\ AuthOK /\ RecordOK /\ PlanOK /\ WkOK(wk[w])
    BY DEF RetInv, Shared, Threads
  <1>4. auth.state = "active" /\ rec.present /\ rec.manifest /\ ~rec.released /\ gd = "none"
    BY <1>1, <1>3 DEF WkOK, Sharing
  <1>5. Moves(w, pc, wk[w].req)  BY <1>2, <1>3, StepMoves DEF Typed, Pcs, Sharing
  <1>6. disk' \in DiskRecords /\ disk'.dir
    BY <1>1, <1>3 DEF PrepareStep, Typed, DiskRecords, Names
  <1>7. Typed'  BY <1>1, <1>3, <1>5, <1>6 DEF Typed, Moves
  <1>8. EpochOK' /\ AuthOK'  BY <1>1, <1>3, <1>4 DEF EpochOK, AuthOK
  <1>9. RecordOK'
    <2>1. RetireClaim' = RetireClaim  BY <1>1 DEF RetireClaim
    <2> QED BY <1>1, <1>3, <2>1 DEF RecordOK
  <1>10. PlanOK'  BY <1>1, <1>3, <1>4, <1>6, ActiveFacts DEF PlanOK
  <1>11. Lasts  BY <1>1, <1>3, <1>4, ActiveFacts, SameLasts
  <1>12. WkOK(wk[w])'  BY <1>1, <1>4, <1>5 DEF WkOK, Moves
  <1>13. wk[w].pc \in GateHeld  BY <1>1 DEF GateHeld
  <1>14. \A v \in Workers : v # w => Undisturbed(wk[v])  BY <1>1, <1>13, Alone
  <1>15. db' \in DbRecords  BY <1>7 DEF Typed
  <1>16. Threads'  BY <1>5, <1>12, <1>13, <1>14, <1>15, ThreadMoves
  <1> QED BY <1>1, <1>7, <1>8, <1>9, <1>10, <1>11, <1>16, HostFramed

(* The dispatch, then the spawn: no other thread can be at one of them.    *)
LEMMA CreateDispatchStep ==
    ASSUME RetInv, NEW w \in Workers, CreateDispatch(w)
    PROVE  RetInv'
  <1>1. /\ wk[w].pc = "dispatch"
        /\ UNCHANGED <<db, net, answers, host, check, auth, disk, vm, faults>>
    BY DEF CreateDispatch
  <1>2. Typed /\ EpochOK /\ AuthOK /\ RecordOK /\ PlanOK /\ WkOK(wk[w])
    BY DEF RetInv, Shared, Threads
  <1>3. auth.state = "active" /\ rec.present /\ rec.manifest /\ ~rec.released /\ gd = "none"
    BY <1>1, <1>2 DEF WkOK, Sharing
  <1>4. wk[w].pc \in GateHeld /\ wk \in [Workers -> WkRecords]
    BY <1>1, <1>2 DEF GateHeld, Typed
  <1>5. CASE ~rec.dispatched
    <2>1. rec' = [rec EXCEPT !.dispatched = TRUE] /\ UNCHANGED <<gd, wk>>
      BY <1>5 DEF CreateDispatch
    <2>2. Moves(w, "dispatch", wk[w].req)  BY <1>1, <1>4, <2>1 DEF Moves
    <2>3. Annotates /\ rec'.manifest = rec.manifest
      BY <1>2, <1>3, <2>1 DEF Annotates, RecRecords, Typed
    <2>4. WkOK(wk[w])'  BY <1>1, <1>3, <2>1, <2>2, <2>3 DEF WkOK, Moves, Annotates
    <2> QED BY <1>1, <1>3, <1>4, <2>1, <2>2, <2>3, <2>4, GatedRecord
  <1>6. CASE rec.dispatched
    <2>1. gd' = "spawned" /\ Step(w, "poll") /\ UNCHANGED rec  BY <1>6 DEF CreateDispatch
    <2>2. Moves(w, "poll", wk[w].req)  BY <1>4, <2>1, StepMoves DEF Pcs, Sharing
    <2>3. Typed'  BY <1>1, <1>2, <2>1, <2>2 DEF Typed, Moves
    <2>4. EpochOK'  BY <1>1, <1>2 DEF EpochOK
    <2>5. AuthOK'  BY <1>1, <1>3, <2>1, ActiveFacts DEF AuthOK
    <2>6. RecordOK'
      <3>1. RetireClaim' = RetireClaim  BY <1>1 DEF RetireClaim
      <3> QED BY <1>1, <1>2, <2>1, <3>1 DEF RecordOK
    <2>7. PlanOK'  BY <1>1, <1>2, <1>3, <2>1, ActiveFacts DEF PlanOK
    <2>8. Lasts  BY <1>1, <1>2, <1>3, <2>1, ActiveFacts, SameLasts
    <2>9. WkOK(wk[w])'  BY <1>1, <1>3, <2>2 DEF WkOK, Moves
    <2>10. \A v \in Workers : v # w => Undisturbed(wk[v])  BY <1>1, <1>4, <2>1, Alone
    <2>11. db' \in DbRecords  BY <2>3 DEF Typed
    <2>12. Threads'  BY <1>4, <2>2, <2>9, <2>10, <2>11, ThreadMoves
    <2> QED BY <1>1, <2>1, <2>3, <2>4, <2>5, <2>6, <2>7, <2>8, <2>12, HostFramed
  <1> QED BY <1>5, <1>6

(* A directory that exists no more holds no receipt.                       *)
LEMMA NoReceipt ==
    ASSUME RetInv, ~disk.dir
    PROVE  "receipt" \notin disk.files
  BY DEF RetInv, Shared, PlanOK

(* Fencing the directory is possible only where it has a receipt or the    *)
(* serial is active: it never brings a removed directory back.             *)
LEMMA FencingFacts ==
    ASSUME RetInv, CanFence, rec.manifest
    PROVE  ~Gone /\ rec.plan # "removed" /\ rec.present /\ gd # "locked"
  <1>1. rec.present  BY NoReqFacts DEF RetInv, Shared, RecordOK
  <1>2. gd # "locked"  BY DEF CanFence, LifecycleFree
  <1>3. "receipt" \in disk.files \/ auth.state = "active"  BY DEF CanFence, MayCreate
  <1>4. CASE "receipt" \in disk.files
    <2>1. disk.dir  BY <1>4, NoReceipt
    <2>2. rec.plan # "removed"  BY <2>1 DEF RetInv, Shared, PlanOK
    <2> QED BY <1>1, <1>2, <2>1, <2>2 DEF Gone
  <1>5. CASE auth.state = "active"
    BY <1>1, <1>2, <1>5, ActiveFacts
  <1> QED BY <1>3, <1>4, <1>5

(* Observation and cleanup: fencing never writes a directory that a        *)
(* completion says is gone.                                                *)
LEMMA ObserveStep ==
    ASSUME RetInv, NEW w \in Workers, Observe(w)
    PROVE  RetInv'
  <1>1. /\ wk[w].pc = "cleanup" /\ Finish(w)
        /\ UNCHANGED <<db, net, host, check, auth, gd, faults>>
    BY DEF Observe
  <1>2. Typed /\ EpochOK /\ AuthOK /\ RecordOK /\ PlanOK
    BY DEF RetInv, Shared
  <1>3. Moves(w, "idle", NoReq)  BY <1>1, <1>2, FinishMoves DEF Typed
  <1>4. WkOK(wk[w])'  BY <1>3 DEF WkOK, Moves, Sharing
  <1>5. wk[w].pc \in GateHeld /\ db' \in DbRecords /\ "idle" \notin GateHeld
    BY <1>1, <1>2 DEF GateHeld, Typed
  <1>6. EpochOK'  BY <1>1, <1>2 DEF EpochOK
  <1>7. RetireClaim' = RetireClaim  BY <1>1 DEF RetireClaim
  <1>8. ReplyOK(Msg("released"))'  BY DEF ReplyOK, Msg
  <1>9. CASE /\ rec.manifest /\ MayClean /\ CanFence
             /\ disk' = StoppedDisk /\ vm' = "none"
             /\ rec' = [rec EXCEPT !.stopped = TRUE, !.released = TRUE]
             /\ answers' = answers \union {Msg("released")}
    <2>1. ~Gone /\ rec.plan # "removed" /\ rec.present /\ gd # "locked" /\ LifecycleFree
      BY <1>9, FencingFacts DEF CanFence
    <2>2. /\ rec' \in RecRecords /\ rec'.stopped /\ rec'.released
          /\ rec'.present = rec.present /\ rec'.manifest = rec.manifest
          /\ rec'.dispatched = rec.dispatched /\ rec'.ret = rec.ret /\ rec'.plan = rec.plan
      BY <1>2, <1>9 DEF Typed, RecRecords
    <2>3. /\ disk' \in DiskRecords /\ disk'.dir /\ disk'.receipt = "stopped"
          /\ "receipt" \in disk'.files
      BY <1>2, <1>9 DEF StoppedDisk, Typed, DiskRecords, Names
    <2>4. Typed'  BY <1>1, <1>2, <1>3, <1>9, <2>2, <2>3 DEF Typed, Moves
    <2>5. AuthOK'  BY <1>1, <1>2, <2>1, <2>2 DEF AuthOK
    <2>6. RecordOK'  BY <1>1, <1>2, <1>7, <1>9, <2>1, <2>2 DEF RecordOK
    <2>7. LifecycleFree'  BY <1>1, <2>1 DEF LifecycleFree
    <2>8. PlanOK'  BY <1>1, <1>2, <1>9, <2>1, <2>2, <2>3, <2>7 DEF PlanOK
    <2>9. Lasts  BY <1>1, <1>2, <2>1, <2>2, SameLasts
    <2>10. \A v \in Workers : v # w => Undisturbed(wk[v])  BY <1>1, <1>5, <2>2, Alone
    <2>11. Threads'  BY <1>3, <1>4, <1>5, <2>10, ThreadMoves
    <2> QED BY <1>1, <1>6, <1>8, <1>9, <2>4, <2>5, <2>6, <2>8, <2>9, <2>11, HostFramed
  <1>10. CASE /\ UNCHANGED <<disk, vm, rec>>
              /\ answers' = answers \/ answers' = answers \union {Msg("released")}
    <2>1. Typed'  BY <1>1, <1>2, <1>3, <1>10 DEF Typed, Moves
    <2>2. AuthOK' /\ RecordOK' /\ PlanOK'
      BY <1>1, <1>2, <1>7, <1>10 DEF AuthOK, RecordOK, PlanOK, LifecycleFree
    <2>3. Lasts
      <3>1. Gone => Gone'  BY <1>1, <1>10 DEF Gone, Down
      <3> QED BY <1>1, <1>2, <1>10, <3>1, SameLasts
    <2>4. \A v \in Workers : v # w => Undisturbed(wk[v])  BY <1>1, <1>5, <1>10, Alone
    <2>5. Threads'  BY <1>3, <1>4, <1>5, <2>4, ThreadMoves
    <2> QED BY <1>1, <1>6, <1>8, <1>10, <2>1, <2>2, <2>3, <2>5, HostFramed
  <1> QED BY <1>9, <1>10 DEF Observe

(* After the end of the process every thread is idle.                      *)
LEMMA AllIdle ==
    ASSUME wk' = [u \in Workers |-> Idle]
    PROVE  wk' \in [Workers -> WkRecords] /\ Threads'
  <1>1. wk' \in [Workers -> WkRecords] /\ \A u \in Workers : wk'[u].pc = "idle"
    BY NoReqFacts
  <1>2. \A u \in Workers : WkOK(wk[u])'  BY <1>1 DEF WkOK, Sharing
  <1>3. GateOK'  BY <1>1 DEF GateOK, GateHeld
  <1> QED BY <1>1, <1>2, <1>3 DEF Threads

(* The process ends inside an absence proof: the serial is active, so no   *)
(* removal was reported.                                                   *)
LEMMA ObserveTornStep ==
    ASSUME RetInv, NEW w \in Workers, ObserveTorn(w)
    PROVE  RetInv'
  <1>1. /\ faults < MaxFaults /\ rec.manifest /\ CanFence /\ disk.files \subseteq {"lock"}
        /\ disk' = [dir |-> TRUE, files |-> {"lock", "manifest"}, receipt |-> "none"]
        /\ faults' = faults + 1 /\ host' = [host EXCEPT !.pc = "down"]
        /\ wk' = [u \in Workers |-> Idle]
        /\ UNCHANGED <<db, net, answers, check, rec, auth, vm, gd>>
    BY DEF ObserveTorn
  <1>2. Typed /\ EpochOK /\ AuthOK /\ RecordOK /\ PlanOK  BY DEF RetInv, Shared
  <1>3. "receipt" \notin disk.files /\ auth.state = "active"
    BY <1>1 DEF CanFence, MayCreate
  <1>4. gd # "locked" /\ rec.present  BY <1>1, FencingFacts
  <1>5. wk' \in [Workers -> WkRecords] /\ Threads'  BY <1>1, AllIdle
  <1>6. /\ host' \in HostRecords /\ host'.epoch = host.epoch /\ host'.saved = host.saved
    BY <1>1, <1>2 DEF Typed, HostRecords
  <1>7. disk' \in DiskRecords  BY <1>1 DEF DiskRecords, Names
  <1>8. faults' \in 0..MaxFaults  BY <1>1, <1>2, RetirementAssumption DEF Typed
  <1>9. Typed'  BY <1>1, <1>2, <1>5, <1>6, <1>7, <1>8 DEF Typed
  <1>10. EpochOK'  BY <1>1, <1>2, <1>6 DEF EpochOK
  <1>11. AuthOK'  BY <1>1, <1>2, <1>4 DEF AuthOK
  <1>12. RecordOK'
    <2>1. RetireClaim' = RetireClaim  BY <1>1 DEF RetireClaim
    <2> QED BY <1>1, <1>2, <2>1 DEF RecordOK
  <1>13. rec.plan = "none" /\ ~rec.released /\ ~Gone
    <2>1. rec.plan = "none" /\ ~Gone  BY <1>3, ActiveFacts
    <2> QED BY <1>2, <1>3, <2>1 DEF PlanOK
  <1>14. PlanOK'
    <2>1. disk'.dir  BY <1>1
    <2> QED BY <1>1, <1>2, <1>3, <1>13, <2>1 DEF PlanOK
  <1>15. Lasts  BY <1>1, <1>2, <1>13, SameLasts
  <1> QED BY <1>1, <1>5, <1>9, <1>10, <1>11, <1>12, <1>14, <1>15, HostFramed

(* The request is journaled: the new claim is no earlier than the one it   *)
(* replaces, and none is completed.                                        *)
LEMMA FenceRecordStep ==
    ASSUME RetInv, NEW w \in Workers, FenceRecord(w)
    PROVE  RetInv'
  <1>1. /\ wk[w].pc = "idle" /\ GateFree
        /\ UNCHANGED <<db, answers, host, check, auth, disk, vm, gd, faults>>
    BY DEF FenceRecord
  <1>2. PICK r \in 1..MaxClaims, e \in 1..MaxEpoch :
          LET req == [rev |-> r, epoch |-> e] IN
          /\ [kind |-> "retire", req |-> req] \in net
          /\ Live(req) /\ e = host.epoch /\ MayRetire(e)
          /\ Scope /\ r >= rec.ret.rev
          /\ rec' = [(IF rec.present THEN rec ELSE NewRecord)
                        EXCEPT !.ret = req, !.stopped = TRUE]
          /\ wk' = [wk EXCEPT ![w] = [Idle EXCEPT !.pc = "fence", !.req = req]]
          /\ net' = net \ {[kind |-> "retire", req |-> req]}
    BY DEF FenceRecord
  <1>3. PICK req : req = [rev |-> r, epoch |-> e]  OBVIOUS
  <1>4. req \in Requests /\ req.rev = r /\ req.epoch = e /\ req # NoReq
    BY <1>3, RetirementAssumption DEF Requests, NoReq
  <1>5. PICK y : y = IF rec.present THEN rec ELSE NewRecord  OBVIOUS
  <1>6. /\ [kind |-> "retire", req |-> req] \in net
        /\ db.lease /\ e = auth.epoch /\ auth.state \in {"active", "fenced"}
        /\ r >= rec.ret.rev
        /\ rec' = [y EXCEPT !.ret = req, !.stopped = TRUE]
        /\ wk' = [wk EXCEPT ![w] = [Idle EXCEPT !.pc = "fence", !.req = req]]
        /\ net' = net \ {[kind |-> "retire", req |-> req]}
    BY <1>2, <1>3, <1>5 DEF Live, MayRetire
  <1>7. Typed /\ EpochOK /\ DbOK /\ AuthOK /\ RecordOK /\ PlanOK /\ NetOK
    BY DEF RetInv, Shared, Messages
  <1>8. /\ y \in RecRecords /\ y.present /\ y.plan = rec.plan /\ y.ret = rec.ret
        /\ y.released = rec.released /\ y.manifest = rec.manifest
        /\ y.dispatched = rec.dispatched
    <2>1. CASE rec.present  BY <1>5, <1>7, <2>1 DEF Typed
    <2>2. CASE ~rec.present
      <3>1. y = NewRecord /\ rec = NoRecord  BY <1>5, <1>7, <2>2 DEF RecordOK
      <3>2. y \in RecRecords /\ y.present  BY <3>1, NoReqFacts
      <3> QED BY <3>1, <3>2 DEF NewRecord, NoRecord
    <2> QED BY <2>1, <2>2
  <1>9. /\ rec' \in RecRecords /\ rec'.present /\ rec'.plan = rec.plan /\ rec'.ret = req
        /\ rec'.stopped
        /\ rec'.released = rec.released /\ rec'.manifest = rec.manifest
        /\ rec'.dispatched = rec.dispatched
    BY <1>4, <1>6, <1>8 DEF RecRecords
  <1>10. Moves(w, "fence", req)
    <2>1. PICK z : z = [Idle EXCEPT !.pc = "fence", !.req = req]  OBVIOUS
    <2>2. z \in WkRecords /\ z.pc = "fence" /\ z.req = req
      BY <1>4, <2>1, NoReqFacts DEF WkRecords, Idle, GateHeld
    <2>3. wk' = [wk EXCEPT ![w] = z]  BY <1>6, <2>1
    <2> QED BY <1>7, <2>2, <2>3 DEF Moves, Typed
  <1>11. Below(req, RetireClaim) /\ 1 <= req.epoch /\ RetireClaim' = RetireClaim
    <2>1. PICK m : m = [kind |-> "retire", req |-> req]  OBVIOUS
    <2>2. m \in net /\ m.kind = "retire" /\ m.req = req  BY <1>6, <2>1
    <2>3. Below(req, RetireClaim)  BY <1>7, <2>2 DEF NetOK
    <2>4. RetireClaim' = RetireClaim  BY <1>1 DEF RetireClaim
    <2> QED BY <1>4, <2>3, <2>4
  <1>12. Typed'  BY <1>1, <1>7, <1>9, <1>10 DEF Typed, Moves
  <1>13. EpochOK'  BY <1>1, <1>7 DEF EpochOK
  <1>14. AuthOK'  BY <1>1, <1>7, <1>9 DEF AuthOK
  <1>15. RecordOK'
    <2>1. e <= e  OBVIOUS
    <2>2. (1 <= rec.ret.epoch /\ rec.ret.epoch <= auth.epoch /\ Below(rec.ret, RetireClaim))'
      BY <1>1, <1>4, <1>6, <1>9, <1>11, <2>1
    <2> QED BY <1>4, <1>7, <1>9, <2>2 DEF RecordOK
  <1>16. LifecycleFree' = LifecycleFree  BY <1>1 DEF LifecycleFree
  <1>17. PlanOK'
    <2>1. rec.plan = "none" \/ rec.present
      BY <1>7, NoReqFacts DEF RecordOK
    <2> QED BY <1>1, <1>6, <1>7, <1>9, <1>16, <2>1 DEF PlanOK
  <1>18. Below(rec.ret, req)
    <2>1. rec.ret \in Requests /\ auth.epoch \in Nat
      BY <1>7, RetirementAssumption DEF Typed, RecRecords, AuthRecords, Epochs
    <2>2. rec.ret.epoch <= e
      <3>1. CASE rec.ret = NoReq  BY <3>1, NoReqFacts
      <3>2. CASE rec.ret # NoReq  BY <1>6, <1>7, <3>2 DEF RecordOK
      <3> QED BY <3>1, <3>2
    <2>3. rec.ret.rev <= r
      BY <1>6, <2>1, RetirementAssumption DEF Requests
    <2> QED BY <1>4, <2>2, <2>3 DEF Below
  <1>19. Lasts
    <2>1. db.done = NoReq  BY <1>6, <1>7 DEF DbOK
    <2>2. (Gone' <=> Gone) /\ (Closed' <=> Closed)  BY <1>1 DEF Gone, Down, Closed
    <2>3. ~Completed  BY <1>6 DEF Completed, Closed
    <2> QED BY <1>1, <1>9, <1>18, <2>1, <2>2, <2>3 DEF Lasts
  <1>20. WkOK(wk[w])'
    <2>1. Issued(req)'  BY <1>4, <1>11 DEF Issued
    <2> QED BY <1>10, <2>1 DEF WkOK, Moves, Sharing
  <1>21. \A v \in Workers : v # w => Undisturbed(wk[v])  BY <1>1, <1>9, Alone
  <1>22. db' \in DbRecords  BY <1>12 DEF Typed
  <1>23. Threads'  BY <1>1, <1>10, <1>20, <1>21, <1>22, ThreadMoves
  <1>24. \A m \in net' : m \in net  BY <1>6
  <1> QED BY <1>1, <1>12, <1>13, <1>14, <1>15, <1>17, <1>19, <1>23, <1>24, HostFramed

(* The authority file is fenced with nobody sharing its lock.              *)
LEMMA FenceRootStep ==
    ASSUME RetInv, NEW w \in Workers, FenceRoot(w)
    PROVE  RetInv'
  <1>1. /\ wk[w].pc = "fence"
        /\ UNCHANGED <<db, net, answers, host, check, rec, disk, vm, gd, faults>>
    BY DEF FenceRoot
  <1>2. Typed /\ EpochOK /\ AuthOK /\ RecordOK /\ PlanOK /\ WkOK(wk[w])
    BY DEF RetInv, Shared, Threads
  <1>3. CASE Finish(w) /\ UNCHANGED auth
    <2>1. Moves(w, "idle", NoReq)  BY <1>2, <1>3, FinishMoves DEF Typed
    <2>2. WkOK(wk[w])'  BY <2>1 DEF WkOK, Moves, Sharing
    <2>3. wk[w].pc \in GateHeld  BY <1>1 DEF GateHeld
    <2> QED BY <1>1, <1>3, <2>1, <2>2, <2>3, GatedRecord
  <1>4. CASE /\ ExclusiveFree /\ ~Closed
             /\ auth' = [auth EXCEPT !.state = IF @ = "active" THEN "fenced" ELSE @]
             /\ Step(w, "reopen")
    <2>1. /\ auth' \in AuthRecords /\ auth'.epoch = auth.epoch /\ auth'.through = auth.through
          /\ auth.state = "active" => auth'.state = "fenced"
          /\ auth.state # "active" => auth'.state = auth.state
      BY <1>2, <1>4 DEF Typed, AuthRecords
    <2>2. Moves(w, "reopen", wk[w].req)  BY <1>2, <1>4, StepMoves DEF Typed, Pcs
    <2>3. gd # "locked" /\ \A v \in Workers : wk[v].pc \notin Sharing \union {"delete"}
      BY <1>4 DEF ExclusiveFree
    <2>4. Typed'  BY <1>1, <1>2, <2>1, <2>2 DEF Typed, Moves
    <2>5. EpochOK'  BY <1>1, <1>2, <2>1 DEF EpochOK
    <2>6. AuthOK'  BY <1>1, <1>2, <2>1, <2>3 DEF AuthOK
    <2>7. RetireClaim' = RetireClaim  BY <1>1 DEF RetireClaim
    <2>8. RecordOK'  BY <1>1, <1>2, <2>1, <2>7 DEF RecordOK
    <2>9. LifecycleFree' = LifecycleFree  BY <1>1 DEF LifecycleFree
    <2>10. PlanOK'  BY <1>1, <1>2, <2>1, <2>9 DEF PlanOK
    <2>11. Lasts
      <3>1. Gone => Gone'  BY <1>1, <2>1 DEF Gone, Down
      <3>2. ~Closed /\ ~Closed'  BY <1>4, <2>1 DEF Closed
      <3>3. Completed => Completed'  BY <1>1, <2>1, <3>2 DEF Completed
      <3>4. Below(rec.ret, rec.ret)
        BY <1>2, RetirementAssumption DEF Typed, RecRecords, Below, Requests
      <3> QED BY <1>1, <2>1, <3>1, <3>2, <3>3, <3>4 DEF Lasts
    <2>12. WkOK(wk[w])'
      <3>1. Issued(wk[w].req)  BY <1>1, <1>2 DEF WkOK
      <3>2. Issued(wk[w].req)'  BY <2>2, <2>7, <3>1 DEF Issued, Moves
      <3> QED BY <2>2, <3>2 DEF WkOK, Moves, Sharing
    <2>13. \A v \in Workers : v # w => Undisturbed(wk[v])  BY <1>1, <2>3, Beside
    <2>14. db' \in DbRecords /\ "reopen" \notin GateHeld  BY <2>4 DEF Typed, GateHeld
    <2>15. Threads'  BY <2>2, <2>12, <2>13, <2>14, ThreadMoves
    <2> QED BY <1>1, <2>4, <2>5, <2>6, <2>8, <2>10, <2>11, <2>15, HostFramed
  <1> QED BY <1>3, <1>4 DEF FenceRoot

(* The plan is saved with the serial fenced, the cgroup gone and the       *)
(* guardian's lock free.                                                   *)
LEMMA OpenSessionStep ==
    ASSUME RetInv, NEW w \in Workers, OpenSession(w)
    PROVE  RetInv'
  <1>1. /\ wk[w].pc = "reopen"
        /\ UNCHANGED <<db, net, answers, host, check, auth, disk, vm, gd, faults>>
    BY DEF OpenSession
  <1>2. Typed /\ EpochOK /\ AuthOK /\ RecordOK /\ PlanOK /\ WkOK(wk[w])
    BY DEF RetInv, Shared, Threads
  <1>3. CASE Finish(w) /\ UNCHANGED rec
    <2>1. Moves(w, "idle", NoReq)  BY <1>2, <1>3, FinishMoves DEF Typed
    <2>2. WkOK(wk[w])'  BY <2>1 DEF WkOK, Moves, Sharing
    <2>3. \A v \in Workers : v # w => Undisturbed(wk[v])  BY <1>1, <1>3, Beside
    <2>4. db' \in DbRecords /\ "idle" \notin GateHeld  BY <1>1, <1>2 DEF Typed, GateHeld
    <2>5. Threads'  BY <2>1, <2>2, <2>3, <2>4, ThreadMoves
    <2> QED BY <1>1, <1>3, <2>1, <2>5, RecordStep DEF Moves
  <1>4. CASE /\ GateFree /\ rec.present /\ rec.ret = wk[w].req
             /\ SessionOpens(host.epoch)
             /\ rec' = [rec EXCEPT !.plan = IF @ = "none" THEN "saved" ELSE @]
             /\ Step(w, "delete")
    <2>1. /\ rec' \in RecRecords /\ rec'.present = rec.present
          /\ rec'.manifest = rec.manifest /\ rec'.dispatched = rec.dispatched
          /\ rec'.stopped = rec.stopped /\ rec'.released = rec.released
          /\ rec'.ret = rec.ret /\ rec'.plan # "none"
          /\ rec.plan # "none" => rec'.plan = rec.plan
          /\ rec.plan = "none" => rec'.plan = "saved"
      BY <1>2, <1>4 DEF Typed, RecRecords
    <2>2. auth.state = "fenced" /\ vm = "none" /\ LifecycleFree /\ Inventory
      BY <1>4 DEF SessionOpens, MayDelete
    <2>3. disk.dir => rec.manifest  BY <2>2 DEF Inventory
    <2>4. Moves(w, "delete", wk[w].req)  BY <1>2, <1>4, StepMoves DEF Typed, Pcs, GateHeld
    <2>5. Issued(wk[w].req) /\ rec.ret # NoReq
      <3>1. Issued(wk[w].req)  BY <1>1, <1>2 DEF WkOK
      <3>2. 1 <= rec.ret.epoch  BY <1>4, <3>1 DEF Issued
      <3> QED BY <3>1, <3>2, NoReqFacts
    <2>6. Typed'  BY <1>1, <1>2, <2>1, <2>4 DEF Typed, Moves
    <2>7. EpochOK'  BY <1>1, <1>2 DEF EpochOK
    <2>8. AuthOK'  BY <1>1, <1>2, <2>1 DEF AuthOK
    <2>9. RetireClaim' = RetireClaim  BY <1>1 DEF RetireClaim
    <2>10. RecordOK'  BY <1>1, <1>2, <1>4, <2>1, <2>5, <2>9 DEF RecordOK
    <2>11. LifecycleFree'  BY <1>1, <2>2 DEF LifecycleFree
    <2>12. PlanOK'  BY <1>1, <1>2, <2>1, <2>2, <2>3, <2>11 DEF PlanOK
    <2>13. Lasts
      <3>1. (Gone' <=> Gone) /\ (Closed' <=> Closed)  BY <1>1 DEF Gone, Down, Closed
      <3>2. Completed' <=> Completed  BY <1>1, <2>1, <3>1 DEF Completed
      <3>3. Below(rec.ret, rec.ret)
        BY <1>2, RetirementAssumption DEF Typed, RecRecords, Below, Requests
      <3> QED BY <1>1, <2>1, <3>1, <3>2, <3>3 DEF Lasts
    <2>14. WkOK(wk[w])'
      <3>1. Issued(wk[w].req)'  BY <2>4, <2>5, <2>9 DEF Issued, Moves
      <3> QED BY <1>1, <1>4, <2>1, <2>2, <2>4, <2>11, <3>1 DEF WkOK, Moves, Sharing
    <2>15. \A v \in Workers : v # w => Undisturbed(wk[v])  BY <1>1, <1>4, <2>1, Alone
    <2>16. db' \in DbRecords  BY <2>6 DEF Typed
    <2>17. Threads'  BY <1>4, <2>4, <2>14, <2>15, <2>16, ThreadMoves
    <2> QED BY <1>1, <2>6, <2>7, <2>8, <2>10, <2>12, <2>13, <2>17, HostFramed
  <1> QED BY <1>3, <1>4 DEF OpenSession

(* What a deletion under way relies on.                                    *)
LEMMA DeleteFacts ==
    ASSUME RetInv, NEW w \in Workers, wk[w].pc = "delete"
    PROVE  /\ auth.state = "fenced" /\ vm = "none" /\ LifecycleFree /\ gd # "locked"
           /\ rec.present /\ rec.plan # "none" /\ rec.ret = wk[w].req
           /\ Issued(wk[w].req) /\ wk[w].pc \in GateHeld /\ auth.through = 1
  <1>1. WkOK(wk[w]) /\ auth \in AuthRecords /\ AuthOK
    BY DEF RetInv, Threads, Typed, Shared
  <1>2. /\ auth.state = "fenced" /\ vm = "none" /\ LifecycleFree
        /\ rec.present /\ rec.plan # "none" /\ rec.ret = wk[w].req /\ Issued(wk[w].req)
    BY <1>1 DEF WkOK
  <1>3. auth.through # 0 /\ auth.through \in 0..1
    BY <1>1, <1>2 DEF AuthOK, AuthRecords
  <1>4. auth.through = 1  BY <1>3
  <1> QED BY <1>2, <1>4 DEF LifecycleFree, GateHeld

(* One unlink, by the only thread that holds the gate and the exclusive    *)
(* lock.                                                                   *)
LEMMA RemoveNextStep ==
    ASSUME RetInv, NEW w \in Workers, RemoveNext(w)
    PROVE  RetInv'
  <1>1. /\ wk[w].pc = "delete" /\ disk.dir
        /\ UNCHANGED <<db, net, answers, host, check, rec, wk, auth, vm, gd, faults>>
    BY DEF RemoveNext
  <1>2. Typed /\ EpochOK /\ AuthOK /\ RecordOK /\ PlanOK /\ Threads
    BY DEF RetInv, Shared
  <1>3. /\ auth.state = "fenced" /\ vm = "none" /\ LifecycleFree /\ gd # "locked"
        /\ rec.present /\ rec.plan # "none" /\ rec.ret = wk[w].req
        /\ Issued(wk[w].req) /\ wk[w].pc \in GateHeld
    BY <1>1, DeleteFacts
  <1>4. disk' \in DiskRecords /\ (~disk'.dir => disk'.files = {})
    <2>1. CASE disk' = NoDirectory  BY <2>1 DEF NoDirectory, DiskRecords
    <2>2. CASE \E x : disk' = [disk EXCEPT !.files = @ \ {x}]
      <3>1. PICK x : disk' = [disk EXCEPT !.files = @ \ {x}]  BY <2>2
      <3>2. PICK f \in SUBSET Names : f = disk.files \ {x}
        BY <1>2 DEF Typed, DiskRecords
      <3>3. disk' = [disk EXCEPT !.files = f]  BY <3>1, <3>2
      <3> QED BY <1>1, <1>2, <3>3 DEF Typed, DiskRecords
    <2> QED BY <2>1, <2>2 DEF RemoveNext
  <1>5. Typed'  BY <1>1, <1>2, <1>4 DEF Typed
  <1>6. EpochOK' /\ AuthOK'  BY <1>1, <1>2, <1>3 DEF EpochOK, AuthOK
  <1>7. RetireClaim' = RetireClaim /\ LifecycleFree'
    BY <1>1, <1>3 DEF RetireClaim, LifecycleFree
  <1>8. RecordOK'  BY <1>1, <1>2, <1>7 DEF RecordOK
  <1>9. PlanOK'  BY <1>1, <1>2, <1>3, <1>4, <1>7 DEF PlanOK
  <1>10. Lasts
    <2>1. ~Gone  BY <1>1 DEF Gone
    <2> QED BY <1>1, <1>2, <2>1, SameLasts
  <1>11. Moves(w, wk[w].pc, wk[w].req)  BY <1>1, <1>2 DEF Typed, Moves
  <1>12. WkOK(wk[w])'
    <2>1. Issued(wk[w].req)'  BY <1>1, <1>3, <1>7 DEF Issued
    <2> QED BY <1>1, <1>3, <1>7, <2>1 DEF WkOK, Sharing
  <1>13. \A v \in Workers : v # w => Undisturbed(wk[v])  BY <1>1, <1>3, Alone
  <1>14. db' \in DbRecords  BY <1>5 DEF Typed
  <1>15. Threads'  BY <1>3, <1>11, <1>12, <1>13, <1>14, ThreadMoves
  <1> QED BY <1>1, <1>5, <1>6, <1>8, <1>9, <1>10, <1>15, HostFramed

(* Removal is journaled and reported: what is reported is true.            *)
LEMMA RemovedStep ==
    ASSUME RetInv, NEW w \in Workers, Removed(w)
    PROVE  RetInv'
  <1>1. /\ wk[w].pc = "delete" /\ ~disk.dir /\ rec' = [rec EXCEPT !.plan = "removed"]
        /\ Finish(w)
        /\ UNCHANGED <<db, net, host, check, auth, disk, vm, gd, faults>>
    BY DEF Removed
  <1>2. Typed /\ EpochOK /\ AuthOK /\ RecordOK /\ PlanOK  BY DEF RetInv, Shared
  <1>3. /\ auth.state = "fenced" /\ vm = "none" /\ LifecycleFree /\ gd # "locked"
        /\ rec.present /\ rec.plan # "none" /\ rec.ret = wk[w].req
        /\ Issued(wk[w].req) /\ wk[w].pc \in GateHeld /\ auth.through = 1
    BY <1>1, DeleteFacts
  <1>4. /\ rec' \in RecRecords /\ rec'.present = rec.present
        /\ rec'.manifest = rec.manifest /\ rec'.dispatched = rec.dispatched
        /\ rec'.stopped = rec.stopped /\ rec'.released = rec.released
        /\ rec'.ret = rec.ret /\ rec'.plan = "removed"
    BY <1>1, <1>2 DEF Typed, RecRecords
  <1>5. Moves(w, "idle", NoReq)  BY <1>1, <1>2, FinishMoves DEF Typed
  <1>6. Typed'  BY <1>1, <1>2, <1>4, <1>5 DEF Typed, Moves
  <1>7. EpochOK' /\ AuthOK'  BY <1>1, <1>2, <1>4 DEF EpochOK, AuthOK
  <1>8. RetireClaim' = RetireClaim  BY <1>1 DEF RetireClaim
  <1>9. RecordOK'  BY <1>1, <1>2, <1>3, <1>4, <1>8 DEF RecordOK
  <1>10. PlanOK'  BY <1>1, <1>2, <1>3, <1>4 DEF PlanOK
  <1>11. Gone' /\ Below(rec.ret, rec.ret)
    <2>1. Below(rec.ret, rec.ret)
      BY <1>2, RetirementAssumption DEF Typed, RecRecords, Below, Requests
    <2> QED BY <1>1, <1>3, <2>1 DEF Gone, Down
  <1>12. Lasts
    <2>1. Closed' <=> Closed  BY <1>1 DEF Closed
    <2>2. ~Completed  BY <1>3 DEF Completed
    <2> QED BY <1>1, <1>3, <1>4, <1>11, <2>1, <2>2 DEF Lasts
  <1>13. PICK q : q = wk[w].req  OBVIOUS
  <1>14. ReplyOK([kind |-> "removed", req |-> q])'
    <2>1. AnswerOK(q)'
      BY <1>3, <1>4, <1>11, <1>13 DEF AnswerOK, Issued
    <2> QED BY <2>1 DEF ReplyOK
  <1>15. \A m \in answers' : m \in answers \/ ReplyOK(m)'
    BY <1>13, <1>14 DEF Removed
  <1>16. WkOK(wk[w])'  BY <1>5 DEF WkOK, Moves, Sharing
  <1>17. \A v \in Workers : v # w => Undisturbed(wk[v])  BY <1>1, <1>3, <1>4, Alone
  <1>18. db' \in DbRecords  BY <1>6 DEF Typed
  <1>19. Threads'  BY <1>3, <1>5, <1>16, <1>17, <1>18, ThreadMoves
  <1> QED BY <1>1, <1>6, <1>7, <1>9, <1>10, <1>12, <1>15, <1>19, HostFramed

(* What one call of forgetting may write: completion, the removal of the   *)
(* record, the removal of the entry.                                       *)
ForgetWrites ==
    /\ auth'.epoch = auth.epoch /\ auth'.through = auth.through
    /\ auth' \in AuthRecords
    /\ \/ auth'.state = auth.state /\ rec' = rec
       \/ auth'.state = "complete" /\ ~Closed /\ (rec' = rec \/ rec' = NoRecord)
       \/ auth'.state = "none" /\ rec' = NoRecord

(* Forgetting, stopped after any of its writes: the database holds the     *)
(* completion.                                                             *)
LEMMA ForgetStep ==
    ASSUME RetInv, NEW w \in Workers, Forget(w)
    PROVE  RetInv'
  <1>1. /\ wk[w].pc = "idle" /\ (rec.present => GateFree) /\ ExclusiveFree
        /\ Closed \/ auth.state \in {"fenced", "complete"}
        /\ UNCHANGED <<db, host, check, wk, disk, vm, gd>>
    BY DEF Forget
  <1>2. PICK m \in net :
          /\ m.kind = "forget" /\ Forgettable(m.meta) /\ net' = net \ {m}
          /\ \E writes \in 0..3 :
                /\ faults' = IF writes = 3 THEN faults ELSE faults + 1
                /\ faults' <= MaxFaults
                /\ auth' = [auth EXCEPT !.state = IF Closed \/ writes = 3 THEN "none"
                                             ELSE IF writes > 0 THEN "complete"
                                             ELSE @]
                /\ rec' = IF writes > 1 THEN NoRecord ELSE rec
                /\ answers' = IF writes = 3 /\ LiveForget(m.req.rev)
                              THEN answers \union {[kind |-> "forgotten", req |-> m.req]}
                              ELSE answers
    BY DEF Forget
  <1>3. Typed /\ EpochOK /\ DbOK /\ AuthOK /\ RecordOK /\ PlanOK /\ NetOK
    BY DEF RetInv, Shared, Messages
  <1>4. m.meta = db.done /\ db.done # NoReq /\ DoneOK
    BY <1>2, <1>3 DEF NetOK, DbOK
  <1>5. /\ Gone /\ auth.through = 1 /\ auth.state # "active"
        /\ rec.present => /\ ~Closed /\ rec.ret = db.done /\ rec.plan = "removed"
                          /\ auth.state \in {"fenced", "complete"}
        /\ ~rec.present => rec = NoRecord /\ (Closed \/ auth.state = "complete")
    BY <1>1, <1>2, <1>3, <1>4 DEF DoneOK, Gone, Down, Forgettable, RecordOK
  <1>6. PICK writes \in 0..3 :
          /\ faults' = IF writes = 3 THEN faults ELSE faults + 1
          /\ faults' <= MaxFaults
          /\ auth' = [auth EXCEPT !.state = IF Closed \/ writes = 3 THEN "none"
                                       ELSE IF writes > 0 THEN "complete"
                                       ELSE @]
          /\ rec' = IF writes > 1 THEN NoRecord ELSE rec
          /\ answers' = IF writes = 3 /\ LiveForget(m.req.rev)
                        THEN answers \union {[kind |-> "forgotten", req |-> m.req]}
                        ELSE answers
    BY <1>2
  <1>7. faults' \in 0..MaxFaults  BY <1>3, <1>6, RetirementAssumption DEF Typed
  <1>8. auth' \in AuthRecords /\ auth'.epoch = auth.epoch /\ auth'.through = auth.through
    BY <1>3, <1>6 DEF Typed, AuthRecords
  <1>9. auth'.state = IF Closed \/ writes = 3 THEN "none"
                      ELSE IF writes > 0 THEN "complete" ELSE auth.state
    BY <1>3, <1>6 DEF Typed, AuthRecords
  <1>10. ForgetWrites
    <2>1. CASE Closed
      <3>1. auth.state = "none" /\ ~rec.present /\ rec = NoRecord
        BY <1>5, <2>1 DEF Closed
      <3> QED BY <1>6, <1>8, <1>9, <2>1, <3>1 DEF ForgetWrites
    <2>2. CASE ~Closed /\ writes = 0
      BY <1>6, <1>8, <1>9, <2>2 DEF ForgetWrites
    <2>3. CASE ~Closed /\ writes = 1
      BY <1>6, <1>8, <1>9, <2>3 DEF ForgetWrites
    <2>4. CASE ~Closed /\ writes = 2
      BY <1>6, <1>8, <1>9, <2>4 DEF ForgetWrites
    <2>5. CASE ~Closed /\ writes = 3
      BY <1>6, <1>8, <1>9, <2>5 DEF ForgetWrites
    <2> QED BY <2>1, <2>2, <2>3, <2>4, <2>5
  <1>11. rec' = rec \/ rec' = NoRecord  BY <1>6
  <1>12. Typed'  BY <1>1, <1>3, <1>7, <1>8, <1>11, NoReqFacts DEF Typed
  <1>13. EpochOK'  BY <1>1, <1>3, <1>8 DEF EpochOK
  <1>14. AuthOK'
    <2>1. gd # "locked"  BY <1>1 DEF ExclusiveFree
    <2>2. auth'.state # "active"  BY <1>5, <1>10 DEF ForgetWrites
    <2> QED BY <1>1, <1>5, <1>8, <2>1, <2>2 DEF AuthOK
  <1>15. RecordOK'
    <2>1. RetireClaim' = RetireClaim  BY <1>1 DEF RetireClaim
    <2>2. CASE rec' = rec  BY <1>3, <1>8, <2>1, <2>2 DEF RecordOK
    <2>3. CASE rec' = NoRecord  BY <2>3, NoReqFacts DEF RecordOK
    <2> QED BY <1>11, <2>2, <2>3
  <1>16. PlanOK'
    <2>1. ~disk'.dir /\ disk'.files = {} /\ vm' = "none"
      BY <1>1, <1>3, <1>5 DEF PlanOK, Gone
    <2>2. CASE rec' = NoRecord  BY <2>1, <2>2, NoReqFacts DEF PlanOK
    <2>3. CASE rec' = rec /\ rec.present
      <3>1. auth'.state \in {"fenced", "complete"}
        BY <1>5, <1>10, <2>3, NoReqFacts DEF ForgetWrites
      <3> QED BY <1>5, <2>1, <2>3, <3>1 DEF PlanOK
    <2> QED BY <1>5, <1>11, <2>2, <2>3
  <1>17. Lasts
    <2>1. Gone'  BY <1>1, <1>5, <1>8, <1>10 DEF Gone, Down, ForgetWrites
    <2>2. Closed => Closed'  BY <1>8, <1>10 DEF Closed, ForgetWrites
    <2>3. rec' = NoRecord => Completed' \/ rec' = rec
      BY <1>5, <1>8, <1>10, NoReqFacts DEF ForgetWrites, Completed, Closed
    <2>4. Completed => Completed'
      BY <1>5, <1>8, <1>10, NoReqFacts DEF ForgetWrites, Completed, Closed
    <2>5. Below(rec.ret, rec.ret)
      BY <1>3, RetirementAssumption DEF Typed, RecRecords, Below, Requests
    <2> QED BY <1>4, <1>11, <2>1, <2>2, <2>3, <2>4, <2>5 DEF Lasts
  <1>18. \A n \in answers' : n \in answers \/ ReplyOK(n)'
    <2>1. CASE writes = 3
      <3>1. Closed'  BY <1>5, <1>8, <1>9, <2>1 DEF Closed
      <3>2. PICK q : q = m.req  OBVIOUS
      <3>3. ReplyOK([kind |-> "forgotten", req |-> q])'  BY <3>1 DEF ReplyOK
      <3> QED BY <1>6, <3>2, <3>3
    <2>2. CASE writes # 3  BY <1>6, <2>2
    <2> QED BY <2>1, <2>2
  <1>19. Threads'
    <2>1. Moves(w, wk[w].pc, wk[w].req)  BY <1>1, <1>3 DEF Typed, Moves
    <2>2. WkOK(wk[w])'  BY <1>1 DEF WkOK, Sharing
    <2>3. Below(RetireClaim, RetireClaim')
      <3>1. RetireClaim' = RetireClaim  BY <1>1 DEF RetireClaim
      <3> QED BY <1>3, <3>1, ClaimFacts DEF Typed
    <2>4. LifecycleFree' = LifecycleFree  BY <1>1 DEF LifecycleFree
    <2>5. ASSUME NEW v \in Workers PROVE Undisturbed(wk[v])
      <3>1. wk[v].pc \notin Sharing \union {"delete"}  BY <1>1 DEF ExclusiveFree
      <3>2. rec.present => wk[v].pc \notin GateHeld  BY <1>1 DEF GateFree
      <3> QED BY <1>1, <2>3, <2>4, <3>1, <3>2 DEF Undisturbed, Sharing
    <2>6. db' \in DbRecords  BY <1>12 DEF Typed
    <2>7. wk[w].pc \notin GateHeld  BY <1>1 DEF GateHeld
    <2> QED BY <2>1, <2>2, <2>5, <2>6, <2>7, ThreadMoves
  <1>20. \A n \in net' : n \in net  BY <1>2
  <1> QED BY <1>1, <1>12, <1>13, <1>14, <1>15, <1>16, <1>17, <1>18, <1>19, <1>20, HostFramed

(* Registration in the authority file: a serial it adds has no record and  *)
(* no guardian.                                                            *)
LEMMA RegisterRootStep ==
    ASSUME RetInv, NEW w \in Workers, RegisterRoot(w)
    PROVE  RetInv'
  <1>1. /\ wk[w].pc = "idle" /\ ExclusiveFree /\ auth' = RegisterPermit
        /\ net' = net \ {Registration(host.epoch)} /\ Step(w, "check")
        /\ UNCHANGED <<db, answers, host, check, rec, disk, vm, gd, faults>>
    BY DEF RegisterRoot
  <1>2. Typed /\ EpochOK /\ DbOK /\ AuthOK /\ RecordOK /\ PlanOK  BY DEF RetInv, Shared
  <1>3. Moves(w, "check", wk[w].req)  BY <1>1, <1>2, StepMoves DEF Typed, Pcs
  <1>4. WkOK(wk[w])'  BY <1>3 DEF WkOK, Moves, Sharing
  <1>5. \A v \in Workers : v # w => Undisturbed(wk[v])
    <2>1. \A v \in Workers : wk[v].pc \notin Sharing \union {"delete"}
      BY <1>1 DEF ExclusiveFree
    <2> QED BY <1>1, <2>1, Beside
  <1>6. db' \in DbRecords /\ "check" \notin GateHeld  BY <1>1, <1>2 DEF Typed, GateHeld
  <1>7. Threads'  BY <1>3, <1>4, <1>5, <1>6, ThreadMoves
  <1>8. CASE auth' = auth
    BY <1>1, <1>3, <1>7, <1>8, RecordStep DEF Moves
  <1>9. CASE auth.through = 0 /\ auth' = [auth EXCEPT !.through = 1, !.state = "active"]
    <2>1. /\ auth' \in AuthRecords /\ auth'.epoch = auth.epoch
          /\ auth'.through = 1 /\ auth'.state = "active"
      <3>1. PICK n \in 0..1 : n = 1  OBVIOUS
      <3>2. auth' = [auth EXCEPT !.through = n, !.state = "active"]  BY <1>9, <3>1
      <3>3. /\ auth' \in AuthRecords /\ auth'.epoch = auth.epoch
            /\ auth'.through = n /\ auth'.state = "active"
        BY <1>2, <3>2 DEF Typed, AuthRecords
      <3> QED BY <3>1, <3>3
    <2>2. auth.state = "none" /\ gd = "none" /\ ~rec.present /\ rec = NoRecord
      BY <1>2, <1>9 DEF AuthOK, PlanOK, RecordOK
    <2>3. Typed'  BY <1>1, <1>2, <1>3, <2>1 DEF Typed, Moves
    <2>4. EpochOK'
      <3>1. check.through \in 0..1  BY <1>2 DEF Typed, CheckRecords
      <3> QED BY <1>1, <1>2, <2>1, <3>1 DEF EpochOK
    <2>5. AuthOK'  BY <1>1, <2>1, <2>2 DEF AuthOK
    <2>6. RecordOK'  BY <1>1, <2>2, NoReqFacts DEF RecordOK
    <2>7. PlanOK'  BY <1>1, <1>2, <2>2, NoReqFacts DEF PlanOK
    <2>8. Lasts
      <3>1. ~Gone /\ ~Closed /\ ~Completed /\ ~Closed'
        BY <1>9, <2>1, <2>2 DEF Gone, Down, Closed, Completed
      <3> QED BY <2>1, <2>2, <3>1 DEF Lasts
    <2> QED BY <1>1, <1>7, <2>3, <2>4, <2>5, <2>6, <2>7, <2>8, HostFramed
  <1>10. auth.through \in 0..1  BY <1>2 DEF Typed, AuthRecords
  <1>11. auth.through = 0 \/ auth.through >= 1  BY <1>10
  <1> QED BY <1>1, <1>8, <1>9, <1>11 DEF RegisterPermit

(* The checkpoint of the authority file.                                   *)
LEMMA RegisterCheckStep ==
    ASSUME RetInv, NEW w \in Workers, RegisterCheck(w)
    PROVE  RetInv'
  <1>1. /\ wk[w].pc = "check" /\ Finish(w)
        /\ check' = [epoch |-> auth.epoch, through |-> auth.through]
        /\ answers' = answers \union {[kind |-> "registered", epoch |-> host.epoch]}
        /\ UNCHANGED <<db, net, host, rec, auth, disk, vm, gd, faults>>
    BY DEF RegisterCheck
  <1>2. Typed /\ EpochOK /\ AuthOK /\ RecordOK /\ PlanOK  BY DEF RetInv, Shared
  <1>3. Moves(w, "idle", NoReq)  BY <1>1, <1>2, FinishMoves DEF Typed
  <1>4. WkOK(wk[w])'  BY <1>3 DEF WkOK, Moves, Sharing
  <1>5. \A v \in Workers : v # w => Undisturbed(wk[v])  BY <1>1, Beside
  <1>6. db' \in DbRecords /\ "idle" \notin GateHeld  BY <1>1, <1>2 DEF Typed, GateHeld
  <1>7. Threads'  BY <1>3, <1>4, <1>5, <1>6, ThreadMoves
  <1>8. check' \in CheckRecords /\ check'.epoch = auth.epoch /\ check'.through = auth.through
    BY <1>1, <1>2 DEF Typed, AuthRecords, CheckRecords
  <1>9. Typed'  BY <1>1, <1>2, <1>3, <1>8 DEF Typed, Moves
  <1>10. EpochOK'
    <2>1. auth.epoch \in Nat /\ auth.through \in Nat
      BY <1>2, RetirementAssumption DEF Typed, AuthRecords, Epochs
    <2> QED BY <1>1, <1>2, <1>8, <2>1 DEF EpochOK
  <1>11. RetireClaim' = RetireClaim /\ LifecycleFree' = LifecycleFree
    BY <1>1 DEF RetireClaim, LifecycleFree
  <1>12. AuthOK' /\ RecordOK' /\ PlanOK'
    BY <1>1, <1>2, <1>11 DEF AuthOK, RecordOK, PlanOK
  <1>13. Lasts
    <2>1. Gone => Gone'  BY <1>1 DEF Gone, Down
    <2> QED BY <1>1, <1>2, <2>1, SameLasts
  <1>14. ReplyOK([kind |-> "registered", epoch |-> host.epoch])'
    <2>1. PICK m : m = [kind |-> "registered", epoch |-> host'.epoch]  OBVIOUS
    <2>2. m.kind = "registered"  BY <2>1
    <2>3. ReplyOK(m)'  BY <2>2 DEF ReplyOK
    <2> QED BY <2>1, <2>3 DEF ReplyOK
  <1>15. \A m \in answers' : m \in answers \/ ReplyOK(m)'  BY <1>1, <1>14
  <1> QED BY <1>1, <1>7, <1>9, <1>10, <1>12, <1>13, <1>15, HostFramed

-----------------------------------------------------------------------------
(* The guardian.                                                           *)

(* A step of a guardian that was started once.                             *)
LEMMA GuardianFramed ==
    ASSUME RetInv, UNCHANGED <<db, net, answers, host, check, rec, wk, auth, faults>>,
           gd # "none", Typed', AuthOK', PlanOK', Gone => Gone',
           auth.state = "fenced" => /\ vm = "none" => vm' = "none"
                                    /\ LifecycleFree => LifecycleFree'
    PROVE  RetInv'
  <1>1. Typed /\ EpochOK /\ RecordOK  BY DEF RetInv, Shared
  <1>2. EpochOK'  BY <1>1 DEF EpochOK
  <1>3. RetireClaim' = RetireClaim  BY DEF RetireClaim
  <1>4. RecordOK'  BY <1>1, <1>3 DEF RecordOK
  <1>5. Lasts  BY <1>1, SameLasts
  <1>6. Below(RetireClaim, RetireClaim')  BY <1>1, <1>3, ClaimFacts DEF Typed
  <1>7. ASSUME NEW v \in Workers PROVE Undisturbed(wk[v])
    <2>1. WkOK(wk[v])  BY DEF RetInv, Threads
    <2>2. wk[v].pc \notin {"prepare", "dispatch"}  BY <2>1 DEF WkOK
    <2>3. wk[v].pc = "delete" => auth.state = "fenced"  BY <2>1 DEF WkOK
    <2> QED BY <1>6, <2>2, <2>3 DEF Undisturbed, SameRecord
  <1>8. db' \in DbRecords  BY DEF Typed
  <1>9. Threads'  BY <1>7, <1>8, ThreadsStay
  <1> QED BY <1>2, <1>4, <1>5, <1>9, HostFramed

(* Guardians at work under an active serial.                               *)
LEMMA GuardianActive ==
    ASSUME RetInv, UNCHANGED <<db, net, answers, host, check, rec, wk, auth, faults>>,
           gd # "none", Typed', auth.state = "active",
           gd' = "locked" => disk'.receipt = "prepared",
           rec.released => disk'.receipt = disk.receipt /\ "receipt" \in disk'.files,
           ~disk'.dir => disk'.files = {}
    PROVE  RetInv'
  <1>1. AuthOK /\ PlanOK /\ RecordOK  BY DEF RetInv, Shared
  <1>2. ~Gone /\ auth.through = 1 /\ rec.plan = "none"  BY ActiveFacts
  <1>3. AuthOK'  BY <1>1, <1>2 DEF AuthOK
  <1>4. PlanOK'  BY <1>1, <1>2 DEF PlanOK
  <1> QED BY <1>2, <1>3, <1>4, GuardianFramed

(* The guardian prepares only under an active permit.                      *)
LEMMA GuardianStartStep ==
    ASSUME RetInv, GuardianStart
    PROVE  RetInv'
  <1>1. /\ gd = "spawned"
        /\ UNCHANGED <<db, net, answers, host, check, rec, wk, auth, vm, faults>>
    BY DEF GuardianStart
  <1>2. Typed /\ AuthOK /\ RecordOK /\ PlanOK  BY DEF RetInv, Shared
  <1>3. CASE ~Authorized
    <2>1. gd' = "done" /\ UNCHANGED disk  BY <1>3 DEF GuardianStart
    <2>2. Typed'  BY <1>1, <1>2, <2>1 DEF Typed
    <2>3. AuthOK' /\ PlanOK'  BY <1>1, <1>2, <2>1 DEF AuthOK, PlanOK, LifecycleFree
    <2>4. (Gone => Gone') /\ LifecycleFree'
      BY <1>1, <2>1 DEF Gone, Down, LifecycleFree
    <2> QED BY <1>1, <2>2, <2>3, <2>4, GuardianFramed
  <1>4. CASE Authorized
    <2>1. disk' = IF "receipt" \in disk.files THEN disk
                  ELSE [dir |-> TRUE, files |-> Names, receipt |-> "prepared"]
      BY <1>4 DEF GuardianStart
    <2>2. gd' \in {"checked", "done", "reconcile"}
      <3>1. gd' = CASE disk'.receipt = "prepared" -> "checked"
                    [] disk'.receipt = "stopped" -> "done"
                    [] OTHER -> "reconcile"
        BY <1>4 DEF GuardianStart
      <3>2. CASE disk'.receipt = "prepared"  BY <3>1, <3>2
      <3>3. CASE disk'.receipt = "stopped"  BY <3>1, <3>3
      <3>4. CASE disk'.receipt \notin {"prepared", "stopped"}  BY <3>1, <3>4
      <3> QED BY <3>2, <3>3, <3>4
    <2>3. disk' \in DiskRecords  BY <1>2, <2>1 DEF Typed, DiskRecords, Names
    <2>4. Typed'  BY <1>1, <1>2, <2>2, <2>3 DEF Typed
    <2>5. auth.state = "active"  BY <1>4 DEF Authorized
    <2>6. ~disk'.dir => disk'.files = {}  BY <1>2, <2>1 DEF PlanOK
    <2>7. rec.released => disk'.receipt = disk.receipt /\ "receipt" \in disk'.files
      <3>1. rec.plan = "none"  BY <2>5, ActiveFacts
      <3>2. rec.released => "receipt" \in disk.files  BY <1>2, <3>1 DEF PlanOK
      <3> QED BY <2>1, <3>2
    <2> QED BY <1>1, <2>2, <2>4, <2>5, <2>6, <2>7, GuardianActive
  <1> QED BY <1>3, <1>4

(* The guardian moves and writes nothing.                                  *)
LEMMA GuardianPasses ==
    ASSUME RetInv, gd # "none", gd' \in {"init", "reconcile", "done"},
           vm' = vm \/ (vm = "live" /\ vm' = "dead"),
           UNCHANGED <<db, net, answers, host, check, rec, wk, auth, disk, faults>>
    PROVE  RetInv'
  <1>1. Typed /\ AuthOK /\ PlanOK  BY DEF RetInv, Shared
  <1>2. Typed'  BY <1>1 DEF Typed
  <1>3. LifecycleFree'  BY DEF LifecycleFree
  <1>4. AuthOK' /\ PlanOK'  BY <1>1, <1>3 DEF AuthOK, PlanOK
  <1>5. Gone => Gone'  BY DEF Gone, Down
  <1> QED BY <1>2, <1>3, <1>4, <1>5, GuardianFramed

(* The namespace's init takes the shared lock only with a Prepared         *)
(* receipt.                                                                *)
LEMMA GuardianInitStep ==
    ASSUME RetInv, GuardianInit
    PROVE  RetInv'
  <1>1. /\ gd = "init"
        /\ UNCHANGED <<db, net, answers, host, check, rec, wk, auth, disk, vm, faults>>
    BY DEF GuardianInit
  <1>2. CASE gd' = "reconcile"  BY <1>1, <1>2, GuardianPasses
  <1>3. CASE gd' = "locked" /\ Authorized /\ disk.receipt = "prepared"
    <2>1. Typed /\ PlanOK  BY DEF RetInv, Shared
    <2>2. Typed'  BY <1>1, <1>3, <2>1 DEF Typed
    <2>3. auth.state = "active"  BY <1>3 DEF Authorized
    <2>4. rec.released => "receipt" \in disk.files
      BY <2>1, <2>3, ActiveFacts DEF PlanOK
    <2>5. ~disk.dir => disk.files = {}  BY <2>1 DEF PlanOK
    <2> QED BY <1>1, <1>3, <2>2, <2>3, <2>4, <2>5, GuardianActive
  <1> QED BY <1>2, <1>3 DEF GuardianInit

(* The launch: the lock its init holds keeps the serial active.            *)
LEMMA GuardianLaunchStep ==
    ASSUME RetInv, GuardianLaunch
    PROVE  RetInv'
  <1>1. /\ gd = "locked" /\ vm' = "live" /\ disk' = [disk EXCEPT !.receipt = "running"]
        /\ gd' = "running"
        /\ UNCHANGED <<db, net, answers, host, check, rec, wk, auth, faults>>
    BY DEF GuardianLaunch
  <1>2. Typed /\ AuthOK /\ PlanOK  BY DEF RetInv, Shared
  <1>3. disk' \in DiskRecords /\ disk'.dir = disk.dir /\ disk'.files = disk.files
    BY <1>1, <1>2 DEF Typed, DiskRecords
  <1>4. Typed'  BY <1>1, <1>2, <1>3 DEF Typed
  <1>5. auth.state = "active" /\ disk.receipt = "prepared"  BY <1>1, <1>2 DEF AuthOK
  <1>6. ~rec.released  BY <1>2, <1>5, ActiveFacts DEF PlanOK
  <1>7. ~disk'.dir => disk'.files = {}  BY <1>2, <1>3 DEF PlanOK
  <1> QED BY <1>1, <1>4, <1>5, <1>6, <1>7, GuardianActive

(* Cleanup by the guardian removes the cgroup and writes an existing       *)
(* receipt.                                                                *)
LEMMA GuardianReconcileStep ==
    ASSUME RetInv, GuardianReconcile
    PROVE  RetInv'
  <1>1. /\ gd = "reconcile" /\ gd' = "done"
        /\ UNCHANGED <<db, net, answers, host, check, rec, wk, auth, faults>>
    BY DEF GuardianReconcile
  <1>2. CASE UNCHANGED <<disk, vm>>  BY <1>1, <1>2, GuardianPasses
  <1>3. CASE disk' = [disk EXCEPT !.receipt = "stopped"] /\ vm' = "none"
    <2>1. Typed /\ AuthOK /\ PlanOK  BY DEF RetInv, Shared
    <2>2. /\ disk' \in DiskRecords /\ disk'.dir = disk.dir /\ disk'.files = disk.files
          /\ disk'.receipt = "stopped"
      BY <1>3, <2>1 DEF Typed, DiskRecords
    <2>3. Typed'  BY <1>1, <1>3, <2>1, <2>2 DEF Typed
    <2>4. LifecycleFree'  BY <1>1 DEF LifecycleFree
    <2>5. AuthOK' /\ PlanOK'  BY <1>1, <1>3, <2>1, <2>2, <2>4 DEF AuthOK, PlanOK
    <2>6. Gone => Gone'  BY <1>1, <1>3, <2>2 DEF Gone, Down
    <2> QED BY <1>1, <1>3, <2>3, <2>4, <2>5, <2>6, GuardianFramed
  <1> QED BY <1>2, <1>3 DEF GuardianReconcile

(* Every step of the guardian.                                             *)
LEMMA GuardianSteps ==
    ASSUME RetInv, GuardianStep
    PROVE  RetInv'
  <1>1. CASE GuardianSpawn
    <2>1. CASE gd' = "init"  BY <1>1, <2>1, GuardianPasses DEF GuardianSpawn
    <2>2. CASE gd' = "done"  BY <1>1, <2>2, GuardianPasses DEF GuardianSpawn
    <2> QED BY <1>1, <2>1, <2>2 DEF GuardianSpawn
  <1>2. CASE GuardianExit  BY <1>2, GuardianPasses DEF GuardianExit
  <1> QED BY <1>1, <1>2, GuardianStartStep, GuardianInitStep, GuardianLaunchStep,
             GuardianReconcileStep DEF GuardianStep

-----------------------------------------------------------------------------
(* The end and the start of the host process.                              *)

(* A crash ends every thread and leaves what is durable.                   *)
LEMMA CrashStep ==
    ASSUME RetInv, Crash
    PROVE  RetInv'
  <1>1. /\ faults < MaxFaults /\ faults' = faults + 1
        /\ host' = [host EXCEPT !.pc = "down"] /\ wk' = [w \in Workers |-> Idle]
        /\ UNCHANGED <<db, net, answers, check, rec, auth, disk, vm, gd>>
    BY DEF Crash
  <1>2. Typed /\ EpochOK /\ AuthOK /\ RecordOK /\ PlanOK  BY DEF RetInv, Shared
  <1>3. wk' \in [Workers -> WkRecords] /\ Threads'  BY <1>1, AllIdle
  <1>4. host' \in HostRecords /\ host'.epoch = host.epoch /\ host'.saved = host.saved
    BY <1>1, <1>2 DEF Typed, HostRecords
  <1>5. faults' \in 0..MaxFaults  BY <1>1, <1>2, RetirementAssumption DEF Typed
  <1>6. Typed'  BY <1>1, <1>2, <1>3, <1>4, <1>5 DEF Typed
  <1>7. EpochOK'  BY <1>1, <1>2, <1>4 DEF EpochOK
  <1>8. RetireClaim' = RetireClaim /\ LifecycleFree' = LifecycleFree
    BY <1>1 DEF RetireClaim, LifecycleFree
  <1>9. AuthOK' /\ RecordOK' /\ PlanOK'
    BY <1>1, <1>2, <1>8 DEF AuthOK, RecordOK, PlanOK
  <1>10. Gone => Gone'  BY <1>1 DEF Gone, Down
  <1>11. Lasts  BY <1>1, <1>2, <1>10, SameLasts
  <1> QED BY <1>1, <1>3, <1>6, <1>7, <1>9, <1>11, HostFramed

(* A start moves no thread, and changes neither the state in the authority *)
(* file nor the retirement in the record.                                  *)
LEMMA StartFramed ==
    ASSUME RetInv, UNCHANGED <<db, net, answers, wk, disk, vm, gd, faults>>,
           host' \in HostRecords, check' \in CheckRecords, auth' \in AuthRecords,
           rec' \in RecRecords, EpochOK', SameRecord, auth'.state = auth.state,
           auth'.through = auth.through, auth.epoch <= auth'.epoch,
           rec'.dispatched = rec.dispatched, rec.stopped => rec'.stopped,
           ~rec.present => rec' = rec
    PROVE  RetInv'
  <1>1. Typed /\ AuthOK /\ RecordOK /\ PlanOK  BY DEF RetInv, Shared
  <1>2. Typed'  BY <1>1 DEF Typed
  <1>3. RetireClaim' = RetireClaim /\ LifecycleFree' = LifecycleFree
    BY DEF RetireClaim, LifecycleFree
  <1>4. AuthOK'  BY <1>1 DEF AuthOK, SameRecord
  <1>5. RecordOK'
    <2>1. rec.ret \in Requests /\ auth.epoch \in Nat /\ auth'.epoch \in Nat
      BY <1>1, RetirementAssumption DEF Typed, RecRecords, AuthRecords, Epochs
    <2>2. rec.ret.epoch \in Nat  BY <2>1, RetirementAssumption DEF Requests
    <2>3. rec.ret.epoch <= auth.epoch => rec.ret.epoch <= auth'.epoch  BY <2>1, <2>2
    <2> QED BY <1>1, <1>3, <2>3 DEF RecordOK, SameRecord
  <1>6. PlanOK'  BY <1>1, <1>3 DEF PlanOK, SameRecord
  <1>7. Lasts
    <2>1. (Gone' <=> Gone) /\ (Closed' <=> Closed)  BY DEF Gone, Down, Closed
    <2>2. Completed' <=> Completed  BY <2>1 DEF Completed, SameRecord
    <2>3. Below(rec.ret, rec.ret)
      BY <1>1, RetirementAssumption DEF Typed, RecRecords, Below, Requests
    <2> QED BY <2>1, <2>2, <2>3 DEF Lasts, SameRecord
  <1>8. Below(RetireClaim, RetireClaim')  BY <1>1, <1>3, ClaimFacts DEF Typed
  <1>9. \A v \in Workers : Undisturbed(wk[v])
    BY <1>3, <1>8 DEF Undisturbed, SameRecord
  <1>10. db' \in DbRecords  BY <1>2 DEF Typed
  <1>11. Threads'  BY <1>9, <1>10, ThreadsStay
  <1> QED BY <1>2, <1>4, <1>5, <1>6, <1>7, <1>11, HostFramed

(* The epochs are numbers.                                                 *)
LEMMA EpochFacts ==
    ASSUME Typed
    PROVE  /\ host.epoch \in Nat /\ host.saved \in Nat /\ auth.epoch \in Nat
           /\ check.epoch \in Nat /\ db.epoch \in Nat /\ db.repoch \in Nat
           /\ auth.through \in Nat /\ check.through \in Nat
           /\ 1 <= db.epoch /\ 1 <= host.epoch /\ 1 <= auth.epoch
  BY RetirementAssumption
     DEF Typed, HostRecords, AuthRecords, CheckRecords, DbRecords, Epochs

(* A start journals the next epoch with every retained record stopped.     *)
LEMMA LoadStep ==
    ASSUME RetInv, Load
    PROVE  RetInv'
  <1>1. /\ host.saved < MaxEpoch
        /\ host' = [pc |-> "loaded", epoch |-> host.saved + 1, saved |-> host.saved + 1]
        /\ rec' = [rec EXCEPT !.stopped = @ \/ rec.present]
        /\ UNCHANGED <<db, net, answers, check, wk, auth, disk, vm, gd, faults>>
    BY DEF Load
  <1>2. Typed /\ EpochOK /\ RecordOK  BY DEF RetInv, Shared
  <1>3. PICK n \in Epochs : n = host.saved + 1
    <2>1. host.saved + 1 \in Epochs
      BY <1>1, <1>2, RetirementAssumption DEF Typed, HostRecords, Epochs
    <2> QED BY <2>1
  <1>4. host' = [pc |-> "loaded", epoch |-> n, saved |-> n]  BY <1>1, <1>3
  <1>5. host' \in HostRecords /\ host'.epoch = n /\ host'.saved = n
    BY <1>4 DEF HostRecords
  <1>6. EpochOK'  BY <1>1, <1>2, <1>3, <1>5, EpochFacts DEF EpochOK
  <1>7. PICK b \in BOOLEAN : b = (rec.stopped \/ rec.present)
    BY <1>2 DEF Typed, RecRecords
  <1>8. rec' = [rec EXCEPT !.stopped = b]  BY <1>1, <1>7
  <1>9. /\ rec' \in RecRecords /\ SameRecord /\ rec'.dispatched = rec.dispatched
        /\ rec'.stopped = b
    BY <1>2, <1>8 DEF Typed, RecRecords, SameRecord
  <1>10. ~rec.present => rec' = rec
    <2>1. ~rec.present => b = rec.stopped  BY <1>2, <1>7 DEF Typed, RecRecords
    <2> QED BY <1>2, <1>8, <2>1 DEF Typed, RecRecords
  <1>11. rec.stopped => rec'.stopped  BY <1>7, <1>9
  <1>12. check \in CheckRecords /\ auth \in AuthRecords /\ auth.epoch <= auth.epoch
    BY <1>2, EpochFacts DEF Typed
  <1> QED BY <1>1, <1>5, <1>6, <1>9, <1>10, <1>11, <1>12, StartFramed

(* The authority file follows the journal's epoch.                         *)
LEMMA AdvanceEpochStep ==
    ASSUME RetInv, AdvanceEpoch
    PROVE  RetInv'
  <1>1. /\ auth' = [auth EXCEPT !.epoch = host.epoch]
        /\ host' = [host EXCEPT !.pc = "advanced"]
        /\ UNCHANGED <<db, net, answers, check, rec, wk, disk, vm, gd, faults>>
    BY DEF AdvanceEpoch
  <1>2. Typed /\ EpochOK  BY DEF RetInv, Shared
  <1>3. PICK n \in Epochs : n = host.epoch  BY <1>2 DEF Typed, HostRecords
  <1>4. auth' = [auth EXCEPT !.epoch = n]  BY <1>1, <1>3
  <1>5. /\ auth' \in AuthRecords /\ auth'.epoch = n /\ auth'.state = auth.state
        /\ auth'.through = auth.through
    BY <1>2, <1>4 DEF Typed, AuthRecords
  <1>6. host' \in HostRecords /\ host'.epoch = host.epoch /\ host'.saved = host.saved
    BY <1>1, <1>2 DEF Typed, HostRecords
  <1>7. EpochOK' /\ auth.epoch <= auth'.epoch
    BY <1>1, <1>2, <1>3, <1>5, <1>6, EpochFacts DEF EpochOK
  <1>8. SameRecord /\ rec' \in RecRecords /\ check' \in CheckRecords
    BY <1>1, <1>2 DEF SameRecord, Typed
  <1> QED BY <1>1, <1>5, <1>6, <1>7, <1>8, StartFramed

(* The checkpoint follows the authority file.                              *)
LEMMA StartedStep ==
    ASSUME RetInv, Started
    PROVE  RetInv'
  <1>1. /\ host' = [host EXCEPT !.pc = "up"]
        /\ check' = [epoch |-> auth.epoch, through |-> auth.through]
        /\ UNCHANGED <<db, net, answers, rec, wk, auth, disk, vm, gd, faults>>
    BY DEF Started
  <1>2. Typed /\ EpochOK  BY DEF RetInv, Shared
  <1>3. host' \in HostRecords /\ host'.epoch = host.epoch /\ host'.saved = host.saved
    BY <1>1, <1>2 DEF Typed, HostRecords
  <1>4. check' \in CheckRecords /\ check'.epoch = auth.epoch /\ check'.through = auth.through
    BY <1>1, <1>2 DEF Typed, AuthRecords, CheckRecords
  <1>5. EpochOK' /\ auth.epoch <= auth'.epoch
    BY <1>1, <1>2, <1>3, <1>4, EpochFacts DEF EpochOK
  <1>6. SameRecord /\ rec' \in RecRecords /\ auth' \in AuthRecords
    BY <1>1, <1>2 DEF SameRecord, Typed
  <1> QED BY <1>1, <1>3, <1>4, <1>5, <1>6, StartFramed

-----------------------------------------------------------------------------
(* The database and the controller.                                        *)

RequestOK(m) ==
    /\ m.kind = "retire" => m.req \in Requests /\ Below(m.req, RetireClaim)
    /\ m.kind = "forget" => m.meta = db.done /\ db.done # NoReq

(* A transaction keeps the invariant if claims only grow, and a completion *)
(* it records is true of the host.                                         *)
LEMMA DbFramed ==
    ASSUME RetInv, UNCHANGED <<answers, host, check, rec, wk, auth, disk, vm, gd, faults>>,
           db' \in DbRecords,
           db'.repoch <= db'.epoch, db'.epoch <= host.epoch,
           db.rev <= db'.rev, db.repoch <= db'.repoch,
           db'.lease => db'.done = NoReq, db'.forgotten => Closed,
           \/ db'.done = db.done
           \/ db.done = NoReq /\ db'.done # NoReq /\ DoneOK',
           \A m \in net' : m \in net \/ RequestOK(m)'
    PROVE  RetInv'
  <1>1. Typed /\ EpochOK /\ DbOK /\ AuthOK /\ RecordOK /\ PlanOK /\ NetOK /\ AnswersOK
    BY DEF RetInv, Shared, Messages
  <1>2. Typed'  BY <1>1 DEF Typed
  <1>3. EpochOK'  BY <1>1 DEF EpochOK
  <1>4. Below(RetireClaim, RetireClaim')
    <2>1. RetireClaim = [rev |-> db.rev, epoch |-> db.repoch]
          /\ RetireClaim' = [rev |-> db'.rev, epoch |-> db'.repoch]
      BY DEF RetireClaim
    <2> QED BY <2>1 DEF Below
  <1>5. ASSUME NEW q \in Requests, Below(q, RetireClaim) PROVE Below(q, RetireClaim')
    <2>1. RetireClaim \in Requests /\ RetireClaim' \in Requests
      BY <1>1, RetirementAssumption DEF Typed, RetireClaim, Requests, DbRecords
    <2>2. PICK c : c = RetireClaim  OBVIOUS
    <2>3. PICK d : d = RetireClaim'  OBVIOUS
    <2>4. \A p \in Requests : p.rev \in Nat /\ p.epoch \in Nat
      BY RetirementAssumption DEF Requests
    <2>5. Below(q, d)  BY <1>4, <1>5, <2>1, <2>2, <2>3, <2>4, BelowTransitive
    <2> QED BY <2>3, <2>5
  <1>6. AuthOK' /\ PlanOK'  BY <1>1 DEF AuthOK, PlanOK, LifecycleFree
  <1>7. RecordOK'
    <2>1. rec.ret \in Requests  BY <1>1 DEF Typed, RecRecords
    <2> QED BY <1>1, <1>5, <2>1 DEF RecordOK
  <1>8. (Closed' <=> Closed) /\ (Gone' <=> Gone) /\ (Completed' <=> Completed)
    BY DEF Closed, Gone, Down, Completed
  <1>9. DbOK'
    <2>1. CASE db'.done = db.done
      <3>1. DoneOK' <=> DoneOK  BY <1>8, <2>1 DEF DoneOK
      <3> QED BY <1>1, <1>8, <2>1, <3>1 DEF DbOK
    <2>2. CASE db.done = NoReq /\ db'.done # NoReq /\ DoneOK'
      BY <1>1, <1>8, <2>2 DEF DbOK
    <2> QED BY <2>1, <2>2
  <1>10. NetOK'
    <2>1. ASSUME NEW m \in net PROVE RequestOK(m)'
      BY <1>1, <1>5 DEF NetOK, RequestOK
    <2>2. \A m \in net' : RequestOK(m)'  BY <2>1
    <2> QED BY <2>2 DEF NetOK, RequestOK
  <1>11. AnswersOK'  BY <1>1, <1>8 DEF AnswersOK, AnswerOK
  <1>12. \A v \in Workers : Undisturbed(wk[v])
    BY <1>4 DEF Undisturbed, SameRecord, LifecycleFree
  <1>13. Threads'  BY <1>12, ThreadsStay
  <1> QED BY <1>2, <1>3, <1>6, <1>7, <1>9, <1>10, <1>11, <1>13
          DEF RetInv, Shared, Messages

(* A transaction that leaves claims, completion and forgetting alone.      *)
LEMMA DbNotes ==
    ASSUME RetInv, UNCHANGED <<answers, host, check, rec, wk, auth, disk, vm, gd, faults>>,
           db' \in DbRecords, db'.epoch = db.epoch \/ db'.epoch = host.epoch,
           db'.rev = db.rev, db'.repoch = db.repoch, db'.lease => db.lease,
           db'.done = db.done, db'.forgotten = db.forgotten,
           \A m \in net' : m \in net \/ RequestOK(m)'
    PROVE  RetInv'
  <1>1. Typed /\ EpochOK /\ DbOK  BY DEF RetInv, Shared
  <1>2. db'.repoch <= db'.epoch /\ db'.epoch <= host.epoch
        /\ db.rev <= db'.rev /\ db.repoch <= db'.repoch
    <2>1. db.rev \in Nat  BY <1>1, ClaimFacts DEF Typed
    <2> QED BY <1>1, <2>1, EpochFacts DEF EpochOK
  <1>3. db'.lease => db'.done = NoReq  BY <1>1 DEF DbOK
  <1>4. db'.forgotten => Closed  BY <1>1 DEF DbOK
  <1> QED BY <1>2, <1>3, <1>4, DbFramed

(* Messages of other kinds.                                                *)
LEMMA OtherRequest ==
    ASSUME NEW m, m.kind \notin {"retire", "forget"}
    PROVE  RequestOK(m)'
  BY DEF RequestOK

(* Registration, create, stop and release.                                 *)
LEMMA NoteSteps ==
    ASSUME RetInv,
           \/ Activate \/ SendRegistration \/ RecordRegistration
           \/ SendCreate \/ SendStop \/ RecordRelease \/ Lapse
    PROVE  RetInv'
  <1>1. db \in DbRecords /\ host.epoch \in Epochs
    BY DEF RetInv, Typed, HostRecords
  <1>2. CASE Activate
    <2>1. db' = [db EXCEPT !.epoch = host.epoch]
          /\ UNCHANGED <<net, answers, host, check, rec, wk, auth, disk, vm, gd, faults>>
      BY <1>2 DEF Activate
    <2>2. PICK n \in Epochs : n = host.epoch  BY <1>1
    <2>3. db' = [db EXCEPT !.epoch = n]  BY <2>1, <2>2
    <2>4. /\ db' \in DbRecords /\ db'.epoch = host.epoch /\ db'.rev = db.rev
          /\ db'.repoch = db.repoch /\ db'.lease = db.lease /\ db'.done = db.done
          /\ db'.forgotten = db.forgotten
      BY <1>1, <2>2, <2>3 DEF DbRecords
    <2> QED BY <2>1, <2>4, DbNotes
  <1>3. CASE SendRegistration
    <2>1. PICK m : m = Registration(db.epoch)  OBVIOUS
    <2>2. RequestOK(m)'
      <3>1. m.kind = "register"  BY <2>1 DEF Registration
      <3> QED BY <3>1, OtherRequest
    <2>3. \A n \in net' : n \in net \/ RequestOK(n)'
      BY <1>3, <2>1, <2>2 DEF SendRegistration
    <2> QED BY <1>1, <1>3, <2>3, DbNotes DEF SendRegistration
  <1>4. CASE RecordRegistration
    <2>1. db' = [db EXCEPT !.registered = 1]
          /\ UNCHANGED <<net, answers, host, check, rec, wk, auth, disk, vm, gd, faults>>
      BY <1>4 DEF RecordRegistration
    <2>2. PICK n \in 0..1 : n = 1  OBVIOUS
    <2>3. db' = [db EXCEPT !.registered = n]  BY <2>1, <2>2
    <2>4. /\ db' \in DbRecords /\ db'.epoch = db.epoch /\ db'.rev = db.rev
          /\ db'.repoch = db.repoch /\ db'.lease = db.lease /\ db'.done = db.done
          /\ db'.forgotten = db.forgotten
      BY <1>1, <2>3 DEF DbRecords
    <2> QED BY <2>1, <2>4, DbNotes
  <1>5. CASE SendCreate
    <2>1. db' = [db EXCEPT !.sent = TRUE] /\ net' = net \union {Msg("create")}
          /\ UNCHANGED <<answers, host, check, rec, wk, auth, disk, vm, gd, faults>>
      BY <1>5 DEF SendCreate
    <2>2. /\ db' \in DbRecords /\ db'.epoch = db.epoch /\ db'.rev = db.rev
          /\ db'.repoch = db.repoch /\ db'.lease = db.lease /\ db'.done = db.done
          /\ db'.forgotten = db.forgotten
      BY <1>1, <2>1 DEF DbRecords
    <2>3. RequestOK(Msg("create"))'
      <3>1. Msg("create").kind = "create"  BY DEF Msg
      <3> QED BY <3>1, OtherRequest
    <2> QED BY <2>1, <2>2, <2>3, DbNotes
  <1>6. CASE SendStop
    <2>1. RequestOK(Msg("stop"))'
      <3>1. Msg("stop").kind = "stop"  BY DEF Msg
      <3> QED BY <3>1, OtherRequest
    <2> QED BY <1>1, <1>6, <2>1, DbNotes DEF SendStop
  <1>7. CASE RecordRelease
    <2>1. db' = [db EXCEPT !.released = TRUE]
          /\ UNCHANGED <<net, answers, host, check, rec, wk, auth, disk, vm, gd, faults>>
      BY <1>7 DEF RecordRelease
    <2>2. /\ db' \in DbRecords /\ db'.epoch = db.epoch /\ db'.rev = db.rev
          /\ db'.repoch = db.repoch /\ db'.lease = db.lease /\ db'.done = db.done
          /\ db'.forgotten = db.forgotten
      BY <1>1, <2>1 DEF DbRecords
    <2> QED BY <2>1, <2>2, DbNotes
  <1>8. CASE Lapse
    <2>1. UNCHANGED <<net, answers, host, check, rec, wk, auth, disk, vm, gd, faults>>
      BY <1>8 DEF Lapse
    <2>2. db' = [db EXCEPT !.lease = FALSE] \/ db' = [db EXCEPT !.flease = FALSE]
      BY <1>8 DEF Lapse
    <2>3. /\ db' \in DbRecords /\ db'.epoch = db.epoch /\ db'.rev = db.rev
          /\ db'.repoch = db.repoch /\ (db'.lease => db.lease) /\ db'.done = db.done
          /\ db'.forgotten = db.forgotten
      <3>1. CASE db' = [db EXCEPT !.lease = FALSE]  BY <1>1, <3>1 DEF DbRecords
      <3>2. CASE db' = [db EXCEPT !.flease = FALSE]  BY <1>1, <3>2 DEF DbRecords
      <3> QED BY <2>2, <3>1, <3>2
    <2> QED BY <2>1, <2>3, DbNotes
  <1> QED BY <1>2, <1>3, <1>4, <1>5, <1>6, <1>7, <1>8

(* The next revision under a bound.                                        *)
LEMMA FollowingFacts ==
    ASSUME NEW limit \in Nat, NEW rev \in 0..limit
    PROVE  Following(rev, limit) \in 0..limit /\ rev <= Following(rev, limit)
  BY DEF Following

(* A retirement claim: its request is the row's claim, which no earlier    *)
(* one exceeds.                                                            *)
LEMMA PrepareRetirementStep ==
    ASSUME RetInv, PrepareRetirement
    PROVE  RetInv'
  <1>1. Typed /\ EpochOK /\ DbOK  BY DEF RetInv, Shared
  <1>2. db.rev \in 0..MaxClaims /\ db.epoch \in 0..MaxEpoch /\ db \in DbRecords
    BY <1>1, RetirementAssumption DEF Typed, DbRecords, Epochs
  <1>3. PICK r : r = Following(db.rev, MaxClaims)  OBVIOUS
  <1>4. r \in 0..MaxClaims /\ db.rev <= r
    BY <1>2, <1>3, FollowingFacts, RetirementAssumption
  <1>5. PICK e : e = db.epoch  OBVIOUS
  <1>6. PICK req : req = [rev |-> r, epoch |-> e]  OBVIOUS
  <1>7. PICK m : m = [kind |-> "retire", req |-> req]  OBVIOUS
  <1>8. /\ db.done = NoReq
        /\ db' = [db EXCEPT !.rev = r, !.repoch = e, !.lease = TRUE]
        /\ net' = net \union {m}
        /\ UNCHANGED <<answers, host, check, rec, wk, auth, disk, vm, gd, faults>>
    BY <1>3, <1>5, <1>6, <1>7 DEF PrepareRetirement
  <1>9. /\ db' \in DbRecords /\ db'.rev = r /\ db'.repoch = e /\ db'.lease
        /\ db'.epoch = db.epoch /\ db'.done = db.done /\ db'.forgotten = db.forgotten
    BY <1>2, <1>4, <1>5, <1>8 DEF DbRecords
  <1>10. RequestOK(m)'
    <2>1. m.kind = "retire" /\ m.req = req  BY <1>7
    <2>2. req \in Requests  BY <1>2, <1>4, <1>5, <1>6 DEF Requests
    <2>3. RetireClaim' = req  BY <1>6, <1>9 DEF RetireClaim
    <2>4. Below(req, req)  BY <2>2, RetirementAssumption DEF Requests, Below
    <2> QED BY <2>1, <2>2, <2>3, <2>4 DEF RequestOK
  <1>11. db'.repoch <= db'.epoch /\ db'.epoch <= host.epoch /\ db.repoch <= db'.repoch
    BY <1>1, <1>5, <1>9, EpochFacts DEF EpochOK
  <1>12. db'.forgotten => Closed  BY <1>1, <1>9 DEF DbOK
  <1>13. \A n \in net' : n \in net \/ RequestOK(n)'  BY <1>8, <1>10
  <1> QED BY <1>4, <1>8, <1>9, <1>11, <1>12, <1>13, DbFramed

(* Completion: the claim the reply names is the row's and, being neither   *)
(* earlier nor later than it, the record's.                                *)
LEMMA CompleteRetirementStep ==
    ASSUME RetInv, CompleteRetirement
    PROVE  RetInv'
  <1>1. Typed /\ EpochOK /\ DbOK /\ RecordOK /\ AnswersOK  BY DEF RetInv, Shared, Messages
  <1>2. PICK q : q = RetireClaim  OBVIOUS
  <1>3. /\ db.lease /\ [kind |-> "removed", req |-> q] \in answers
        /\ db' = [db EXCEPT !.done = q, !.lease = FALSE]
        /\ UNCHANGED <<net, answers, host, check, rec, wk, auth, disk, vm, gd, faults>>
    BY <1>2 DEF CompleteRetirement
  <1>4. q \in Requests /\ q.rev = db.rev /\ q.epoch = db.repoch
    BY <1>1, <1>2, ClaimFacts DEF Typed
  <1>5. /\ db' \in DbRecords /\ db'.rev = db.rev /\ db'.repoch = db.repoch
        /\ ~db'.lease /\ db'.epoch = db.epoch /\ db'.done = q
        /\ db'.forgotten = db.forgotten
    BY <1>1, <1>3, <1>4 DEF Typed, DbRecords
  <1>6. db.done = NoReq  BY <1>1, <1>3 DEF DbOK
  <1>7. AnswerOK(q)
    <2>1. PICK m : m = [kind |-> "removed", req |-> q]  OBVIOUS
    <2>2. m \in answers /\ m.kind = "removed" /\ m.req = q  BY <1>3, <2>1
    <2> QED BY <1>1, <2>2 DEF AnswersOK
  <1>8. ~Completed  BY <1>1, <1>6 DEF DbOK, Completed
  <1>9. Gone /\ rec.present /\ Below(q, rec.ret) /\ rec.plan = "removed"
    BY <1>7, <1>8 DEF AnswerOK
  <1>10. rec.ret # NoReq /\ Below(rec.ret, q) /\ rec.ret \in Requests
    BY <1>1, <1>2, <1>9 DEF RecordOK, Typed, RecRecords
  <1>11. rec.ret = q
    <2>1. \A p \in Requests : p.rev \in Nat /\ p.epoch \in Nat
      BY RetirementAssumption DEF Requests
    <2>2. PICK s \in Requests : s = rec.ret  BY <1>10
    <2>3. s.rev = q.rev /\ s.epoch = q.epoch
      BY <1>4, <1>9, <1>10, <2>1, <2>2 DEF Below
    <2>4. s = q  BY <1>4, <2>3 DEF Requests
    <2> QED BY <2>2, <2>4
  <1>12. DoneOK' /\ db'.done # NoReq
    <2>1. Gone'  BY <1>3, <1>9 DEF Gone, Down
    <2> QED BY <1>3, <1>5, <1>9, <1>10, <1>11, <2>1 DEF DoneOK
  <1>13. db'.repoch <= db'.epoch /\ db'.epoch <= host.epoch /\ db.rev <= db'.rev
         /\ db.repoch <= db'.repoch
    <2>1. db.rev \in Nat  BY <1>1, ClaimFacts DEF Typed
    <2> QED BY <1>1, <1>5, <2>1, EpochFacts DEF EpochOK
  <1>14. db'.forgotten => Closed  BY <1>1, <1>5 DEF DbOK
  <1> QED BY <1>3, <1>5, <1>6, <1>12, <1>13, <1>14, DbFramed

(* A forgetting claim carries the completion of the row.                   *)
LEMMA PrepareForgettingStep ==
    ASSUME RetInv, PrepareForgetting
    PROVE  RetInv'
  <1>1. db \in DbRecords  BY DEF RetInv, Typed
  <1>2. db.frev \in 0..MaxForgets /\ db.epoch \in 0..MaxEpoch
    BY <1>1, RetirementAssumption DEF DbRecords, Epochs
  <1>3. PICK r : r = Following(db.frev, MaxForgets)  OBVIOUS
  <1>4. r \in 0..MaxForgets  BY <1>2, <1>3, FollowingFacts, RetirementAssumption
  <1>5. PICK e : e = db.epoch  OBVIOUS
  <1>6. PICK m : m = [kind |-> "forget", meta |-> db.done,
                      req |-> [rev |-> r, epoch |-> e]]
    OBVIOUS
  <1>7. /\ db.done # NoReq
        /\ db' = [db EXCEPT !.frev = r, !.fepoch = e, !.flease = TRUE]
        /\ net' = net \union {m}
        /\ UNCHANGED <<answers, host, check, rec, wk, auth, disk, vm, gd, faults>>
    BY <1>3, <1>5, <1>6 DEF PrepareForgetting
  <1>8. /\ db' \in DbRecords /\ db'.rev = db.rev /\ db'.repoch = db.repoch
        /\ db'.lease = db.lease /\ db'.epoch = db.epoch /\ db'.done = db.done
        /\ db'.forgotten = db.forgotten
    BY <1>1, <1>2, <1>4, <1>5, <1>7 DEF DbRecords
  <1>9. RequestOK(m)'
    <2>1. m.kind = "forget" /\ m.meta = db.done  BY <1>6
    <2> QED BY <1>7, <1>8, <2>1 DEF RequestOK
  <1>10. \A n \in net' : n \in net \/ RequestOK(n)'  BY <1>7, <1>9
  <1> QED BY <1>7, <1>8, <1>10, DbNotes

(* Completion of forgetting: the host has closed the serial.               *)
LEMMA CompleteForgettingStep ==
    ASSUME RetInv, CompleteForgetting
    PROVE  RetInv'
  <1>1. Typed /\ EpochOK /\ DbOK /\ AnswersOK  BY DEF RetInv, Shared, Messages
  <1>2. PICK q : q = ForgetClaim  OBVIOUS
  <1>3. /\ [kind |-> "forgotten", req |-> q] \in answers
        /\ db' = [db EXCEPT !.forgotten = TRUE, !.flease = FALSE]
        /\ UNCHANGED <<net, answers, host, check, rec, wk, auth, disk, vm, gd, faults>>
    BY <1>2 DEF CompleteForgetting
  <1>4. Closed
    <2>1. PICK m : m = [kind |-> "forgotten", req |-> q]  OBVIOUS
    <2>2. m \in answers /\ m.kind = "forgotten"  BY <1>3, <2>1
    <2> QED BY <1>1, <2>2 DEF AnswersOK
  <1>5. /\ db' \in DbRecords /\ db'.rev = db.rev /\ db'.repoch = db.repoch
        /\ db'.lease = db.lease /\ db'.epoch = db.epoch /\ db'.done = db.done
    BY <1>1, <1>3 DEF Typed, DbRecords
  <1>6. db'.repoch <= db'.epoch /\ db'.epoch <= host.epoch /\ db.rev <= db'.rev
        /\ db.repoch <= db'.repoch
    <2>1. db.rev \in Nat  BY <1>1, ClaimFacts DEF Typed
    <2> QED BY <1>1, <1>5, <2>1, EpochFacts DEF EpochOK
  <1>7. db'.lease => db'.done = NoReq  BY <1>1, <1>5 DEF DbOK
  <1> QED BY <1>3, <1>4, <1>5, <1>6, <1>7, DbFramed

-----------------------------------------------------------------------------
(* The invariant.                                                          *)

(* The invariant holds initially.                                          *)
LEMMA RetirementInitially ==
    ASSUME Init
    PROVE  RetInv
  <1>1. /\ db = [epoch |-> 1, registered |-> 0, sent |-> FALSE, released |-> FALSE,
                 rev |-> 0, repoch |-> 0, lease |-> FALSE, done |-> NoReq,
                 frev |-> 0, fepoch |-> 0, flease |-> FALSE, forgotten |-> FALSE]
        /\ net = {} /\ answers = {} /\ host = [pc |-> "up", epoch |-> 1, saved |-> 1]
        /\ check = [epoch |-> 1, through |-> 0] /\ rec = NoRecord
        /\ wk = [w \in Workers |-> Idle]
        /\ auth = [epoch |-> 1, through |-> 0, state |-> "none"]
        /\ disk = NoDirectory /\ vm = "none" /\ gd = "none" /\ faults = 0
    BY DEF Init
  <1>2. 1 \in Epochs /\ 0 \in 0..MaxClaims /\ 0 \in 0..MaxForgets /\ 0 \in 0..MaxEpoch
        /\ 0 \in 0..MaxFaults /\ 0 \in 0..1
    BY RetirementAssumption DEF Epochs
  <1>3. db \in DbRecords  BY <1>1, <1>2, NoReqFacts DEF DbRecords
  <1>4. host \in HostRecords /\ check \in CheckRecords /\ auth \in AuthRecords
    BY <1>1, <1>2 DEF HostRecords, CheckRecords, AuthRecords
  <1>5. disk \in DiskRecords /\ ~disk.dir /\ disk.files = {}
    BY <1>1 DEF NoDirectory, DiskRecords
  <1>6. wk \in [Workers -> WkRecords] /\ \A w \in Workers : wk[w].pc = "idle"
    BY <1>1, NoReqFacts
  <1>7. Typed  BY <1>1, <1>2, <1>3, <1>4, <1>5, <1>6, NoReqFacts DEF Typed
  <1>8. EpochOK  BY <1>1 DEF EpochOK
  <1>9. DbOK  BY <1>1 DEF DbOK, Closed
  <1>10. AuthOK  BY <1>1 DEF AuthOK
  <1>11. RecordOK  BY <1>1, NoReqFacts DEF RecordOK
  <1>12. PlanOK  BY <1>1, <1>5, NoReqFacts DEF PlanOK
  <1>13. Messages  BY <1>1 DEF Messages, NetOK, AnswersOK
  <1>14. \A w \in Workers : WkOK(wk[w])  BY <1>6 DEF WkOK, Sharing
  <1>15. GateOK  BY <1>6 DEF GateOK, GateHeld
  <1> QED BY <1>7, <1>8, <1>9, <1>10, <1>11, <1>12, <1>13, <1>14, <1>15
          DEF RetInv, Shared, Threads

(* A stuttering step.                                                      *)
LEMMA RetirementStutters ==
    ASSUME RetInv, UNCHANGED vars
    PROVE  RetInv'
  <1>1. UNCHANGED <<answers, host, check, rec, wk, auth, disk, vm, gd, faults>>
        /\ UNCHANGED <<db, net>>
    BY DEF vars
  <1>2. db \in DbRecords  BY DEF RetInv, Typed
  <1> QED BY <1>1, <1>2, DbNotes

(* Every step of every process keeps the invariant.                        *)
LEMMA RetirementSteps ==
    ASSUME RetInv, [Next]_vars
    PROVE  RetInv'
  <1>1. ASSUME NEW w \in Workers, HostStep(w) PROVE RetInv'
    BY <1>1, CreateBeginStep, CreateAdmitStep, CreatePrepareStep, CreateFailsStep,
       CreateDispatchStep, CreateReturnStep, StopBeginStep, StopLockedStep, ObserveStep,
       ObserveTornStep, FenceRecordStep, FenceRootStep, OpenSessionStep, RemoveNextStep,
       RemovedStep, ForgetStep, RegisterRootStep, RegisterCheckStep DEF HostStep
  <1>2. CASE DatabaseStep
    BY <1>2, NoteSteps, PrepareRetirementStep, CompleteRetirementStep,
       PrepareForgettingStep, CompleteForgettingStep DEF DatabaseStep
  <1> QED BY <1>1, <1>2, GuardianSteps, CrashStep, LoadStep, AdvanceEpochStep, StartedStep,
             RetirementStutters DEF Next

(* The inductive invariant of Retirement.                                  *)
THEOREM RetirementInvariant == Spec => []RetInv
  <1>1. Init => RetInv  BY RetirementInitially
  <1>2. RetInv /\ [Next]_vars => RetInv'  BY RetirementSteps
  <1> QED BY <1>1, <1>2, PTL DEF Spec

(* Each variable keeps its type: revisions, epochs and faults stay within  *)
(* their bounds, and every process is at one of its places.                *)
THEOREM RetirementTypeCorrect == Spec => []TypeOK
  <1>1. RetInv => TypeOK
    <2>1. SUFFICES ASSUME Typed PROVE TypeOK  BY DEF RetInv
    <2>2. /\ {db.sent, db.released, db.lease, db.flease, db.forgotten} \subseteq BOOLEAN
          /\ db.rev \in 0..MaxClaims /\ db.frev \in 0..MaxForgets /\ db.done \in Requests
          /\ db.epoch \in 1..MaxEpoch /\ db.registered \in 0..1
      BY <2>1 DEF Typed, DbRecords, Epochs
    <2>3. /\ host.epoch \in 1..MaxEpoch /\ host.saved \in 1..MaxEpoch
          /\ check.epoch \in 1..MaxEpoch /\ auth.epoch \in 1..MaxEpoch
          /\ host.pc \in {"up", "down", "loaded", "advanced"}
          /\ check.through \in 0..1 /\ auth.through \in 0..1
          /\ auth.state \in {"none", "active", "fenced", "complete"}
      BY <2>1 DEF Typed, HostRecords, CheckRecords, AuthRecords, Epochs
    <2>4. wk \in [Workers -> [req : Requests, stop : BOOLEAN,
                              pc : Sharing \union GateHeld \union
                                   {"idle", "gate", "reopen", "check"}]]
      BY <2>1 DEF Typed, WkRecords
    <2> QED BY <2>1, <2>2, <2>3, <2>4 DEF TypeOK, Typed, RecRecords, DiskRecords
  <1> QED BY <1>1, RetirementInvariant, PTL

(* Completion and forgetting in the database are true of the host, however *)
(* claims lapse, answers are lost or the host restarts.                    *)
THEOREM CompletionsStayReal == Spec => []CompletionsAreReal
  <1>1. RetInv => CompletionsAreReal
    <2>1. SUFFICES ASSUME RetInv PROVE CompletionsAreReal  OBVIOUS
    <2>2. DbOK /\ PlanOK  BY <2>1 DEF RetInv, Shared
    <2>3. CompletionIsReal  BY <2>2 DEF CompletionIsReal, DbOK, DoneOK, Gone, Down
    <2>4. Closed => ~rec.present  BY <2>2 DEF PlanOK, Closed
    <2>5. rec.present /\ db.done # NoReq => rec.ret = db.done /\ rec.plan = "removed"
      BY <2>2 DEF DbOK, DoneOK, Completed
    <2>6. ForgottenIsCompleted  BY <2>2, <2>4, <2>5 DEF ForgottenIsCompleted, DbOK
    <2> QED BY <2>3, <2>6 DEF CompletionsAreReal
  <1> QED BY <1>1, RetirementInvariant, PTL

(* Wherever the host process ends, the journal, the authority file and the *)
(* directory it leaves are accepted by the next start.                     *)
THEOREM AlwaysRestartable == Spec => []Restartable
  <1>1. RetInv => RetainedValid
    <2>1. SUFFICES ASSUME RetInv PROVE RetainedValid  OBVIOUS
    <2>2. Typed /\ EpochOK /\ RecordOK /\ PlanOK  BY <2>1 DEF RetInv, Shared
    <2>3. auth.epoch >= check.epoch /\ auth.through >= check.through
      BY <2>2, EpochFacts DEF EpochOK
    <2>4. rec.present => /\ rec.dispatched => rec.manifest
                         /\ rec.released => rec.stopped /\ rec.manifest
                         /\ (rec.released /\ rec.plan = "none")
                               => disk.receipt = "stopped" /\ "receipt" \in disk.files
      BY <2>2 DEF RecordOK, PlanOK
    <2>5. rec.plan # "none" => rec.ret # NoReq  BY <2>2 DEF RecordOK
    <2>6. ASSUME rec.ret # NoReq
          PROVE  /\ rec.ret.epoch <= auth.epoch /\ Scope
                 /\ CASE rec.plan = "none" -> auth.state \in {"active", "fenced"}
                      [] rec.plan = "saved" -> /\ auth.state = "fenced" /\ vm = "none"
                                               /\ LifecycleFree /\ Inventory
                      [] OTHER -> /\ auth.state \in {"fenced", "complete"}
                                  /\ ~disk.dir /\ vm = "none"
      <3>1. rec.ret.epoch <= auth.epoch /\ Scope  BY <2>2, <2>6 DEF RecordOK, Scope
      <3>2. rec.present  BY <2>2, <2>6, NoReqFacts DEF RecordOK
      <3>3. auth.state \in {"none", "active", "fenced", "complete"}
            /\ rec.plan \in {"none", "saved", "removed"}
        BY <2>2 DEF Typed, AuthRecords, RecRecords
      <3>4. CASE rec.plan = "none"
        <4>1. auth.state \in {"active", "fenced"}
          BY <2>2, <3>2, <3>3, <3>4 DEF PlanOK
        <4> QED BY <3>1, <3>4, <4>1
      <3>5. CASE rec.plan = "saved"
        <4>1. auth.state = "fenced" /\ vm = "none" /\ LifecycleFree /\ Inventory
          BY <2>2, <3>5 DEF PlanOK, Inventory
        <4> QED BY <3>1, <3>5, <4>1
      <3>6. CASE rec.plan = "removed"
        <4>1. auth.state \in {"fenced", "complete"} /\ ~disk.dir /\ vm = "none"
          BY <2>2, <3>6 DEF PlanOK
        <4> QED BY <3>1, <3>6, <4>1
      <3> QED BY <3>3, <3>4, <3>5, <3>6
    <2> QED BY <2>3, <2>4, <2>5, <2>6 DEF RetainedValid
  <1>2. RetInv => Restartable  BY <1>1 DEF Restartable
  <1> QED BY <1>2, RetirementInvariant, PTL

(* What a step may do to a serial that is down.                            *)
StaysDown == /\ vm' # vm => vm' = "none" \/ vm = "live"
             /\ disk'.files \subseteq disk.files

(* Steps of the host after the fence.                                      *)
LEMMA DownHostStep ==
    ASSUME RetInv, Down, NEW w \in Workers, HostStep(w)
    PROVE  StaysDown
  <1>1. CASE UNCHANGED <<disk, vm>>  BY <1>1 DEF StaysDown
  <1>2. CASE CreatePrepare(w)
    <2>1. wk[w].pc = "prepare" /\ WkOK(wk[w])
      BY <1>2 DEF CreatePrepare, RetInv, Threads
    <2>2. auth.state = "active"  BY <2>1 DEF WkOK, Sharing
    <2> QED BY <2>2 DEF Down
  <1>3. CASE Observe(w) /\ rec.manifest /\ CanFence /\ disk' = StoppedDisk /\ vm' = "none"
    <2>1. "receipt" \in disk.files  BY <1>3 DEF CanFence, MayCreate, Down
    <2>2. disk'.files = disk.files  BY <1>3, <2>1 DEF StoppedDisk
    <2> QED BY <1>3, <2>2 DEF StaysDown
  <1>4. CASE ObserveTorn(w)
    <2>1. CanFence /\ disk.files \subseteq {"lock"}  BY <1>4 DEF ObserveTorn
    <2>2. "receipt" \notin disk.files  BY <2>1
    <2>3. auth.state = "active"  BY <2>1, <2>2 DEF CanFence, MayCreate
    <2> QED BY <2>3 DEF Down
  <1>5. CASE RemoveNext(w)
    <2>1. disk \in DiskRecords /\ vm' = vm  BY <1>5 DEF RetInv, Typed, RemoveNext
    <2>2. CASE disk' = NoDirectory  BY <2>1, <2>2 DEF NoDirectory, StaysDown
    <2>3. CASE \E x : disk' = [disk EXCEPT !.files = @ \ {x}]
      BY <2>1, <2>3 DEF DiskRecords, StaysDown
    <2> QED BY <1>5, <2>2, <2>3 DEF RemoveNext
  <1>6. Observe(w) => \/ UNCHANGED <<disk, vm>>
                      \/ rec.manifest /\ CanFence /\ disk' = StoppedDisk /\ vm' = "none"
    BY DEF Observe
  <1>7. \/ CreateBegin(w) \/ CreateAdmit(w) \/ CreateFails(w) \/ CreateDispatch(w)
        \/ CreateReturn(w) \/ StopBegin(w) \/ StopLocked(w) \/ FenceRecord(w)
        \/ FenceRoot(w) \/ OpenSession(w) \/ Removed(w) \/ Forget(w)
        \/ RegisterRoot(w) \/ RegisterCheck(w)
        => UNCHANGED <<disk, vm>>
    BY DEF CreateBegin, CreateAdmit, CreateFails, CreateDispatch, CreateReturn, StopBegin,
           StopLocked, FenceRecord, FenceRoot, OpenSession, Removed, Forget, RegisterRoot,
           RegisterCheck
  <1> QED BY <1>1, <1>2, <1>3, <1>4, <1>5, <1>6, <1>7 DEF HostStep

(* Steps of the guardian after the fence.                                  *)
LEMMA DownGuardianStep ==
    ASSUME RetInv, Down, GuardianStep
    PROVE  StaysDown
  <1>1. disk \in DiskRecords  BY DEF RetInv, Typed
  <1>2. CASE GuardianStart
    <2>1. ~Authorized  BY DEF Authorized, Down
    <2> QED BY <1>2, <2>1 DEF GuardianStart, StaysDown
  <1>3. CASE GuardianLaunch
    <2>1. auth.state = "active"  BY <1>3 DEF GuardianLaunch, RetInv, Shared, AuthOK
    <2> QED BY <2>1 DEF Down
  <1>4. CASE GuardianExit  BY <1>4 DEF GuardianExit, StaysDown
  <1>5. CASE GuardianReconcile
    <2>1. CASE UNCHANGED <<disk, vm>>  BY <2>1 DEF StaysDown
    <2>2. CASE disk' = [disk EXCEPT !.receipt = "stopped"] /\ vm' = "none"
      BY <1>1, <2>2 DEF DiskRecords, StaysDown
    <2> QED BY <1>5, <2>1, <2>2 DEF GuardianReconcile
  <1>6. CASE GuardianSpawn \/ GuardianInit
    BY <1>6 DEF GuardianSpawn, GuardianInit, StaysDown
  <1> QED BY <1>2, <1>3, <1>4, <1>5, <1>6 DEF GuardianStep

(* Once a serial is fenced or closed, no late create, no delayed guardian  *)
(* and no restart starts its machine or writes its directory again.        *)
THEOREM FencedIsForever == Spec => FencedStaysDown
  <1>1. ASSUME RetInv, Down, [Next]_vars PROVE StaysDown
    <2>1. CASE UNCHANGED vars  BY <2>1 DEF vars, StaysDown
    <2>2. CASE Crash \/ Load \/ AdvanceEpoch \/ Started
      BY <2>2 DEF Crash, Load, AdvanceEpoch, Started, StaysDown
    <2>3. CASE DatabaseStep
      BY <2>3 DEF DatabaseStep, Activate, SendRegistration, RecordRegistration, SendCreate,
                  SendStop, RecordRelease, PrepareRetirement, CompleteRetirement,
                  PrepareForgetting, CompleteForgetting, Lapse, StaysDown
    <2> QED BY <1>1, <2>1, <2>2, <2>3, DownHostStep, DownGuardianStep DEF Next
  <1>2. RetInv /\ [Next]_vars =>
          [auth.through = 1 /\ auth.state # "active"
             => /\ vm' # vm => vm' = "none" \/ vm = "live"
                /\ disk'.files \subseteq disk.files]_vars
    BY <1>1 DEF Down, StaysDown
  <1> QED BY <1>2, RetirementInvariant, PTL DEF Spec, FencedStaysDown

-----------------------------------------------------------------------------
(* Launch authority implements the contract of an allocation.              *)

(* The machine as the contract sees it: a stopped receipt or a fenced      *)
(* serial releases what does not run and keeps it from ever running.       *)
Settled == disk.receipt = "stopped" \/ Down
RuntimeState ==
    IF vm = "live" THEN "live" ELSE IF vm = "dead" THEN "ended"
    ELSE IF Settled THEN "released" ELSE "unstarted"
Runtime == INSTANCE AllocationRuntime WITH runtime <- RuntimeState

(* The guardian before its launch.                                         *)
Unlaunched == {"none", "spawned", "checked", "init", "locked"}

(* A machine lives with its guardian, and there is none before the launch. *)
MachineOK == /\ vm = "live" => gd = "running"
             /\ gd \in Unlaunched => vm = "none"

(* A stopped receipt is there for good, or the serial is fenced; staging   *)
(* never meets one.                                                        *)
StoppedOK ==
    /\ disk.receipt = "stopped" => Down \/ (rec.manifest /\ "receipt" \in disk.files)
    /\ \A w \in Workers : wk[w].pc = "prepare" => disk.receipt # "stopped"

LaunchInv == RetInv /\ MachineOK /\ StoppedOK

(* A step that the contract allows and that keeps the above.               *)
Follows == RuntimeState' = RuntimeState \/ Runtime!RuntimeNext
Keeps == MachineOK' /\ StoppedOK' /\ Follows

(* Which changes of machine and receipt the contract allows.               *)
LEMMA Allowed ==
    ASSUME vm \in {"none", "live", "dead"},
           vm = "live" => vm' \in {"live", "dead"},
           vm = "dead" => vm' = "dead" \/ (vm' = "none" /\ Settled'),
           vm = "none" => \/ vm' = "none" /\ (Settled => Settled')
                          \/ vm' = "live" /\ ~Settled
    PROVE  Follows
  <1>1. CASE vm = "live"
    BY <1>1 DEF Follows, RuntimeState, Runtime!RuntimeNext, Runtime!End
  <1>2. CASE vm = "dead"
    BY <1>2 DEF Follows, RuntimeState, Runtime!RuntimeNext, Runtime!Release
  <1>3. CASE vm = "none"
    BY <1>3 DEF Follows, RuntimeState, Runtime!RuntimeNext, Runtime!Release, Runtime!Launch
  <1> QED BY <1>1, <1>2, <1>3

(* Steps that leave the directory, the machine and the guardian alone.     *)
LEMMA QuietStep ==
    ASSUME LaunchInv, UNCHANGED <<disk, vm, gd>>, Down => Down',
           rec.manifest => rec'.manifest \/ Down',
           \A w \in Workers : wk'[w].pc = "prepare" => wk[w].pc = "prepare"
    PROVE  Keeps
  <1>1. vm \in {"none", "live", "dead"}  BY DEF LaunchInv, RetInv, Typed
  <1>2. Settled => Settled'  BY DEF Settled
  <1>3. Follows  BY <1>1, <1>2, Allowed
  <1>4. MachineOK'  BY DEF LaunchInv, MachineOK
  <1>5. StoppedOK'  BY DEF LaunchInv, StoppedOK
  <1> QED BY <1>3, <1>4, <1>5 DEF Keeps

(* A thread that does not begin to stage.                                  *)
LEMMA NotStaging ==
    ASSUME RetInv, NEW w \in Workers, NEW x, x.pc # "prepare", wk' = [wk EXCEPT ![w] = x]
    PROVE  \A v \in Workers : wk'[v].pc = "prepare" => wk[v].pc = "prepare"
  BY DEF RetInv, Typed

LEMMA StepNotStaging ==
    ASSUME RetInv, NEW w \in Workers,
           Finish(w) \/ \E pc \in Pcs \ {"prepare"} : Step(w, pc)
    PROVE  \A v \in Workers : wk'[v].pc = "prepare" => wk[v].pc = "prepare"
  <1>1. wk \in [Workers -> WkRecords]  BY DEF RetInv, Typed
  <1>2. CASE Finish(w)  BY <1>1, <1>2, FinishMoves DEF Moves
  <1>3. ASSUME NEW pc \in Pcs \ {"prepare"}, Step(w, pc)
        PROVE  \A v \in Workers : wk'[v].pc = "prepare" => wk[v].pc = "prepare"
    BY <1>1, <1>3, StepMoves DEF Moves
  <1> QED BY <1>2, <1>3

(* Requests of the host that touch neither the directory nor the guardian. *)
LEMMA HostQuiet ==
    ASSUME LaunchInv, NEW w \in Workers,
           \/ CreateBegin(w) \/ CreateFails(w) \/ CreateReturn(w) \/ StopBegin(w)
           \/ StopLocked(w) \/ FenceRecord(w) \/ OpenSession(w) \/ Removed(w)
           \/ RegisterCheck(w)
    PROVE  Keeps
  <1>1. UNCHANGED <<disk, vm, gd, auth>>
    BY DEF CreateBegin, CreateFails, CreateReturn, StopBegin, StopLocked, FenceRecord,
       OpenSession, Removed, RegisterCheck
  <1>2. rec \in RecRecords /\ (~rec.present => ~rec.manifest) /\ RetInv
    BY NoReqFacts DEF LaunchInv, RetInv, Typed, Shared, RecordOK
  <1>3. rec.manifest => rec'.manifest
    BY <1>2 DEF CreateBegin, CreateFails, CreateReturn, StopBegin, StopLocked, FenceRecord,
       OpenSession, Removed, RegisterCheck, RecRecords
  <1>4. \A v \in Workers : wk'[v].pc = "prepare" => wk[v].pc = "prepare"
    <2>1. Idle.pc = "idle" /\ Idle \in WkRecords  BY NoReqFacts
    <2>2. CASE FenceRecord(w)
      <3>1. PICK q : wk' = [wk EXCEPT ![w] = [Idle EXCEPT !.pc = "fence", !.req = q]]
        BY <2>2 DEF FenceRecord
      <3>2. [Idle EXCEPT !.pc = "fence", !.req = q].pc # "prepare"  BY <2>1 DEF WkRecords
      <3> QED BY <1>2, <3>1, <3>2, NotStaging
    <2>3. CASE StopBegin(w)
      <3>1. PICK s : wk' = [wk EXCEPT ![w] = [Idle EXCEPT !.pc = "gate", !.stop = s]]
        BY <2>3 DEF StopBegin
      <3>2. [Idle EXCEPT !.pc = "gate", !.stop = s].pc # "prepare"  BY <2>1 DEF WkRecords
      <3> QED BY <1>2, <3>1, <3>2, NotStaging
    <2>4. CASE ~FenceRecord(w) /\ ~StopBegin(w)
      <3>1. Finish(w) \/ Step(w, "create") \/ Step(w, "cleanup") \/ Step(w, "delete")
        BY <2>4 DEF CreateBegin, CreateFails, CreateReturn, StopLocked, OpenSession, Removed,
           RegisterCheck
      <3>2. {"create", "cleanup", "delete"} \subseteq Pcs \ {"prepare"}
        BY DEF Pcs, Sharing, GateHeld
      <3> QED BY <1>2, <3>1, <3>2, StepNotStaging
    <2> QED BY <2>2, <2>3, <2>4
  <1>5. Down => Down'  BY <1>1 DEF Down
  <1> QED BY <1>1, <1>3, <1>4, <1>5, QuietStep

(* Writes of the authority file.                                           *)
LEMMA AuthorityQuiet ==
    ASSUME LaunchInv, NEW w \in Workers, FenceRoot(w) \/ Forget(w) \/ RegisterRoot(w)
    PROVE  Keeps
  <1>1. UNCHANGED <<disk, vm, gd>>  BY DEF FenceRoot, Forget, RegisterRoot
  <1>2. RetInv /\ auth \in AuthRecords /\ (auth.through = 0 => auth.state = "none")
    BY DEF LaunchInv, RetInv, Typed, Shared, AuthOK
  <1>3. Down => Down'
    <2>1. CASE FenceRoot(w)  BY <1>2, <2>1 DEF FenceRoot, Down, AuthRecords
    <2>2. CASE Forget(w)
      <3>1. PICK n : auth' = [auth EXCEPT !.state = IF Closed \/ n = 3 THEN "none"
                                                    ELSE IF n > 0 THEN "complete" ELSE @]
        BY <2>2 DEF Forget
      <3> QED BY <1>2, <3>1 DEF Down, AuthRecords
    <2>3. CASE RegisterRoot(w)  BY <1>2, <2>3 DEF RegisterRoot, RegisterPermit, Down, AuthRecords
    <2> QED BY <2>1, <2>2, <2>3
  <1>4. rec.manifest => rec'.manifest \/ Down'
    <2>1. CASE Forget(w)
      <3>1. Closed \/ auth.state \in {"fenced", "complete"}  BY <2>1 DEF Forget
      <3>2. Down  BY <1>2, <3>1 DEF Down, Closed, AuthRecords
      <3> QED BY <1>3, <3>2
    <2>2. CASE ~Forget(w)  BY <2>2 DEF FenceRoot, RegisterRoot
    <2> QED BY <2>1, <2>2
  <1>5. \A v \in Workers : wk'[v].pc = "prepare" => wk[v].pc = "prepare"
    <2>1. wk' = wk \/ Finish(w) \/ Step(w, "reopen") \/ Step(w, "check")
      BY DEF FenceRoot, Forget, RegisterRoot
    <2>2. {"reopen", "check"} \subseteq Pcs \ {"prepare"}  BY DEF Pcs
    <2> QED BY <1>2, <2>1, <2>2, StepNotStaging
  <1> QED BY <1>1, <1>3, <1>4, <1>5, QuietStep

(* Starts and ends of the host, and the database.                          *)
LEMMA OutsideQuiet ==
    ASSUME LaunchInv, Crash \/ Load \/ AdvanceEpoch \/ Started \/ DatabaseStep \/ UNCHANGED vars
    PROVE  Keeps
  <1>1. UNCHANGED <<disk, vm, gd>>
    BY DEF Crash, Load, AdvanceEpoch, Started, DatabaseStep, Activate, SendRegistration,
       RecordRegistration, SendCreate, SendStop, RecordRelease, PrepareRetirement,
       CompleteRetirement, PrepareForgetting, CompleteForgetting, Lapse, vars
  <1>2. auth \in AuthRecords /\ rec \in RecRecords  BY DEF LaunchInv, RetInv, Typed
  <1>3. auth' = auth \/ \E e : auth' = [auth EXCEPT !.epoch = e]
    BY DEF Crash, Load, AdvanceEpoch, Started, DatabaseStep, Activate, SendRegistration,
       RecordRegistration, SendCreate, SendStop, RecordRelease, PrepareRetirement,
       CompleteRetirement, PrepareForgetting, CompleteForgetting, Lapse, vars
  <1>4. rec' = rec \/ \E b : rec' = [rec EXCEPT !.stopped = b]
    BY DEF Crash, Load, AdvanceEpoch, Started, DatabaseStep, Activate, SendRegistration,
       RecordRegistration, SendCreate, SendStop, RecordRelease, PrepareRetirement,
       CompleteRetirement, PrepareForgetting, CompleteForgetting, Lapse, vars
  <1>5. wk' = wk \/ wk' = [v \in Workers |-> Idle]
    BY DEF Crash, Load, AdvanceEpoch, Started, DatabaseStep, Activate, SendRegistration,
       RecordRegistration, SendCreate, SendStop, RecordRelease, PrepareRetirement,
       CompleteRetirement, PrepareForgetting, CompleteForgetting, Lapse, vars
  <1>6. Down => Down'  BY <1>2, <1>3 DEF Down, AuthRecords
  <1>7. rec.manifest => rec'.manifest  BY <1>2, <1>4 DEF RecRecords
  <1>8. \A v \in Workers : wk'[v].pc = "prepare" => wk[v].pc = "prepare"
    BY <1>5, NoReqFacts
  <1> QED BY <1>1, <1>6, <1>7, <1>8, QuietStep

(* An active serial is not down.                                           *)
LEMMA ActiveNotDown ==
    ASSUME auth.state = "active"
    PROVE  ~Down
  BY DEF Down

(* Staging of the directory, which begins before any receipt is stopped.   *)
LEMMA CreateAdmitKeeps ==
    ASSUME LaunchInv, NEW w \in Workers, CreateAdmit(w)
    PROVE  Keeps
  <1>1. RetInv /\ rec \in RecRecords /\ wk \in [Workers -> WkRecords]
        /\ vm \in {"none", "live", "dead"}
    BY DEF LaunchInv, RetInv, Typed
  <1>2. UNCHANGED <<disk, vm, gd, auth>>  BY DEF CreateAdmit
  <1>3. ~Down
    <2>1. auth.state = "active"
      BY <1>1 DEF CreateAdmit, RetInv, Threads, WkOK, Sharing
    <2> QED BY <2>1, ActiveNotDown
  <1>4. CASE Step(w, "prepare") /\ ~rec.manifest
    <2>1. disk.receipt # "stopped"  BY <1>3, <1>4 DEF LaunchInv, StoppedOK
    <2>2. StoppedOK'  BY <1>2, <2>1 DEF StoppedOK
    <2>3. MachineOK'  BY <1>2 DEF LaunchInv, MachineOK
    <2>4. Settled => Settled'  BY <1>3, <2>1 DEF Settled
    <2>5. Follows  BY <1>1, <1>2, <2>4, Allowed
    <2> QED BY <2>2, <2>3, <2>5 DEF Keeps
  <1>5. CASE (Finish(w) \/ Step(w, "cleanup")) /\ rec' = rec
    <2>1. "cleanup" \in Pcs \ {"prepare"}  BY DEF Pcs, GateHeld
    <2>2. \A v \in Workers : wk'[v].pc = "prepare" => wk[v].pc = "prepare"
      BY <1>1, <1>5, <2>1, StepNotStaging
    <2> QED BY <1>2, <1>3, <1>5, <2>2, QuietStep
  <1> QED BY <1>4, <1>5 DEF CreateAdmit

LEMMA CreatePrepareKeeps ==
    ASSUME LaunchInv, NEW w \in Workers, CreatePrepare(w)
    PROVE  Keeps
  <1>1. RetInv /\ disk \in DiskRecords /\ vm \in {"none", "live", "dead"}
    BY DEF LaunchInv, RetInv, Typed
  <1>2. UNCHANGED <<vm, gd, auth, rec>>  BY DEF CreatePrepare
  <1>3. WkOK(wk[w]) /\ wk[w].pc = "prepare" /\ disk.receipt # "stopped"
    BY DEF CreatePrepare, LaunchInv, StoppedOK, RetInv, Threads
  <1>4. gd = "none" /\ ~Down  BY <1>3, ActiveNotDown DEF WkOK, Sharing
  <1>5. vm = "none" /\ MachineOK'
    BY <1>2, <1>4 DEF LaunchInv, MachineOK, Unlaunched
  <1>6. disk'.receipt # "stopped"
    BY <1>1, <1>3 DEF CreatePrepare, PrepareStep, DiskRecords
  <1>7. StoppedOK'  BY <1>6 DEF StoppedOK
  <1>8. ~Settled  BY <1>3, <1>4 DEF Settled
  <1>9. Follows  BY <1>1, <1>2, <1>5, <1>8, Allowed
  <1> QED BY <1>5, <1>7, <1>9 DEF Keeps

LEMMA CreateDispatchKeeps ==
    ASSUME LaunchInv, NEW w \in Workers, CreateDispatch(w)
    PROVE  Keeps
  <1>1. RetInv /\ rec \in RecRecords /\ vm \in {"none", "live", "dead"}
    BY DEF LaunchInv, RetInv, Typed
  <1>2. UNCHANGED <<disk, vm, auth>>  BY DEF CreateDispatch
  <1>3. gd = "none"
    BY <1>1 DEF CreateDispatch, RetInv, Threads, WkOK
  <1>4. vm = "none"  BY <1>3 DEF LaunchInv, MachineOK, Unlaunched
  <1>5. gd' = "none" \/ gd' = "spawned"  BY <1>3 DEF CreateDispatch
  <1>6. MachineOK'  BY <1>2, <1>4, <1>5 DEF MachineOK
  <1>7. rec'.manifest = rec.manifest  BY <1>1 DEF CreateDispatch, RecRecords
  <1>8. \A v \in Workers : wk'[v].pc = "prepare" => wk[v].pc = "prepare"
    <2>1. wk' = wk \/ Step(w, "poll")  BY DEF CreateDispatch
    <2>2. "poll" \in Pcs \ {"prepare"}  BY DEF Pcs, Sharing
    <2> QED BY <1>1, <2>1, <2>2, StepNotStaging
  <1>9. Down' <=> Down  BY <1>2 DEF Down
  <1>10. StoppedOK'  BY <1>2, <1>7, <1>8, <1>9 DEF LaunchInv, StoppedOK
  <1>11. Settled' <=> Settled  BY <1>2, <1>9 DEF Settled
  <1>12. Follows  BY <1>1, <1>2, <1>4, <1>11, Allowed
  <1> QED BY <1>6, <1>10, <1>12 DEF Keeps

(* The fence of a directory: the receipt it leaves is there for good.      *)
LEMMA ObserveKeeps ==
    ASSUME LaunchInv, NEW w \in Workers, Observe(w)
    PROVE  Keeps
  <1>1. RetInv /\ disk \in DiskRecords /\ vm \in {"none", "live", "dead"}
        /\ rec \in RecRecords /\ wk \in [Workers -> WkRecords]
    BY DEF LaunchInv, RetInv, Typed
  <1>2. UNCHANGED <<gd, auth>> /\ Finish(w) /\ wk[w].pc = "cleanup"  BY DEF Observe
  <1>3. \A v \in Workers : wk'[v].pc = "prepare" => wk[v].pc = "prepare"
    BY <1>1, <1>2, StepNotStaging
  <1>4. Down' <=> Down  BY <1>2 DEF Down
  <1>5. CASE UNCHANGED <<disk, vm, rec>>
    BY <1>2, <1>3, <1>4, <1>5, QuietStep
  <1>6. CASE ~UNCHANGED <<disk, vm, rec>>
    <2>1. /\ rec.manifest /\ CanFence /\ disk' = StoppedDisk /\ vm' = "none"
          /\ rec' = [rec EXCEPT !.stopped = TRUE, !.released = TRUE]
      BY <1>6 DEF Observe
    <2>2. rec'.manifest  BY <1>1, <2>1 DEF RecRecords
    <2>3. disk'.receipt = "stopped" /\ "receipt" \in disk'.files
      BY <1>1, <2>1 DEF StoppedDisk, Names
    <2>4. vm # "live"  BY <2>1 DEF CanFence, LifecycleFree, LaunchInv, MachineOK
    <2>5. MachineOK'  BY <2>1 DEF MachineOK
    <2>6. ASSUME NEW v \in Workers PROVE wk'[v].pc # "prepare"
      <3>1. CASE v = w  BY <1>1, <1>2, <3>1, FinishMoves DEF Moves
      <3>2. CASE v # w
        BY <1>1, <1>2, <1>3, <3>2 DEF RetInv, Threads, GateOK, GateHeld
      <3> QED BY <3>1, <3>2
    <2>7. StoppedOK'  BY <2>2, <2>3, <2>6 DEF StoppedOK
    <2>8. Settled'  BY <2>3 DEF Settled
    <2>9. Follows  BY <1>1, <2>1, <2>4, <2>8, Allowed
    <2> QED BY <2>5, <2>7, <2>9 DEF Keeps
  <1> QED BY <1>5, <1>6

(* Steps after which no receipt is stopped, of a machine that is not there.*)
LEMMA StillUnstopped ==
    ASSUME LaunchInv, ~Settled, vm = "none", vm' = "none", disk'.receipt # "stopped"
    PROVE  StoppedOK' /\ Follows
  <1>1. StoppedOK'  BY DEF StoppedOK
  <1>2. Follows  BY Allowed
  <1> QED BY <1>1, <1>2

(* An absence proof that is torn by the end of the host.                   *)
LEMMA ObserveTornKeeps ==
    ASSUME LaunchInv, NEW w \in Workers, ObserveTorn(w)
    PROVE  Keeps
  <1>1. "receipt" \notin disk.files  BY DEF ObserveTorn
  <1>2. auth.state = "active" /\ vm = "none" /\ vm' = "none"
    BY <1>1 DEF ObserveTorn, CanFence, MayCreate
  <1>3. ~Settled
    BY <1>1, <1>2, ActiveNotDown DEF Settled, LaunchInv, StoppedOK
  <1>4. disk'.receipt # "stopped"  BY DEF ObserveTorn
  <1>5. MachineOK'  BY <1>2 DEF MachineOK
  <1> QED BY <1>2, <1>3, <1>4, <1>5, StillUnstopped DEF Keeps

(* Removal of the directory of a fenced serial.                            *)
LEMMA RemoveNextKeeps ==
    ASSUME LaunchInv, NEW w \in Workers, RemoveNext(w)
    PROVE  Keeps
  <1>1. RetInv /\ auth \in AuthRecords /\ vm \in {"none", "live", "dead"}
    BY DEF LaunchInv, RetInv, Typed
  <1>2. UNCHANGED <<vm, gd, auth, wk, rec>>  BY DEF RemoveNext
  <1>3. auth.state = "fenced" /\ vm = "none" /\ wk[w].pc = "delete"
    BY <1>1 DEF RemoveNext, RetInv, Threads, WkOK
  <1>4. Down  BY <1>1, <1>3 DEF Down, RetInv, Shared, AuthOK, AuthRecords
  <1>5. Down'  BY <1>2, <1>4 DEF Down
  <1>6. MachineOK'  BY <1>2 DEF LaunchInv, MachineOK
  <1>7. ASSUME NEW v \in Workers PROVE wk'[v].pc # "prepare"
    BY <1>1, <1>2, <1>3 DEF RetInv, Threads, WkOK, Sharing
  <1>8. StoppedOK'  BY <1>5, <1>7 DEF StoppedOK
  <1>9. Follows  BY <1>1, <1>2, <1>3, <1>5, Allowed DEF Settled
  <1> QED BY <1>6, <1>8, <1>9 DEF Keeps

(* While there is a guardian nobody stages.                                *)
LEMMA GuardianAlone ==
    ASSUME LaunchInv, gd # "none", NEW v \in Workers
    PROVE  wk[v].pc # "prepare"
  BY DEF LaunchInv, RetInv, Threads, WkOK

(* The guardian's checks leave a machine that is not there alone.          *)
LEMMA GuardianChecks ==
    ASSUME LaunchInv, GuardianStart \/ GuardianSpawn \/ GuardianInit
    PROVE  Keeps
  <1>1. vm \in {"none", "live", "dead"} /\ disk \in DiskRecords
    BY DEF LaunchInv, RetInv, Typed
  <1>2. UNCHANGED <<vm, wk, rec, auth>> /\ gd \in {"spawned", "checked", "init"}
    BY DEF GuardianStart, GuardianSpawn, GuardianInit
  <1>3. vm = "none"  BY <1>2 DEF LaunchInv, MachineOK, Unlaunched
  <1>4. MachineOK'  BY <1>2, <1>3 DEF MachineOK
  <1>5. Down' <=> Down  BY <1>2 DEF Down
  <1>6. CASE disk' = disk
    <2>1. StoppedOK'  BY <1>2, <1>5, <1>6 DEF LaunchInv, StoppedOK
    <2>2. Settled' <=> Settled  BY <1>5, <1>6 DEF Settled
    <2>3. Follows  BY <1>1, <1>2, <1>3, <2>2, Allowed
    <2> QED BY <1>4, <2>1, <2>3 DEF Keeps
  <1>7. CASE disk' # disk
    <2>1. auth.state = "active" /\ "receipt" \notin disk.files /\ disk'.receipt = "prepared"
      BY <1>7 DEF GuardianStart, GuardianSpawn, GuardianInit, Authorized
    <2>2. ~Settled
      BY <2>1, ActiveNotDown DEF Settled, LaunchInv, StoppedOK
    <2> QED BY <1>2, <1>3, <1>4, <2>1, <2>2, StillUnstopped DEF Keeps
  <1> QED BY <1>6, <1>7

(* The one launch: under the shared lock the receipt is still Prepared and *)
(* the serial active.                                                      *)
LEMMA GuardianLaunchKeeps ==
    ASSUME LaunchInv, GuardianLaunch
    PROVE  Keeps
  <1>1. vm \in {"none", "live", "dead"} /\ disk \in DiskRecords
    BY DEF LaunchInv, RetInv, Typed
  <1>2. auth.state = "active" /\ disk.receipt = "prepared"
    BY DEF GuardianLaunch, LaunchInv, RetInv, Shared, AuthOK
  <1>3. ~Settled  BY <1>2, ActiveNotDown DEF Settled
  <1>4. vm = "none" /\ vm' = "live" /\ gd' = "running"
    BY DEF GuardianLaunch, LaunchInv, MachineOK, Unlaunched
  <1>5. MachineOK'  BY <1>4 DEF MachineOK, Unlaunched
  <1>6. disk'.receipt # "stopped"  BY <1>1 DEF GuardianLaunch, DiskRecords
  <1>7. StoppedOK'  BY <1>6 DEF StoppedOK
  <1>8. Follows  BY <1>1, <1>3, <1>4, Allowed
  <1> QED BY <1>5, <1>7, <1>8 DEF Keeps

(* The machine dies with its guardian and leaves the cgroup.               *)
LEMMA GuardianExitKeeps ==
    ASSUME LaunchInv, GuardianExit
    PROVE  Keeps
  <1>1. vm \in {"none", "live", "dead"}
    BY DEF LaunchInv, RetInv, Typed
  <1>2. UNCHANGED <<disk, wk, rec, auth>> /\ gd' = "reconcile"
        /\ vm' = IF vm = "live" THEN "dead" ELSE vm
    BY DEF GuardianExit
  <1>3. Down' <=> Down  BY <1>2 DEF Down
  <1>4. Settled' <=> Settled  BY <1>2, <1>3 DEF Settled
  <1>5. MachineOK'  BY <1>1, <1>2 DEF MachineOK, Unlaunched
  <1>6. StoppedOK'  BY <1>2, <1>3 DEF LaunchInv, StoppedOK
  <1>7. Follows  BY <1>1, <1>2, <1>4, Allowed
  <1> QED BY <1>5, <1>6, <1>7 DEF Keeps

(* The guardian's own cleanup: a stopped receipt in a directory that an    *)
(* active serial's record owns.                                            *)
LEMMA GuardianReconcileKeeps ==
    ASSUME LaunchInv, GuardianReconcile
    PROVE  Keeps
  <1>1. RetInv /\ vm \in {"none", "live", "dead"} /\ disk \in DiskRecords /\ auth \in AuthRecords
    BY DEF LaunchInv, RetInv, Typed
  <1>2. UNCHANGED <<wk, rec, auth>> /\ gd = "reconcile" /\ gd' = "done"
    BY DEF GuardianReconcile
  <1>3. Down' <=> Down  BY <1>2 DEF Down
  <1>4. vm # "live"  BY <1>2 DEF LaunchInv, MachineOK
  <1>5. CASE UNCHANGED <<disk, vm>>
    <2>1. Settled' <=> Settled  BY <1>3, <1>5 DEF Settled
    <2>2. MachineOK'  BY <1>2, <1>4, <1>5 DEF MachineOK, Unlaunched
    <2>3. StoppedOK'  BY <1>2, <1>3, <1>5 DEF LaunchInv, StoppedOK
    <2>4. Follows  BY <1>1, <1>5, <2>1, Allowed
    <2> QED BY <2>2, <2>3, <2>4 DEF Keeps
  <1>6. CASE ~UNCHANGED <<disk, vm>>
    <2>1. /\ MayClean /\ "receipt" \in disk.files
          /\ disk' = [disk EXCEPT !.receipt = "stopped"] /\ vm' = "none"
      BY <1>6 DEF GuardianReconcile
    <2>2. disk'.receipt = "stopped" /\ "receipt" \in disk'.files
      BY <1>1, <2>1 DEF DiskRecords
    <2>3. Down \/ rec.manifest
      BY <1>1, <1>2, <2>1 DEF MayClean, Down, RetInv, Shared, AuthOK, AuthRecords
    <2>4. ASSUME NEW v \in Workers PROVE wk'[v].pc # "prepare"
      BY <1>2, GuardianAlone
    <2>5. StoppedOK'  BY <1>2, <1>3, <2>2, <2>3, <2>4 DEF StoppedOK
    <2>6. MachineOK'  BY <2>1 DEF MachineOK
    <2>7. Settled'  BY <2>2 DEF Settled
    <2>8. Follows  BY <1>1, <1>4, <2>1, <2>7, Allowed
    <2> QED BY <2>5, <2>6, <2>8 DEF Keeps
  <1> QED BY <1>5, <1>6

(* A step of the system.                                                   *)
LEMMA LaunchKeeps ==
    ASSUME LaunchInv, [Next]_vars
    PROVE  Keeps
  <1>1. ASSUME NEW w \in Workers, HostStep(w) PROVE Keeps
    BY <1>1, HostQuiet, AuthorityQuiet, CreateAdmitKeeps, CreatePrepareKeeps,
       CreateDispatchKeeps, ObserveKeeps, ObserveTornKeeps, RemoveNextKeeps DEF HostStep
  <1>2. CASE GuardianStep
    BY <1>2, GuardianChecks, GuardianLaunchKeeps, GuardianExitKeeps, GuardianReconcileKeeps
       DEF GuardianStep
  <1>3. CASE Crash \/ Load \/ AdvanceEpoch \/ Started \/ DatabaseStep \/ UNCHANGED vars
    BY <1>3, OutsideQuiet
  <1> QED BY <1>1, <1>2, <1>3 DEF Next

(* Initially there is no machine, no receipt and no serial.                *)
LEMMA LaunchInitially ==
    ASSUME Init
    PROVE  MachineOK /\ StoppedOK /\ RuntimeState = "unstarted"
  <1>1. vm = "none" /\ disk.receipt = "none" /\ auth.through = 0
    BY DEF Init, NoDirectory
  <1>2. ~Settled  BY <1>1 DEF Settled, Down
  <1> QED BY <1>1, <1>2 DEF MachineOK, StoppedOK, RuntimeState

(* Launch authority, journal, guardian and deletion together keep the      *)
(* contract of an allocation, whatever requests are delayed and whenever   *)
(* the host crashes: one launch, one end, and a release (a stopped receipt *)
(* or a fenced serial, with no cgroup) after which nothing is launched.    *)
THEOREM RetirementImplementsRuntime == Spec => Runtime!RuntimeSpec
  <1>1. Init => MachineOK /\ StoppedOK  BY LaunchInitially
  <1>2. Init => Runtime!RuntimeInit  BY LaunchInitially DEF Runtime!RuntimeInit
  <1>3. RetInv /\ MachineOK /\ StoppedOK /\ [Next]_vars => MachineOK' /\ StoppedOK'
    BY LaunchKeeps DEF LaunchInv, Keeps
  <1>4. RetInv /\ MachineOK /\ StoppedOK /\ [Next]_vars
          => [Runtime!RuntimeNext]_RuntimeState
    BY LaunchKeeps DEF LaunchInv, Keeps, Follows
  <1> QED BY <1>1, <1>2, <1>3, <1>4, RetirementInvariant, PTL DEF Spec, Runtime!RuntimeSpec
=============================================================================
