---------------------------- MODULE UploadProofs ----------------------------
(***************************************************************************)
(* Proofs about Uploads: for any number of controllers, cleanup workers,   *)
(* chunks, claims and faults, the outcome of an upload is what the guest   *)
(* published, no acknowledged byte is lost, a frozen source is quiet and a *)
(* retired one stays retired.  The invariant follows the evidence back to  *)
(* the guest: its receipt fixes how often the file was renamed, the host's *)
(* record and every answer on its way are no better than that receipt, a   *)
(* record that is fenced or missing means that the guest was never called, *)
(* and nothing is sent before the row says so.  Claims do not occur in it: *)
(* they decide who acts, and safety does not rest on them.                 *)
(***************************************************************************)
EXTENDS Uploads, FiniteSetTheorems, TLAPS

(* Records of each variable.                                               *)
OpRecords == [st : {"none", "queued", "running", "unknown", "succeeded", "failed"},
              rev : 0..MaxClaims, lease : BOOLEAN]
RowRecords == [source : BOOLEAN, begun : BOOLEAN, needs : BOOLEAN, commit : BOOLEAN,
               abort : BOOLEAN, written : 0..Chunks, rec : Files, frozen : BOOLEAN,
               sel : BOOLEAN, crev : Nat, clease : BOOLEAN, retired : BOOLEAN,
               prev : BOOLEAN]
Contents == {"missing", "data", "marker"}
ObjRecords == [cur : Contents, prev : BOOLEAN, old : BOOLEAN]
CtlRecords == [pc : {"idle", "claimed", "source", "chunk", "rpc"}, rev : 0..MaxClaims,
               act : Acts, off : 0..Chunks]
Requests == [act : Acts, rev : 1..MaxClaims, off : 0..Chunks, born : 0..3]
Stored == {None} \union 1..Chunks
Answers == [rev : 1..MaxClaims, ns : BOOLEAN, st : 0..5, stored : Stored]
HostRecords == [alloc : {"up", "stopped", "moved"}, rec : Files, rev : 0..MaxClaims,
                phase : {"idle", "call", "wait"}, call : Acts, req : 0..MaxClaims,
                off : 0..Chunks]
Receipts == {"none", "staging", "intent", "committed", "unknown", "aborted"}
Jobs == [kind : Acts, step : 0..2, off : 0..Chunks]
GuestRecords == [up : BOOLEAN, rcp : Receipts, data : {None} \union 0..Chunks, pubs : 0..1,
                 job : Jobs]
ClnRecords == [pc : {"idle", "claimed", "look", "mark", "remove", "verify", "failed"},
               rev : Nat, seen : Contents]

Typed ==
    /\ clock \in 0..3 /\ elig \in BOOLEAN /\ put \in BOOLEAN /\ faults \in 0..MaxFaults
    /\ op \in OpRecords /\ row \in RowRecords /\ obj \in ObjRecords
    /\ ctl \in [Controllers -> CtlRecords] /\ cln \in [Cleaners -> ClnRecords]
    /\ net \subseteq Requests /\ replies \subseteq Answers
    /\ host \in HostRecords /\ guest \in GuestRecords

(* What the guest's receipt says of the staged bytes and of the rename.    *)
ReceiptOK(g) ==
    /\ g.rcp = "staging" => g.data # None
    /\ g.rcp \in {"none", "staging", "aborted"} => g.pubs = 0
    /\ g.rcp = "committed" => g.pubs = 1

(* Where the guest's worker is in its job.                                 *)
JobOK(g) ==
    /\ g.job.kind = "begin" /\ g.job.step = 1 => g.rcp = "none" /\ g.data # None
    /\ g.job.kind = "commit" /\ g.job.step = 1 => g.rcp = "intent" /\ g.pubs = 0
    /\ g.job.kind = "commit" /\ g.job.step = 2 => g.rcp = "intent" /\ g.pubs = 1
    /\ g.job.kind = "abort" /\ g.job.step = 1 => g.rcp = "aborted"
    /\ g.job.kind = "write" => g.job.off < Chunks
    /\ ~g.up => g.job = NoJob

GuestOK == ReceiptOK(guest) /\ JobOK(guest)

(* The guest was never asked for anything.                                 *)
Untouched(g) == g.rcp = "none" /\ g.pubs = 0 /\ g.job = NoJob

(* The host's record: fenced or missing for an untouched guest, and as     *)
(* final as the guest's receipt.                                           *)
RecordOK(h, g) ==
    /\ ~h.rec.has => h.rec = NoFile
    /\ h.rec.ns => h.rec = FencedFile
    /\ ~h.rec.has \/ h.rec.ns => h.phase = "idle" /\ Untouched(g)
    /\ h.rec.st = 3 => g.rcp = "committed"
    /\ h.rec.st = 5 => g.rcp = "aborted"

(* The request under the gate.                                             *)
GateOK(h) ==
    /\ h.phase # "idle" => h.req \in 1..MaxClaims
    /\ h.call = "write" => h.off < Chunks

HostOK == RecordOK(host, guest) /\ GateOK(host)

(* An answer on its way stays true.                                        *)
AnswerOK(r, h, g) ==
    /\ r.ns => h.rec.ns
    /\ r.st = 3 => g.rcp = "committed"
    /\ r.st = 5 => g.rcp = "aborted"
    /\ r.stored # None => g.rcp # "none" /\ (g.rcp = "staging" => r.stored <= g.data)

(* A request on its way: what changes the guest was sent before the        *)
(* deadline, and nothing of that time is left when the grace is over.      *)
RequestOK(m) ==
    /\ m.act \in Mutations => m.born < 2
    /\ m.act = "write" => m.off < Chunks
    /\ clock = 3 => m.born >= 2

Messages ==
    /\ \A r \in replies : AnswerOK(r, host, guest)
    /\ \A m \in net : RequestOK(m)

(* The rows: nothing is sent before begin_requested, the cursor is behind  *)
(* the guest, and a final status has its reason in the guest or the host.  *)
RowOK ==
    /\ ~row.begun => net = {} /\ replies = {} /\ host.rec = NoFile
    /\ row.rec.has => row.begun
    /\ row.written > 0 => guest.rcp # "none"
    /\ guest.rcp = "staging" => row.written <= guest.data
    /\ row.frozen => clock = 3
    /\ op.st = "failed" => ~row.begun \/ host.rec.ns \/ guest.rcp = "aborted"
    /\ op.st = "succeeded" => guest.rcp = "committed"

CtlOK(x) ==
    /\ x.pc # "idle" => x.rev \in 1..MaxClaims
    /\ x.pc = "chunk" => x.off < Chunks

(* The source: a marker is final, and the version under it goes away.      *)
ObjOK(o) == o.old => o.prev /\ o.cur = "marker"
Buried(o) == o.cur = "marker" /\ ~o.old
ClnOK(x, o) ==
    /\ x.pc = "mark" => x.seen # "marker"
    /\ x.pc \in {"remove", "verify"} => o.cur = "marker"
    /\ x.pc = "verify" => Buried(o)
Sources ==
    /\ ObjOK(obj) /\ (row.retired => Buried(obj))
    /\ \A k \in Cleaners : ClnOK(cln[k], obj)

Controlled == \A p \in Controllers : CtlOK(ctl[p])

UpInv == Typed /\ GuestOK /\ HostOK /\ Messages /\ RowOK /\ Controlled /\ Sources

-----------------------------------------------------------------------------
(* Facts about operators.                                                  *)

(* A finite set of numbers has a largest element, which is Max.            *)
LEMMA MaxFacts ==
    ASSUME NEW S \in SUBSET Nat, IsFiniteSet(S), S # {}
    PROVE  Max(S) \in S /\ \A y \in S : Max(S) >= y
  <1> DEFINE Topped(T) == \E x \in T : \A y \in T : x >= y
             Bad == {T \in SUBSET S : T # {} /\ ~Topped(T)}
  <1>1. IsWellFoundedOn(StrictSubsetOrdering(S), SUBSET S)
    BY FS_StrictSubsetOrderingWellFounded, FS_FiniteSubsetsOfFinite
  <1>2. Bad = {}
    <2> SUFFICES ASSUME Bad # {} PROVE FALSE  OBVIOUS
    <2>1. Bad \subseteq SUBSET S  OBVIOUS
    <2>2. PICK T \in Bad : \A U \in Bad : <<U, T>> \notin StrictSubsetOrdering(S)
      <3> HIDE DEF Bad
      <3> QED BY <1>1, <2>1, WFMin, Zenon
    <2>3. PICK z \in T : TRUE  OBVIOUS
    <2> DEFINE U == T \ {z}
    <2>4. <<U, T>> \in StrictSubsetOrdering(S)  BY <2>3 DEF StrictSubsetOrdering
    <2>5. U \notin Bad  BY <2>2, <2>4
    <2>6. U = {} \/ Topped(U)  BY <2>5
    <2>7. CASE U = {}
      <3>1. \A y \in T : y = z  BY <2>7
      <3>2. Topped(T)  BY <2>3, <3>1
      <3> QED BY <3>2
    <2>8. CASE Topped(U)
      <3>1. PICK x \in U : \A y \in U : x >= y  BY <2>8
      <3>2. x \in Nat /\ z \in Nat /\ x \in T /\ \A y \in T : y = z \/ y \in U
        BY <2>3
      <3>3. Topped(T)  BY <2>3, <3>1, <3>2
      <3> QED BY <3>3
    <2> QED BY <2>6, <2>7, <2>8
  <1>3. Topped(S)  BY <1>2
  <1> QED BY <1>3 DEF Max

(* The revisions in use, and the next one.                                 *)
LEMMA NextClaim ==
    ASSUME Typed
    PROVE  Max(InUse) + 1 \in 1..(MaxClaims + 1)
  <1>1. InUse \subseteq 0..MaxClaims
    BY UploadsAssumption DEF Typed, InUse, HostRecords, CtlRecords, Requests, Answers
  <1>2. InUse \in SUBSET Nat /\ InUse # {}  BY <1>1 DEF InUse
  <1>3. IsFiniteSet(InUse)
    <2>1. 0 \in Int /\ MaxClaims \in Int  BY UploadsAssumption
    <2>2. IsFiniteSet(0..MaxClaims)  BY <2>1, FS_Interval
    <2> QED BY <1>1, <2>2, FS_Subset
  <1>4. Max(InUse) \in InUse  BY <1>2, <1>3, MaxFacts
  <1>5. Max(InUse) \in 0..MaxClaims  BY <1>1, <1>4
  <1> HIDE DEF InUse
  <1> QED BY <1>5, UploadsAssumption, SMT

(* The next revision of a cleanup claim.                                   *)
LEMMA NextCleanup ==
    ASSUME Typed, NEW k \in Cleaners
    PROVE  Max({cln[j].rev : j \in Cleaners}) + 1 \in Nat
  <1> DEFINE S == {cln[j].rev : j \in Cleaners}
  <1>1. S \in SUBSET Nat  BY DEF Typed, ClnRecords
  <1>2. S # {}  OBVIOUS
  <1>3. IsFiniteSet(S)
    <2>1. [j \in Cleaners |-> cln[j].rev] \in Surjection(Cleaners, S)  BY DEF Surjection
    <2> QED BY <2>1, UploadsAssumption, FS_Surjection
  <1> HIDE DEF S
  <1>4. Max(S) \in Nat  BY <1>1, <1>2, <1>3, MaxFacts
  <1> QED BY <1>4 DEF S

(* Observed states.                                                        *)
LEMMA StateFacts ==
    /\ \A r \in Receipts : StateOf[r] \in 0..5
    /\ \A r \in Receipts : (StateOf[r] = 3 => r = "committed") /\ (StateOf[r] = 5 => r = "aborted")
    /\ StateOf["none"] = 0 /\ DOMAIN StateOf = Receipts
  BY DEF StateOf, Receipts

(* Records of a file.                                                      *)
LEMMA FileFacts ==
    /\ NoFile \in Files /\ PendingFile \in Files /\ FencedFile \in Files
    /\ ~NoFile.has /\ ~NoFile.ns /\ NoFile.st = 0
    /\ PendingFile.has /\ ~PendingFile.ns /\ PendingFile.st = 0
    /\ FencedFile.has /\ FencedFile.ns /\ FencedFile.st = 0
  <1>1. NoFile \in Files /\ ~NoFile.has /\ ~NoFile.ns /\ NoFile.st = 0
    BY DEF NoFile, Files
  <1> QED BY <1>1 DEF PendingFile, FencedFile, Files

-----------------------------------------------------------------------------
(* Frames.                                                                 *)

(* The invariant by its parts.                                             *)
LEMMA Parts ==
    ASSUME UpInv
    PROVE  /\ Typed /\ GuestOK /\ HostOK /\ Messages /\ RowOK /\ Controlled /\ Sources
           /\ clock \in 0..3 /\ elig \in BOOLEAN /\ put \in BOOLEAN /\ faults \in 0..MaxFaults
           /\ op \in OpRecords /\ row \in RowRecords /\ obj \in ObjRecords
           /\ ctl \in [Controllers -> CtlRecords] /\ cln \in [Cleaners -> ClnRecords]
           /\ net \subseteq Requests /\ replies \subseteq Answers
           /\ host \in HostRecords /\ guest \in GuestRecords
  BY DEF UpInv, Typed

(* Faults are counted.                                                     *)
LEMMA FaultType ==
    ASSUME UpInv, Fault \/ UNCHANGED faults
    PROVE  faults' \in 0..MaxFaults
  BY UploadsAssumption, Parts DEF Fault

(* What no step of the guest takes back.                                   *)
Advances ==
    /\ guest.rcp \in {"committed", "aborted"} => guest'.rcp = guest.rcp
    /\ guest.rcp # "none" => guest'.rcp # "none"
    /\ guest'.rcp = "staging" /\ guest.rcp # "none" =>
          guest.rcp = "staging" /\ guest.data <= guest'.data

(* Answers stay true.                                                      *)
LEMMA AnswersLast ==
    ASSUME NEW r \in Answers, guest \in GuestRecords, guest' \in GuestRecords, Advances,
           host.rec.ns => host'.rec.ns, AnswerOK(r, host, guest)
    PROVE  AnswerOK(r, host', guest')
  <1>1. r.stored # None /\ guest'.rcp = "staging" => r.stored <= guest'.data
    <2> SUFFICES ASSUME r.stored # None, guest'.rcp = "staging" PROVE r.stored <= guest'.data
      OBVIOUS
    <2>1. guest.rcp = "staging" /\ guest.data <= guest'.data /\ r.stored <= guest.data
      BY DEF Advances, AnswerOK
    <2>2. r.stored \in Int /\ guest.data \in Int /\ guest'.data \in Int
      BY UploadsAssumption DEF Answers, Stored, GuestRecords, None
    <2> QED BY <2>1, <2>2
  <1> QED BY <1>1 DEF AnswerOK, Advances

(* A step of the guest, with the answer the host saves of it.              *)
LEMMA GuestSteps ==
    ASSUME UpInv, guest' \in GuestRecords, GuestOK', Advances,
           host' \in HostRecords, HostOK', host.rec.ns => host'.rec.ns,
           replies' \subseteq Answers,
           \A r \in replies' \ replies : AnswerOK(r, host', guest'),
           row.begun \/ (host'.rec = host.rec /\ replies' = replies), net' \subseteq net,
           elig' \in BOOLEAN, faults' \in 0..MaxFaults,
           UNCHANGED <<clock, op, row, ctl, obj, put, cln>>
    PROVE  UpInv'
  <1>1. Typed'  BY Parts DEF Typed
  <1>2. Messages'
    <2>1. \A r \in replies' : AnswerOK(r, host', guest')
      BY AnswersLast, Parts DEF Messages
    <2> QED BY <2>1, Parts DEF Messages, RequestOK
  <1>3. RowOK'
    <2>1. ~row.begun => host.rec = NoFile  BY Parts DEF RowOK
    <2>2. (~row.begun => net = {} /\ replies = {} /\ host.rec = NoFile)'
      BY <2>1, FileFacts, Parts DEF RowOK
    <2>3. row.written > 0 => guest'.rcp # "none"  BY Parts DEF RowOK, Advances
    <2>4. guest'.rcp = "staging" => row.written <= guest'.data
      <3> SUFFICES ASSUME guest'.rcp = "staging" PROVE row.written <= guest'.data  OBVIOUS
      <3>1. row.written \in Nat /\ guest.data \in Int /\ guest'.data \in Int
        BY UploadsAssumption, Parts DEF RowRecords, GuestRecords, None
      <3>2. guest'.data # None  BY DEF GuestOK, ReceiptOK
      <3>3. guest'.data >= 0  BY <3>2, UploadsAssumption DEF GuestRecords
      <3>4. CASE guest.rcp = "none"
        <4>1. ~(row.written > 0)  BY <3>4, Parts DEF RowOK
        <4> QED BY <4>1, <3>1, <3>3
      <3>5. CASE guest.rcp # "none"
        <4>1. guest.data <= guest'.data /\ row.written <= guest.data
          BY <3>5, Parts DEF RowOK, Advances
        <4> QED BY <4>1, <3>1
      <3> QED BY <3>4, <3>5
    <2>5. op.st = "failed" => ~row.begun \/ host'.rec.ns \/ guest'.rcp = "aborted"
      BY Parts DEF RowOK, Advances
    <2>6. op.st = "succeeded" => guest'.rcp = "committed"
      BY Parts DEF RowOK, Advances
    <2> QED BY <2>2, <2>3, <2>4, <2>5, <2>6, Parts DEF RowOK
  <1>4. Controlled' /\ Sources'  BY Parts DEF Controlled, Sources
  <1> QED BY <1>1, <1>2, <1>3, <1>4 DEF UpInv

(* A status that its evidence supports.                                    *)
Supported(st) ==
    /\ st \in {"none", "queued", "running", "unknown", "succeeded", "failed"}
    /\ st = "failed" => ~row'.begun \/ host.rec.ns \/ guest.rcp = "aborted"
    /\ st = "succeeded" => guest.rcp = "committed"

(* The columns of the upload's own work.                                   *)
RowMoves ==
    /\ row' \in RowRecords /\ row'.frozen = row.frozen /\ row'.retired = row.retired
    /\ row.begun => row'.begun
    /\ row'.rec = row.rec \/ row'.begun
    /\ \/ row'.written = row.written
       \/ guest.rcp # "none" /\ (guest.rcp = "staging" => row'.written <= guest.data)

(* A transaction, with the request sent after it.                          *)
LEMMA RowSteps ==
    ASSUME UpInv, RowMoves, op' \in OpRecords, Supported(op'.st),
           ctl' \in [Controllers -> CtlRecords], Controlled',
           net' \subseteq Requests, \A m \in net' \ net : RequestOK(m),
           ~row'.begun => net' \subseteq net,
           replies' \subseteq replies, guest' = guest,
           host' \in HostRecords, host'.rec = host.rec, host'.phase = host.phase,
           host'.call = host.call, host'.req = host.req, host'.off = host.off,
           faults' \in 0..MaxFaults, put' \in BOOLEAN, UNCHANGED <<clock, elig, obj, cln>>
    PROVE  UpInv'
  <1>1. Typed'  BY Parts DEF Typed, RowMoves
  <1>2. GuestOK' /\ HostOK'  BY Parts DEF GuestOK, HostOK, RecordOK, GateOK
  <1>3. Messages'
    <2>1. \A r \in replies' : AnswerOK(r, host', guest')
      BY Parts DEF Messages, AnswerOK
    <2>2. \A m \in net' : RequestOK(m)  BY Parts DEF Messages
    <2> QED BY <2>1, <2>2 DEF Messages, RequestOK
  <1>4. RowOK'
    <2>1. (~row.begun => net = {} /\ replies = {} /\ host.rec = NoFile)'
      BY Parts DEF RowOK, RowMoves
    <2>2. row'.written > 0 => guest.rcp # "none"  BY Parts DEF RowOK, RowMoves
    <2>3. guest.rcp = "staging" => row'.written <= guest.data  BY Parts DEF RowOK, RowMoves
    <2>4. row'.frozen => clock = 3  BY Parts DEF RowOK, RowMoves
    <2>5. row'.rec.has => row'.begun  BY Parts DEF RowOK, RowMoves
    <2> QED BY <2>1, <2>2, <2>3, <2>4, <2>5 DEF RowOK, Supported
  <1>5. Sources'  BY Parts DEF Sources, RowMoves
  <1> QED BY <1>1, <1>2, <1>3, <1>4, <1>5 DEF UpInv

(* Cleanup: the source and the columns that are cleanup's.                 *)
LEMMA SourceSteps ==
    ASSUME UpInv, row' \in RowRecords, row'.begun = row.begun, row'.rec = row.rec, row'.written = row.written,
           row'.frozen => row.frozen \/ clock = 3,
           obj' \in ObjRecords, cln' \in [Cleaners -> ClnRecords], Sources',
           put' \in BOOLEAN, faults' \in 0..MaxFaults,
           UNCHANGED <<clock, elig, op, ctl, net, host, guest, replies>>
    PROVE  UpInv'
  <1>1. Typed'  BY Parts DEF Typed
  <1>2. GuestOK' /\ HostOK' /\ Controlled'
    BY Parts DEF GuestOK, HostOK, RecordOK, GateOK, Controlled
  <1>3. Messages'  BY Parts DEF Messages, RequestOK, AnswerOK
  <1>4. RowOK'  BY Parts DEF RowOK
  <1> QED BY <1>1, <1>2, <1>3, <1>4 DEF UpInv

-----------------------------------------------------------------------------
(* The API and the controllers.                                            *)

(* A controller moves.                                                     *)
LEMMA Turns ==
    ASSUME UpInv, NEW p \in Controllers, NEW x \in CtlRecords, CtlOK(x),
           ctl' = [ctl EXCEPT ![p] = x]
    PROVE  ctl' \in [Controllers -> CtlRecords] /\ Controlled'
  BY Parts DEF Controlled

(* A tick ends.                                                            *)
LEMMA Rests ==
    ASSUME UpInv, NEW p \in Controllers, Idle(p)
    PROVE  ctl' \in [Controllers -> CtlRecords] /\ Controlled'
  <1>1. IdleController \in CtlRecords /\ CtlOK(IdleController)
    BY UploadsAssumption DEF IdleController, CtlRecords, CtlOK, Acts
  <1> QED BY <1>1, Turns DEF Idle

(* The status a step leaves alone is supported as before.                  *)
LEMMA StillSupported ==
    ASSUME UpInv, row'.begun = row.begun
    PROVE  Supported(op.st)
  BY Parts DEF Supported, RowOK, OpRecords

(* Rows that a step leaves alone.                                          *)
LEMMA SameRow ==
    ASSUME UpInv, UNCHANGED row
    PROVE  RowMoves
  BY Parts DEF RowMoves

(* Admission, and the writes of the source.                                *)
LEMMA ApiStep ==
    ASSUME UpInv, AdmitUpload \/ RetryPut \/ PutLands
    PROVE  UpInv'
  <1>1. CASE AdmitUpload
    <2>1. UNCHANGED <<clock, elig, row, obj, ctl, net, host, guest, replies, cln, faults>>
      BY <1>1 DEF AdmitUpload, guestVars
    <2>2. op' \in OpRecords /\ op'.st = "queued" /\ put' \in BOOLEAN
      BY <1>1, Parts DEF AdmitUpload, OpRecords
    <2>3. Supported(op'.st)  BY <2>2 DEF Supported
    <2>4. Controlled'  BY <2>1, Parts DEF Controlled
    <2> QED BY <2>1, <2>2, <2>3, <2>4, SameRow, RowSteps, Parts
  <1>2. CASE RetryPut
    <2>1. UNCHANGED <<clock, elig, op, row, obj, ctl, net, host, guest, replies, cln, faults>>
          /\ put' = TRUE
      BY <1>2 DEF RetryPut, guestVars
    <2>2. Sources'  BY <2>1, Parts DEF Sources
    <2> QED BY <2>1, <2>2, SourceSteps, Parts
  <1>3. CASE PutLands
    <2>1. UNCHANGED <<clock, elig, op, row, ctl, net, host, guest, replies, cln, faults>>
          /\ put' = FALSE
      BY <1>3 DEF PutLands, guestVars
    <2>2. obj' \in ObjRecords /\ obj'.old = obj.old /\ obj'.prev = obj.prev
          /\ (obj.cur = "marker" => obj'.cur = "marker")
      BY <1>3, Parts DEF PutLands, ObjRecords, Contents
    <2>3. Sources'  BY <2>1, <2>2, Parts DEF Sources, ObjOK, Buried, ClnOK
    <2> QED BY <2>1, <2>2, <2>3, SourceSteps, Parts
  <1> QED BY <1>1, <1>2, <1>3

(* A claim.                                                                *)
LEMMA ClaimStep ==
    ASSUME UpInv, NEW p \in Controllers, Claim(p)
    PROVE  UpInv'
  <1>1. UNCHANGED <<clock, elig, row, net, guest, replies, obj, put, cln, faults>>
    BY DEF Claim, sourceVars
  <1>2. PICK r : r = Max(InUse) + 1 /\ r <= MaxClaims
    BY DEF Claim
  <1>3. r \in 1..MaxClaims /\ r \in 0..MaxClaims
    BY <1>2, NextClaim, Parts, UploadsAssumption
  <1>4. /\ op' = [op EXCEPT !.rev = r, !.lease = TRUE,
                            !.st = IF @ = "queued" THEN "running" ELSE @]
        /\ ctl' = [ctl EXCEPT ![p] = [IdleController EXCEPT !.pc = "claimed", !.rev = r]]
        /\ host' = [host EXCEPT !.rev = IF @ > r THEN r ELSE @]
        /\ op.st \in {"queued", "running", "unknown"}
    BY <1>2 DEF Claim
  <1>5. op' \in OpRecords /\ op'.st \in {"running", "unknown"}
    BY <1>3, <1>4, Parts DEF OpRecords
  <1>6. Supported(op'.st)  BY <1>5 DEF Supported
  <1>7. PICK x : x = [IdleController EXCEPT !.pc = "claimed", !.rev = r]  OBVIOUS
  <1>8. IdleController \in CtlRecords  BY UploadsAssumption DEF IdleController, CtlRecords, Acts
  <1>9. x \in CtlRecords /\ x.pc = "claimed" /\ x.rev = r
    BY <1>3, <1>7, <1>8 DEF CtlRecords
  <1>10. ctl' \in [Controllers -> CtlRecords] /\ Controlled'
    BY <1>3, <1>4, <1>7, <1>9, Turns DEF CtlOK
  <1>11. /\ host' \in HostRecords /\ host'.rec = host.rec /\ host'.phase = host.phase
         /\ host'.call = host.call /\ host'.req = host.req /\ host'.off = host.off
    BY <1>3, <1>4, Parts DEF HostRecords
  <1> QED BY <1>1, <1>5, <1>6, <1>10, <1>11, SameRow, RowSteps, Parts

(* A tick ends without a change of the row: a lost claim, a deferral, a    *)
(* death.                                                                  *)
LEMMA TickEnds ==
    ASSUME UpInv, NEW p \in Controllers, LoseClaim(p) \/ PrepareDefer(p) \/ ControllerDies(p)
    PROVE  UpInv'
  <1>1. UNCHANGED <<clock, elig, row, net, host, guest, replies, obj, put, cln>> /\ Idle(p)
    BY DEF LoseClaim, PrepareDefer, ControllerDies, Prepared, guestVars, sourceVars
  <1>2. faults' \in 0..MaxFaults
    BY FaultType DEF LoseClaim, PrepareDefer, ControllerDies, Prepared
  <1>3. op' = op \/ op' = [op EXCEPT !.st = op.st, !.lease = FALSE]
    BY DEF LoseClaim, PrepareDefer, ControllerDies, Finish
  <1>4. op' \in OpRecords /\ op'.st = op.st  BY <1>3, Parts DEF OpRecords
  <1> QED BY <1>1, <1>2, <1>4, Rests, SameRow, StillSupported, RowSteps, Parts

(* A lapsed claim.                                                         *)
LEMMA LapseStep ==
    ASSUME UpInv, Lapse
    PROVE  UpInv'
  <1>1. UNCHANGED <<clock, elig, row, ctl, net, host, guest, replies, obj, put, cln>>
    BY DEF Lapse, guestVars, sourceVars
  <1>2. faults' \in 0..MaxFaults  BY FaultType DEF Lapse
  <1>3. op' \in OpRecords /\ op'.st = op.st  BY Parts DEF Lapse, OpRecords
  <1>4. Controlled'  BY <1>1, Parts DEF Controlled
  <1> QED BY <1>1, <1>2, <1>3, <1>4, SameRow, StillSupported, RowSteps, Parts

(* An upload that never began is rejected.                                 *)
LEMMA RejectStep ==
    ASSUME UpInv, NEW p \in Controllers, PrepareReject(p)
    PROVE  UpInv'
  <1>1. UNCHANGED <<clock, elig, row, net, host, guest, replies, obj, put, cln, faults>>
        /\ Idle(p) /\ ~row.begun
    BY DEF PrepareReject, Prepared, guestVars, sourceVars
  <1>2. op' \in OpRecords /\ op'.st = "failed"  BY Parts DEF PrepareReject, Finish, OpRecords
  <1>3. Supported(op'.st)  BY <1>1, <1>2 DEF Supported
  <1> QED BY <1>1, <1>2, <1>3, Rests, SameRow, RowSteps, Parts

(* The next step is known, and nothing sent yet.                           *)
LEMMA ReadStep ==
    ASSUME UpInv, NEW p \in Controllers, PrepareSource(p) \/ PrepareWrite(p)
    PROVE  UpInv'
  <1>1. UNCHANGED <<clock, elig, op, row, net, host, guest, replies, obj, put, cln, faults>>
    BY DEF PrepareSource, PrepareWrite, Prepared, guestVars, sourceVars
  <1>2. ctl[p] \in CtlRecords /\ CtlOK(ctl[p]) /\ ctl[p].pc = "claimed"
    BY Parts DEF Controlled, PrepareSource, PrepareWrite, OnHost, Preparing
  <1>3. PICK x : \/ x = [ctl[p] EXCEPT !.pc = "source"] /\ PrepareSource(p)
                 \/ x = [ctl[p] EXCEPT !.pc = "chunk", !.off = row.written] /\ PrepareWrite(p)
    OBVIOUS
  <1>4. ctl' = [ctl EXCEPT ![p] = x]
    BY <1>3, Parts DEF PrepareSource, PrepareWrite
  <1>5. row.written \in 0..Chunks /\ (PrepareWrite(p) => row.written < Chunks)
    BY Parts DEF PrepareWrite, RowRecords
  <1>6. x \in CtlRecords /\ CtlOK(x)
    BY <1>2, <1>3, <1>5, UploadsAssumption DEF CtlRecords, CtlOK
  <1>7. ctl' \in [Controllers -> CtlRecords] /\ Controlled'  BY <1>4, <1>6, Turns
  <1> QED BY <1>1, <1>7, SameRow, StillSupported, RowSteps, Parts

(* A request is sent: what changes the guest only before the deadline.     *)
LEMMA DispatchKeeps ==
    ASSUME UpInv, NEW p \in Controllers, NEW a \in Acts, Dispatch(p, a),
           ctl[p].pc # "idle", a \in Mutations => clock < 2,
           a = "write" => ctl[p].off < Chunks
    PROVE  /\ ctl' \in [Controllers -> CtlRecords] /\ Controlled'
           /\ net' \subseteq Requests /\ \A m \in net' \ net : RequestOK(m)
  <1>1. ctl[p] \in CtlRecords /\ CtlOK(ctl[p])  BY Parts DEF Controlled
  <1>2. PICK x : x = [ctl[p] EXCEPT !.pc = "rpc", !.act = a]  OBVIOUS
  <1>3. ctl' = [ctl EXCEPT ![p] = x]  BY <1>2, Parts DEF Dispatch
  <1>4. ctl[p].rev \in 1..MaxClaims /\ ctl[p].rev \in 0..MaxClaims /\ ctl[p].off \in 0..Chunks
    BY <1>1 DEF CtlOK, CtlRecords
  <1>5. x \in CtlRecords /\ CtlOK(x)  BY <1>1, <1>2, <1>4 DEF CtlRecords, CtlOK
  <1>6. PICK m : m = [act |-> a, rev |-> ctl[p].rev, off |-> ctl[p].off, born |-> clock]
    OBVIOUS
  <1>7. net' = net \union {m}  BY <1>6 DEF Dispatch
  <1>8. m \in Requests /\ m.act = a /\ m.off = ctl[p].off /\ m.born = clock
    BY <1>4, <1>6, Parts DEF Requests
  <1>9. RequestOK(m)  BY <1>8, Parts DEF RequestOK
  <1> QED BY <1>3, <1>5, <1>7, <1>8, <1>9, Turns, Parts

(* The intents: begin_requested, commit_requested and abort_requested are  *)
(* durable with the request.                                               *)
LEMMA IntentStep ==
    ASSUME UpInv, NEW p \in Controllers, PrepareBegin(p) \/ PrepareAbort(p) \/ PrepareCommit(p)
    PROVE  UpInv'
  <1>1. UNCHANGED <<clock, elig, op, host, guest, replies, obj, put, cln, faults>>
    BY DEF PrepareBegin, PrepareAbort, PrepareCommit, Prepared, guestVars, sourceVars
  <1>2. ctl[p].pc = "claimed" /\ op.st \in {"running", "unknown"}
    BY DEF PrepareBegin, PrepareAbort, PrepareCommit, OnHost, Preparing, Owns
  <1>3. row' \in RowRecords /\ row'.begun /\ row'.written = row.written
        /\ row'.frozen = row.frozen /\ row'.retired = row.retired
    BY Parts DEF PrepareBegin, PrepareAbort, PrepareCommit, RowRecords
  <1>4. RowMoves  BY <1>3 DEF RowMoves
  <1>5. Supported(op.st)  BY <1>2 DEF Supported
  <1>6. \E a \in {"begin", "abort", "commit"} : Dispatch(p, a) /\ (a \in Mutations => clock < 2)
    BY DEF PrepareBegin, PrepareAbort, PrepareCommit, Eligible, Mutations
  <1>7. PICK a \in {"begin", "abort", "commit"} :
                Dispatch(p, a) /\ (a \in Mutations => clock < 2)
    BY <1>6
  <1>8. a \in Acts /\ a # "write"  BY DEF Acts, Mutations
  <1>9. /\ ctl' \in [Controllers -> CtlRecords] /\ Controlled'
        /\ net' \subseteq Requests /\ \A m \in net' \ net : RequestOK(m)
    BY <1>2, <1>7, <1>8, DispatchKeeps
  <1> QED BY <1>1, <1>3, <1>4, <1>5, <1>9, RowSteps, Parts

(* An inspection, or a chunk, is sent.                                     *)
LEMMA SendStep ==
    ASSUME UpInv, NEW p \in Controllers, PrepareInspect(p) \/ ConfirmWrite(p)
    PROVE  UpInv'
  <1>1. UNCHANGED <<clock, elig, op, row, host, guest, replies, obj, put, cln, faults>>
    BY DEF PrepareInspect, ConfirmWrite, Prepared, guestVars, sourceVars
  <1>2. row.begun
    <2>1. CASE PrepareInspect(p)  BY <2>1 DEF PrepareInspect
    <2>2. CASE ConfirmWrite(p)
      <3>1. Staging  BY <2>2 DEF ConfirmWrite
      <3> QED BY <3>1, Parts DEF Staging, RowOK
    <2> QED BY <2>1, <2>2
  <1>3. /\ ctl' \in [Controllers -> CtlRecords] /\ Controlled'
        /\ net' \subseteq Requests /\ \A m \in net' \ net : RequestOK(m)
    <2>1. CASE PrepareInspect(p)
      <3>1. Dispatch(p, "inspect") /\ ctl[p].pc = "claimed"
        BY <2>1 DEF PrepareInspect, OnHost, Preparing
      <3>2. "inspect" \in Acts /\ "inspect" \notin Mutations  BY DEF Acts, Mutations
      <3> QED BY <3>1, <3>2, DispatchKeeps
    <2>2. CASE ConfirmWrite(p)
      <3>1. Dispatch(p, "write") /\ ctl[p].pc = "chunk" /\ clock < 2
        BY <2>2 DEF ConfirmWrite, Eligible
      <3>2. ctl[p].off < Chunks  BY <3>1, Parts DEF Controlled, CtlOK
      <3>3. "write" \in Acts  BY DEF Acts, Mutations
      <3> QED BY <3>1, <3>2, <3>3, DispatchKeeps
    <2> QED BY <2>1, <2>2
  <1> QED BY <1>1, <1>2, <1>3, SameRow, StillSupported, RowSteps, Parts

(* The source is accepted.                                                 *)
LEMMA AcceptStep ==
    ASSUME UpInv, NEW p \in Controllers, AcceptSource(p)
    PROVE  UpInv'
  <1>1. UNCHANGED <<clock, elig, net, host, guest, replies, obj, put, cln, faults>> /\ Idle(p)
    BY DEF AcceptSource, Prepared, guestVars, sourceVars
  <1>2. row' \in RowRecords /\ row'.begun = row.begun /\ row'.rec = row.rec /\ row'.written = row.written
        /\ row'.frozen = row.frozen /\ row'.retired = row.retired
    BY Parts DEF AcceptSource, RowRecords
  <1>3. op' \in OpRecords /\ op'.st = "running"  BY Parts DEF AcceptSource, Finish, OpRecords
  <1>4. RowMoves /\ Supported(op'.st)  BY <1>2, <1>3 DEF RowMoves, Supported
  <1> QED BY <1>1, <1>3, <1>4, Rests, RowSteps, Parts

(* Nothing is known of the call.                                           *)
LEMMA UncertainKeeps ==
    ASSUME UpInv, NEW p \in Controllers, Uncertain(p), UNCHANGED <<host, guest>>
    PROVE  /\ RowMoves /\ row'.begun = row.begun
           /\ op' \in OpRecords /\ Supported(op'.st)
           /\ ctl' \in [Controllers -> CtlRecords] /\ Controlled'
  <1>1. row' \in RowRecords /\ row'.begun = row.begun /\ row'.rec = row.rec /\ row'.written = row.written
        /\ row'.frozen = row.frozen /\ row'.retired = row.retired
    BY Parts DEF Uncertain, RowRecords
  <1>2. op' \in OpRecords /\ op'.st \in {"running", "unknown"}
    BY Parts DEF Uncertain, Finish, OpRecords
  <1>3. Idle(p)  BY DEF Uncertain
  <1> QED BY <1>1, <1>2, <1>3, Rests DEF RowMoves, Supported

(* A missing source, a refused chunk, a failed or a late call.             *)
LEMMA UncertainStep ==
    ASSUME UpInv, NEW p \in Controllers,
           SourceMissing(p) \/ ChunkRefused(p) \/ Refused(p) \/ Timeout(p)
    PROVE  UpInv'
  <1>1. UNCHANGED <<clock, elig, net, host, guest, replies, obj, put, cln>> /\ Uncertain(p)
    BY DEF SourceMissing, ChunkRefused, Refused, Timeout, Prepared, guestVars, sourceVars
  <1>2. faults' \in 0..MaxFaults
    BY FaultType DEF SourceMissing, ChunkRefused, Refused, Timeout, Prepared
  <1> QED BY <1>1, <1>2, UncertainKeeps, RowSteps, Parts

(* An observation is recorded.                                             *)
LEMMA ObserveStep ==
    ASSUME UpInv, NEW p \in Controllers, Observe(p)
    PROVE  UpInv'
  <1>1. UNCHANGED <<clock, elig, net, host, guest, obj, put, cln, faults>>
    BY DEF Observe, sourceVars
  <1>2. PICK r \in replies :
          /\ replies' = replies \ {r}
          /\ IF Evidence(p, r)
             THEN /\ row' = [row EXCEPT !.rec = Kept(r), !.needs = r.st # 1,
                               !.written = IF r.stored = None THEN @ ELSE r.stored]
                  /\ Finish(StatusOf(r)) /\ Idle(p)
             ELSE Uncertain(p)
    BY DEF Observe
  <1>3. r \in Answers /\ AnswerOK(r, host, guest)  BY Parts DEF Messages
  <1>4. row.begun  BY <1>2, Parts DEF RowOK
  <1>5. CASE ~Evidence(p, r)
    <2>1. Uncertain(p)  BY <1>2, <1>5
    <2> QED BY <1>1, <1>2, <1>4, <2>1, UncertainKeeps, RowSteps, Parts
  <1>6. CASE Evidence(p, r)
    <2>1. /\ row' = [row EXCEPT !.rec = Kept(r), !.needs = r.st # 1,
                               !.written = IF r.stored = None THEN @ ELSE r.stored]
          /\ Finish(StatusOf(r)) /\ Idle(p)
      BY <1>2, <1>6
    <2>2. Kept(r) \in Files
      BY <1>3, FileFacts, Parts DEF Kept, Answers, RowRecords, Files
    <2>3. r.stored # None => r.stored \in 0..Chunks
      BY <1>3, UploadsAssumption DEF Answers, Stored
    <2>4. row' \in RowRecords /\ row'.begun = row.begun /\ row'.frozen = row.frozen
          /\ row'.retired = row.retired
          /\ row'.written = (IF r.stored = None THEN row.written ELSE r.stored)
      BY <2>1, <2>2, <2>3, Parts DEF RowRecords
    <2>5. RowMoves  BY <1>3, <1>4, <2>4 DEF RowMoves, AnswerOK
    <2>6. StatusOf(r) \in {"failed", "succeeded", "running", "unknown"}
          /\ (StatusOf(r) = "failed" => r.ns \/ r.st = 5)
          /\ (StatusOf(r) = "succeeded" => r.st = 3)
      BY DEF StatusOf
    <2>7. op' \in OpRecords /\ op'.st = StatusOf(r)
      BY <2>1, <2>6, Parts DEF Finish, OpRecords
    <2>8. Supported(op'.st)  BY <1>3, <2>6, <2>7 DEF Supported, AnswerOK
    <2> QED BY <1>1, <1>2, <1>4, <2>1, <2>4, <2>5, <2>7, <2>8, Rests, RowSteps, Parts
  <1> QED BY <1>5, <1>6

-----------------------------------------------------------------------------
(* The host.                                                               *)

(* Who was called has a record, and whoever has a record was asked for.    *)
LEMMA Called ==
    ASSUME UpInv
    PROVE  /\ host.rec.has => row.begun
           /\ host.phase # "idle" => host.rec.has /\ ~host.rec.ns /\ host.req \in 1..MaxClaims
           /\ guest.job # NoJob => host.rec.has /\ ~host.rec.ns
           /\ net # {} \/ replies # {} => row.begun
  BY FileFacts, Parts DEF RowOK, HostOK, RecordOK, GateOK, Untouched

(* A guest that a step leaves alone.                                       *)
LEMMA SameGuest ==
    ASSUME UpInv, UNCHANGED guest
    PROVE  guest' \in GuestRecords /\ GuestOK' /\ Advances
  BY UploadsAssumption, Parts DEF GuestOK, Advances, GuestRecords, None

(* What the host may call the guest for.                                   *)
LEMMA CallFacts ==
    ASSUME NEW a \in Acts, NEW f, NEW new
    PROVE  /\ CallFor(a, f, new) \in Acts /\ (CallFor(a, f, new) = "write" => a = "write")
           /\ CallFor(a, f, new) \in Mutations => a \in Mutations
  BY DEF CallFor, Acts, Mutations

(* The record a request is taken up with.                                  *)
LEMMA TakenFile ==
    ASSUME UpInv, NEW f, NEW b,
           f = IF host.rec.has THEN host.rec ELSE IF b THEN PendingFile ELSE FencedFile,
           host.phase = "idle"
    PROVE  /\ f \in Files /\ f.has /\ (f.ns => f = FencedFile /\ Untouched(guest))
           /\ (f.st = 3 => guest.rcp = "committed") /\ (f.st = 5 => guest.rcp = "aborted")
           /\ (host.rec.ns => f.ns)
  <1>1. host.rec \in Files  BY Parts DEF HostRecords
  <1> QED BY <1>1, FileFacts, Parts DEF HostOK, RecordOK

(* A request is taken up.                                                  *)
LEMMA TakeStep ==
    ASSUME UpInv, HostTake
    PROVE  UpInv'
  <1>1. UNCHANGED <<clock, elig, op, row, ctl, guest, obj, put, cln, faults>>
        /\ host.phase = "idle"
    BY DEF HostTake, dbVars, sourceVars
  <1> DEFINE New == ~host.rec.has
             Up == host.alloc = "up"
             File(m) == IF ~New THEN host.rec
                        ELSE IF m.act = "begin" /\ Up THEN PendingFile ELSE FencedFile
             Call(m) == CallFor(m.act, File(m), New)
             Taken(m) ==
                IF Finished(File(m)) \/ ~Up
                THEN /\ host' = [host EXCEPT !.rec = File(m), !.rev = m.rev]
                     /\ replies' = replies \union
                           {[rev |-> m.rev, ns |-> File(m).ns, stored |-> None,
                             st |-> IF Finished(File(m)) THEN File(m).st ELSE 0]}
                ELSE /\ host' = [host EXCEPT !.rev = m.rev, !.phase = "call",
                                    !.call = Call(m), !.req = m.rev, !.off = m.off,
                                    !.rec = [File(m) EXCEPT !.cr = @ \/ Call(m) = "commit",
                                                            !.ar = @ \/ Call(m) = "abort"]]
                     /\ UNCHANGED replies
  <1>2. PICK m \in net : net' = net \ {m} /\ Taken(m)  BY DEF HostTake
  <1>3. m \in Requests /\ RequestOK(m) /\ row.begun  BY Called, Parts DEF Messages
  <1>4. PICK f : f = File(m)  OBVIOUS
  <1>5. PICK c : c = Call(m)  OBVIOUS
  <1>6. m.rev \in 1..MaxClaims /\ m.rev \in 0..MaxClaims /\ m.off \in 0..Chunks /\ m.act \in Acts
    BY <1>3, UploadsAssumption DEF Requests
  <1>7. c \in Acts /\ (c = "write" => m.off < Chunks)
    BY <1>3, <1>5, <1>6, CallFacts DEF RequestOK
  <1>8. /\ f \in Files /\ f.has /\ (f.ns => f = FencedFile /\ Untouched(guest))
        /\ (f.st = 3 => guest.rcp = "committed") /\ (f.st = 5 => guest.rcp = "aborted")
        /\ (host.rec.ns => f.ns)
    <2>1. f = IF host.rec.has THEN host.rec
              ELSE IF m.act = "begin" /\ Up THEN PendingFile ELSE FencedFile
      BY <1>4
    <2> HIDE DEF File, Up
    <2> QED BY <1>1, <2>1, TakenFile
  <1>9. CASE Finished(f) \/ ~Up
    <2>1. PICK r : r = [rev |-> m.rev, ns |-> f.ns, stored |-> None,
                        st |-> IF Finished(f) THEN f.st ELSE 0]
      OBVIOUS
    <2>2. host' = [host EXCEPT !.rec = f, !.rev = m.rev] /\ replies' = replies \union {r}
      <3> HIDE DEF File, Call, New, Up
      <3> QED BY <1>2, <1>4, <1>9, <2>1
    <2>3. host' \in HostRecords /\ host'.rec = f /\ host'.phase = "idle"
          /\ host'.call = host.call /\ host'.off = host.off
      BY <1>1, <1>6, <1>8, <2>2, Parts DEF HostRecords
    <2>4. r \in Answers /\ r.ns = f.ns /\ r.stored = None /\ r.st \in {0, f.st}
      BY <1>6, <1>8, <2>1 DEF Answers, Stored, Files
    <2>5. HostOK'
      BY <1>1, <1>8, <2>3, FileFacts, Parts DEF HostOK, RecordOK, GateOK
    <2>6. AnswerOK(r, host', guest')  BY <1>1, <1>8, <2>3, <2>4 DEF AnswerOK
    <2>7. replies' \subseteq Answers /\ \A q \in replies' \ replies : AnswerOK(q, host', guest')
      BY <2>2, <2>4, <2>6, Parts
    <2> QED BY <1>1, <1>2, <1>3, <1>8, <2>3, <2>5, <2>7, SameGuest, GuestSteps, Parts
  <1>10. CASE ~(Finished(f) \/ ~Up)
    <2>1. PICK g : g = [f EXCEPT !.cr = @ \/ c = "commit", !.ar = @ \/ c = "abort"]
      OBVIOUS
    <2>2. host' = [host EXCEPT !.rev = m.rev, !.phase = "call", !.call = c, !.req = m.rev,
                               !.off = m.off, !.rec = g]
          /\ replies' = replies
      <3> HIDE DEF File, Call, New, Up
      <3> QED BY <1>2, <1>4, <1>5, <1>10, <2>1
    <2>3. g \in Files /\ g.has = f.has /\ g.ns = f.ns /\ g.st = f.st
      BY <1>8, <2>1 DEF Files
    <2>4. ~f.ns  BY <1>10 DEF Finished
    <2>5. host' \in HostRecords /\ host'.rec = g /\ host'.phase = "call" /\ host'.call = c
          /\ host'.req = m.rev /\ host'.off = m.off
      BY <1>6, <1>7, <2>2, <2>3, Parts DEF HostRecords
    <2>6. HostOK'
      BY <1>1, <1>6, <1>7, <1>8, <2>3, <2>4, <2>5 DEF HostOK, RecordOK, GateOK
    <2> QED BY <1>1, <1>2, <1>3, <1>8, <2>2, <2>4, <2>5, <2>6, SameGuest, GuestSteps, Parts
  <1> QED BY <1>9, <1>10

(* A request or an answer is lost, or refused.                             *)
LEMMA LossStep ==
    ASSUME UpInv, LateReply \/ Drop
    PROVE  UpInv'
  <1>1. UNCHANGED <<clock, elig, op, row, ctl, host, guest, obj, put, cln, faults>>
    BY DEF LateReply, Drop, dbVars, guestVars, sourceVars
  <1>2. net' \subseteq net /\ replies' \subseteq replies
    BY DEF LateReply, Drop, guestVars
  <1>3. Controlled'  BY <1>1, Parts DEF Controlled
  <1> QED BY <1>1, <1>2, <1>3, SameRow, StillSupported, RowSteps, Parts

(* The gate is given back.                                                 *)
LEMMA UngatedFacts ==
    ASSUME host \in HostRecords
    PROVE  LET h == Ungated(host) IN
           /\ h \in HostRecords /\ h.rec = host.rec /\ h.phase = "idle" /\ h.call = "none"
           /\ h.alloc = host.alloc
  <1>1. 0 \in 0..MaxClaims /\ 0 \in 0..Chunks /\ "none" \in Acts
    BY UploadsAssumption DEF Acts
  <1> QED BY <1>1 DEF Ungated, HostRecords

(* Nothing is observed.                                                    *)
LEMMA GiveUpStep ==
    ASSUME UpInv, HostGivesUp
    PROVE  UpInv'
  <1>1. UNCHANGED <<clock, elig, op, row, ctl, net, guest, obj, put, cln>>
        /\ host.phase # "idle" /\ host' = Ungated(host)
    BY DEF HostGivesUp, dbVars, sourceVars
  <1>2. faults' \in 0..MaxFaults  BY FaultType DEF HostGivesUp
  <1>3. host' \in HostRecords /\ host'.rec = host.rec /\ host'.phase = "idle"
        /\ host'.call = "none"
    BY <1>1, UngatedFacts, Parts
  <1>4. HostOK'  BY <1>1, <1>3, Parts DEF HostOK, RecordOK, GateOK
  <1>5. PICK r : r = [rev |-> host.req, ns |-> host.rec.ns, st |-> 0, stored |-> None]
    OBVIOUS
  <1>6. replies' = replies \union {r}  BY <1>5 DEF HostGivesUp, Reply
  <1>7. r \in Answers /\ r.ns = host.rec.ns /\ r.st = 0 /\ r.stored = None
    BY <1>1, <1>5, Called, Parts DEF Answers, Stored, HostRecords, Files
  <1>8. AnswerOK(r, host', guest')  BY <1>3, <1>7 DEF AnswerOK
  <1> QED BY <1>1, <1>2, <1>3, <1>4, <1>6, <1>7, <1>8, Called, SameGuest, GuestSteps, Parts

-----------------------------------------------------------------------------
(* The guest.                                                              *)

(* What the host saves and says of a guest's answer is no better than the  *)
(* receipt.                                                                *)
LEMMA AnswerKeeps ==
    ASSUME UpInv, NEW rcp \in Receipts, NEW stored \in Stored, Answer(rcp, stored),
           guest.job # NoJob, guest' \in GuestRecords, Advances,
           rcp = "none" \/ rcp = guest'.rcp,
           stored # None => guest'.rcp = "staging" /\ stored <= guest'.data
    PROVE  /\ host' \in HostRecords /\ HostOK' /\ (host.rec.ns => host'.rec.ns)
           /\ replies' \subseteq Answers
           /\ \A r \in replies' \ replies : AnswerOK(r, host', guest')
           /\ row.begun
  <1>1. row.begun /\ host.rec.has /\ ~host.rec.ns /\ host \in HostRecords /\ host.rec \in Files
    BY Called, Parts DEF HostRecords
  <1>2. /\ host.rec.st = 3 => guest'.rcp = "committed"
        /\ host.rec.st = 5 => guest'.rcp = "aborted"
    BY Parts DEF HostOK, RecordOK, Advances
  <1>3. CASE host.phase # "wait"
    <2>1. host' = host /\ replies' = replies  BY <1>3 DEF Answer
    <2>2. HostOK'  BY <1>1, <1>2, <2>1, Parts DEF HostOK, RecordOK, GateOK
    <2> QED BY <1>1, <2>1, <2>2, Parts
  <1>4. CASE host.phase = "wait"
    <2> DEFINE s == StateOf[rcp]
    <2>1. s \in 0..5 /\ (s = 3 => guest'.rcp = "committed") /\ (s = 5 => guest'.rcp = "aborted")
      BY StateFacts
    <2> HIDE DEF s
    <2>2. PICK h : h = Ungated(host)  OBVIOUS
    <2>3. h \in HostRecords /\ h.rec = host.rec /\ h.phase = "idle" /\ h.call = "none"
      BY <2>2, UngatedFacts, Parts
    <2>4. \E t \in {host.rec.st, 0, s}, u \in {None, stored} :
             /\ host' = h \/ (host' = [h EXCEPT !.rec.st = s])
             /\ replies' = replies
                \/ replies' = replies \union {[rev |-> host.req, ns |-> host.rec.ns, st |-> t,
                                               stored |-> u]}
      BY <1>4, <2>2 DEF Answer, Reply, s
    <2>5. PICK t \in {host.rec.st, 0, s}, u \in {None, stored} :
             /\ host' = h \/ (host' = [h EXCEPT !.rec.st = s])
             /\ replies' = replies
                \/ replies' = replies \union {[rev |-> host.req, ns |-> host.rec.ns, st |-> t,
                                               stored |-> u]}
      BY <2>4
    <2>6. /\ host' \in HostRecords /\ host'.rec.has = host.rec.has /\ host'.rec.ns = host.rec.ns
          /\ host'.rec.st \in {host.rec.st, s} /\ host'.phase = "idle" /\ host'.call = "none"
      <3>1. CASE host' = h  BY <1>1, <2>3, <3>1
      <3>2. CASE host' = [h EXCEPT !.rec.st = s]
        <4>1. PICK f : f = [h.rec EXCEPT !.st = s]  OBVIOUS
        <4>2. f \in Files /\ f.has = host.rec.has /\ f.ns = host.rec.ns /\ f.st = s
          BY <1>1, <2>1, <2>3, <4>1 DEF Files
        <4>3. host' = [h EXCEPT !.rec = f]  BY <2>3, <3>2, <4>1 DEF HostRecords
        <4> QED BY <2>3, <4>2, <4>3 DEF HostRecords
      <3> QED BY <2>5, <3>1, <3>2
    <2>7. HostOK'  BY <1>1, <1>2, <2>1, <2>6 DEF HostOK, RecordOK, GateOK
    <2>8. PICK r : r = [rev |-> host.req, ns |-> host.rec.ns, st |-> t, stored |-> u]  OBVIOUS
    <2>9. t \in 0..5 /\ u \in Stored /\ host.req \in 1..MaxClaims
      BY <1>1, <1>4, <2>1, Called DEF Files, Stored
    <2>10. r \in Answers /\ r.ns = host.rec.ns /\ r.st = t /\ r.stored = u
      BY <1>1, <2>8, <2>9 DEF Answers, Files
    <2>11. AnswerOK(r, host', guest')  BY <1>1, <1>2, <2>1, <2>6, <2>10 DEF AnswerOK
    <2> QED BY <1>1, <2>5, <2>6, <2>7, <2>8, <2>10, <2>11, Parts
  <1> QED BY <1>3, <1>4

(* A step of the guest's worker that goes on.                              *)
LEMMA JobStep ==
    ASSUME UpInv, guest.job # NoJob, guest' \in GuestRecords, GuestOK', Advances,
           UNCHANGED <<host, replies>>, GuestFrame, faults' \in 0..MaxFaults
    PROVE  UpInv'
  <1>1. UNCHANGED <<clock, elig, op, row, ctl, net, obj, put, cln>>
    BY DEF GuestFrame, dbVars, sourceVars
  <1>2. row.begun /\ host.rec.has /\ ~host.rec.ns  BY Called
  <1>3. HostOK'  BY <1>2, Parts DEF HostOK, RecordOK, GateOK, Advances
  <1> QED BY <1>1, <1>2, <1>3, GuestSteps, Parts

(* A step of the guest's worker that answers.                              *)
LEMMA AnswerStep ==
    ASSUME UpInv, NEW rcp \in Receipts, NEW stored \in Stored, Answer(rcp, stored),
           guest.job # NoJob, guest' \in GuestRecords, GuestOK', Advances,
           rcp = "none" \/ rcp = guest'.rcp,
           stored # None => guest'.rcp = "staging" /\ stored <= guest'.data,
           GuestFrame, faults' \in 0..MaxFaults
    PROVE  UpInv'
  <1>1. UNCHANGED <<clock, elig, op, row, ctl, net, obj, put, cln>>
    BY DEF GuestFrame, dbVars, sourceVars
  <1> QED BY <1>1, AnswerKeeps, GuestSteps, Parts

(* The guest's record by its fields, and jobs that are none.               *)
LEMMA GuestFacts ==
    ASSUME UpInv
    PROVE  /\ guest.up \in BOOLEAN /\ guest.rcp \in Receipts /\ guest.pubs \in 0..1
           /\ guest.data \in {None} \union 0..Chunks /\ guest.data \in Int
           /\ guest.job \in Jobs /\ guest.job.step \in 0..2 /\ guest.job.off \in 0..Chunks
           /\ NoJob \in Jobs /\ NoJob.kind = "none" /\ NoJob.step = 0 /\ NoJob.off = 0
           /\ Chunks \in Nat /\ 0 \in 0..Chunks /\ None \notin Nat
  BY UploadsAssumption, Parts DEF GuestRecords, Jobs, NoJob, Acts, None

(* A call is accepted.                                                     *)
LEMMA AcceptedStep ==
    ASSUME UpInv, GuestAccept
    PROVE  UpInv'
  <1>1. UNCHANGED <<clock, elig, op, row, ctl, net, replies, obj, put, cln, faults>>
        /\ host.phase = "call"
    BY DEF GuestAccept, GuestFrame, dbVars, sourceVars
  <1>2. PICK j : j = [kind |-> host.call, step |-> 0, off |-> host.off]  OBVIOUS
  <1>3. guest' = [guest EXCEPT !.job = j] /\ host' = [host EXCEPT !.phase = "wait"] /\ guest.up
    BY <1>2 DEF GuestAccept
  <1>4. j \in Jobs /\ j.step = 0 /\ j.kind = host.call /\ j.off = host.off
    BY <1>2, Parts DEF Jobs, HostRecords
  <1>5. guest' \in GuestRecords /\ guest'.job = j /\ guest'.up = guest.up
        /\ guest'.rcp = guest.rcp /\ guest'.data = guest.data /\ guest'.pubs = guest.pubs
    BY <1>3, <1>4, Parts DEF GuestRecords
  <1>6. host' \in HostRecords /\ host'.rec = host.rec /\ host'.phase = "wait"
        /\ host'.call = host.call /\ host'.req = host.req /\ host'.off = host.off
    BY <1>3, Parts DEF HostRecords
  <1>7. row.begun /\ host.rec.has /\ ~host.rec.ns  BY <1>1, Called
  <1>8. GuestOK'
    BY <1>3, <1>4, <1>5, Parts DEF GuestOK, ReceiptOK, JobOK, HostOK, GateOK
  <1>9. HostOK'  BY <1>1, <1>5, <1>6, <1>7, Parts DEF HostOK, RecordOK, GateOK
  <1>10. Advances  BY <1>5, GuestFacts DEF Advances
  <1> QED BY <1>1, <1>5, <1>6, <1>7, <1>8, <1>9, <1>10, GuestSteps, Parts

(* A job in hand is a job.                                                 *)
LEMMA InHand ==
    ASSUME UpInv, NEW kind \in Acts \ {"none"}, NEW step, Job(kind, step)
    PROVE  guest.job # NoJob /\ guest.up /\ guest.job.kind = kind /\ guest.job.step = step
  BY GuestFacts DEF Job

(* The worker's job moves on, and the guest's files with it.               *)
LEMMA Steps ==
    ASSUME UpInv, NEW g \in GuestRecords, g.job = guest.job, guest.job.step \in 0..1,
           guest' = [g EXCEPT !.job.step = @ + 1]
    PROVE  /\ guest' \in GuestRecords /\ guest'.rcp = g.rcp /\ guest'.data = g.data
           /\ guest'.pubs = g.pubs /\ guest'.up = g.up
           /\ guest'.job.kind = guest.job.kind /\ guest'.job.step = guest.job.step + 1
           /\ guest'.job.off = guest.job.off
  <1>1. PICK j : j = [g.job EXCEPT !.step = @ + 1]  OBVIOUS
  <1>2. guest.job.step + 1 \in 0..2 /\ guest.job \in Jobs  BY GuestFacts
  <1>3. j \in Jobs /\ j.kind = guest.job.kind /\ j.step = guest.job.step + 1
        /\ j.off = guest.job.off
    BY <1>1, <1>2 DEF Jobs
  <1>4. guest' = [g EXCEPT !.job = j]  BY <1>1 DEF GuestRecords
  <1> QED BY <1>3, <1>4 DEF GuestRecords

(* The worker is free again.                                               *)
LEMMA Ends ==
    ASSUME UpInv, NEW g \in GuestRecords, guest' = [g EXCEPT !.job = NoJob]
    PROVE  /\ guest' \in GuestRecords /\ guest'.rcp = g.rcp /\ guest'.data = g.data
           /\ guest'.pubs = g.pubs /\ guest'.up = g.up /\ guest'.job = NoJob
           /\ (ReceiptOK(g) => GuestOK')
  <1>1. /\ guest' \in GuestRecords /\ guest'.rcp = g.rcp /\ guest'.data = g.data
        /\ guest'.pubs = g.pubs /\ guest'.up = g.up /\ guest'.job = NoJob
    BY GuestFacts DEF GuestRecords
  <1> QED BY <1>1, GuestFacts DEF GuestOK, ReceiptOK, JobOK

(* A job is answered without a change.                                     *)
LEMMA PlainAnswer ==
    ASSUME UpInv, guest.job # NoJob, GuestFrame, Fault \/ UNCHANGED faults,
           Fail(guest) \/ Return(guest, None)
    PROVE  UpInv'
  <1>1. guest' = [guest EXCEPT !.job = NoJob]  BY DEF Fail, Return
  <1>2. \E rcp \in {"none", guest.rcp} : Answer(rcp, None)  BY DEF Fail, Return
  <1>3. PICK rcp \in {"none", guest.rcp} : Answer(rcp, None)  BY <1>2
  <1>4. rcp \in Receipts /\ None \in Stored  BY GuestFacts DEF Receipts, Stored
  <1>5. guest' \in GuestRecords /\ GuestOK' /\ guest'.rcp = guest.rcp /\ guest'.data = guest.data
    BY <1>1, Ends, Parts DEF GuestOK
  <1>6. Advances  BY <1>5, GuestFacts DEF Advances
  <1> QED BY <1>3, <1>4, <1>5, <1>6, AnswerStep, FaultType

(* The staging file, then its receipt.                                     *)
LEMMA BeginStep ==
    ASSUME UpInv, GuestBegin
    PROVE  UpInv'
  <1>1. GuestFrame  BY DEF GuestBegin
  <1>2. CASE Job("begin", 0) /\ guest.rcp = "none"
             /\ Step([guest EXCEPT !.data = 0]) /\ UNCHANGED faults
    <2>1. guest.job # NoJob /\ guest.job.kind = "begin" /\ guest.job.step = 0 /\ guest.up
      BY <1>2, InHand DEF Acts, Mutations
    <2>2. PICK g : g = [guest EXCEPT !.data = 0]  OBVIOUS
    <2>3. g \in GuestRecords /\ g.job = guest.job /\ g.rcp = "none" /\ g.data = 0
          /\ g.pubs = guest.pubs /\ g.up
      BY <1>2, <2>1, <2>2, GuestFacts, Parts DEF GuestRecords
    <2>4. guest' = [g EXCEPT !.job.step = @ + 1] /\ UNCHANGED <<host, replies>>
      BY <1>2, <2>2 DEF Step
    <2>5. /\ guest' \in GuestRecords /\ guest'.rcp = "none" /\ guest'.data = 0 /\ guest'.up
          /\ guest'.pubs = guest.pubs /\ guest'.job.kind = "begin" /\ guest'.job.step = 1
      BY <2>1, <2>3, <2>4, Steps
    <2>6. guest.pubs = 0  BY <1>2, Parts DEF GuestOK, ReceiptOK
    <2>7. GuestOK'  BY <2>5, <2>6 DEF GuestOK, ReceiptOK, JobOK, None
    <2>8. Advances  BY <1>2, <2>5 DEF Advances
    <2> QED BY <1>1, <1>2, <2>1, <2>4, <2>5, <2>7, <2>8, JobStep, FaultType
  <1>3. CASE Job("begin", 0) /\ (Refuse \/ (Return(guest, None) /\ UNCHANGED faults))
    <2>1. guest.job # NoJob  BY <1>3, InHand DEF Acts, Mutations
    <2> QED BY <1>1, <1>3, <2>1, PlainAnswer DEF Refuse
  <1>4. CASE Job("begin", 1) /\ Return([guest EXCEPT !.rcp = "staging"], None) /\ UNCHANGED faults
    <2>1. guest.job # NoJob /\ guest.job.kind = "begin" /\ guest.job.step = 1
      BY <1>4, InHand DEF Acts, Mutations
    <2>2. guest.rcp = "none" /\ guest.data # None /\ guest.pubs = 0
      BY <2>1, Parts DEF GuestOK, JobOK, ReceiptOK
    <2>3. PICK g : g = [guest EXCEPT !.rcp = "staging"]  OBVIOUS
    <2>4. g \in GuestRecords /\ g.rcp = "staging" /\ g.data = guest.data /\ g.pubs = 0
      BY <2>2, <2>3, Parts DEF GuestRecords, Receipts
    <2>5. guest' = [g EXCEPT !.job = NoJob] /\ Answer("staging", None)
      BY <1>4, <2>3, <2>4 DEF Return
    <2>6. guest' \in GuestRecords /\ GuestOK' /\ guest'.rcp = "staging"
      BY <2>2, <2>4, <2>5, Ends DEF ReceiptOK
    <2>7. Advances  BY <2>2, <2>6 DEF Advances
    <2>8. "staging" \in Receipts /\ None \in Stored  BY DEF Receipts, Stored
    <2> QED BY <1>1, <1>4, <2>1, <2>5, <2>6, <2>7, <2>8, AnswerStep, FaultType
  <1> QED BY <1>2, <1>3, <1>4 DEF GuestBegin

(* A chunk: contiguous, or one that is there.                              *)
LEMMA WriteStep ==
    ASSUME UpInv, GuestWrite
    PROVE  UpInv'
  <1>1. GuestFrame /\ UNCHANGED faults /\ Job("write", 0)  BY DEF GuestWrite
  <1>2. guest.job # NoJob /\ guest.job.kind = "write"
    BY <1>1, InHand DEF Acts, Mutations
  <1>3. CASE ~(guest.rcp = "staging" /\ guest.job.off <= guest.data)
    BY <1>1, <1>2, <1>3, PlainAnswer DEF GuestWrite
  <1>4. CASE guest.rcp = "staging" /\ guest.job.off <= guest.data
    <2>1. PICK size : size = IF guest.data > guest.job.off + 1 THEN guest.data
                             ELSE guest.job.off + 1
      OBVIOUS
    <2>2. Return([guest EXCEPT !.data = size], size)  BY <1>4, <2>1 DEF GuestWrite
    <2>3. guest.job.off < Chunks /\ guest.data # None /\ guest.pubs = 0
      BY <1>2, <1>4, Parts DEF GuestOK, JobOK, ReceiptOK
    <2>4. size \in 1..Chunks /\ size \in 0..Chunks /\ guest.data <= size
      BY <2>1, <2>3, GuestFacts
    <2>5. PICK g : g = [guest EXCEPT !.data = size]  OBVIOUS
    <2>6. g \in GuestRecords /\ g.rcp = "staging" /\ g.data = size /\ g.pubs = 0
      BY <1>4, <2>3, <2>4, <2>5, Parts DEF GuestRecords
    <2>7. guest' = [g EXCEPT !.job = NoJob] /\ Answer("staging", size)
      BY <2>2, <2>5, <2>6 DEF Return
    <2>8. guest' \in GuestRecords /\ GuestOK' /\ guest'.rcp = "staging" /\ guest'.data = size
      BY <2>4, <2>6, <2>7, Ends, GuestFacts DEF ReceiptOK
    <2>9. Advances  BY <1>4, <2>4, <2>8 DEF Advances
    <2>10. "staging" \in Receipts /\ size \in Stored /\ size <= size
      BY <2>4 DEF Receipts, Stored
    <2> QED BY <1>1, <1>2, <2>7, <2>8, <2>9, <2>10, AnswerStep, FaultType
  <1> QED BY <1>3, <1>4

(* The intent, the rename, the result.                                     *)
LEMMA CommitStep ==
    ASSUME UpInv, GuestCommit
    PROVE  UpInv'
  <1>1. GuestFrame  BY DEF GuestCommit
  <1>2. CASE Job("commit", 0) /\ guest.rcp = "staging" /\ guest.data = Chunks
             /\ Step([guest EXCEPT !.rcp = "intent"]) /\ UNCHANGED faults
    <2>1. guest.job # NoJob /\ guest.job.kind = "commit" /\ guest.job.step = 0 /\ guest.up
      BY <1>2, InHand DEF Acts, Mutations
    <2>2. PICK g : g = [guest EXCEPT !.rcp = "intent"]  OBVIOUS
    <2>3. g \in GuestRecords /\ g.job = guest.job /\ g.rcp = "intent" /\ g.pubs = guest.pubs
          /\ g.up
      BY <2>1, <2>2, Parts DEF GuestRecords, Receipts
    <2>4. guest' = [g EXCEPT !.job.step = @ + 1] /\ UNCHANGED <<host, replies>>
      BY <1>2, <2>2 DEF Step
    <2>5. /\ guest' \in GuestRecords /\ guest'.rcp = "intent" /\ guest'.up
          /\ guest'.pubs = guest.pubs /\ guest'.job.kind = "commit" /\ guest'.job.step = 1
      BY <2>1, <2>3, <2>4, Steps
    <2>6. guest.pubs = 0  BY <1>2, Parts DEF GuestOK, ReceiptOK
    <2>7. GuestOK'  BY <2>5, <2>6 DEF GuestOK, ReceiptOK, JobOK
    <2>8. Advances  BY <1>2, <2>5 DEF Advances
    <2> QED BY <1>1, <1>2, <2>1, <2>4, <2>5, <2>7, <2>8, JobStep, FaultType
  <1>3. CASE /\ Job("commit", 0) /\ (Fault \/ UNCHANGED faults)
             /\ (Fail(guest) \/ Return(guest, None))
    <2>1. guest.job # NoJob  BY <1>3, InHand DEF Acts, Mutations
    <2> QED BY <1>1, <1>3, <2>1, PlainAnswer
  <1>4. CASE Job("commit", 1)
    <2>1. guest.job # NoJob /\ guest.job.kind = "commit" /\ guest.job.step = 1 /\ guest.up
      BY <1>4, InHand DEF Acts, Mutations
    <2>2. guest.rcp = "intent" /\ guest.pubs = 0  BY <2>1, Parts DEF GuestOK, JobOK
    <2>3. PICK g : g = [guest EXCEPT !.data = None, !.pubs = @ + 1]  OBVIOUS
    <2>4. g \in GuestRecords /\ g.job = guest.job /\ g.rcp = "intent" /\ g.pubs = 1 /\ g.up
      <3>1. g = [guest EXCEPT !.data = None, !.pubs = 1]
        <4>1. guest.pubs + 1 = 1  BY <2>2
        <4> QED BY <2>3, <4>1, Parts DEF GuestRecords
      <3>2. 1 \in 0..1 /\ None \in {None} \union 0..Chunks  OBVIOUS
      <3> QED BY <2>1, <2>2, <3>1, <3>2, Parts DEF GuestRecords
    <2>5. CASE Step([guest EXCEPT !.data = None, !.pubs = @ + 1]) /\ UNCHANGED faults
      <3>1. guest' = [g EXCEPT !.job.step = @ + 1] /\ UNCHANGED <<host, replies>>
        BY <2>3, <2>5 DEF Step
      <3>2. /\ guest' \in GuestRecords /\ guest'.rcp = "intent" /\ guest'.up
            /\ guest'.pubs = 1 /\ guest'.job.kind = "commit" /\ guest'.job.step = 2
        BY <2>1, <2>4, <3>1, Steps
      <3>3. GuestOK'  BY <3>2 DEF GuestOK, ReceiptOK, JobOK
      <3>4. Advances  BY <2>2, <3>2 DEF Advances
      <3> QED BY <1>1, <2>1, <2>5, <3>1, <3>2, <3>3, <3>4, JobStep, FaultType
    <2>6. CASE /\ Fault
               /\ \E x \in {guest, [guest EXCEPT !.data = None, !.pubs = @ + 1]} :
                    /\ guest' = [x EXCEPT !.rcp = "unknown", !.job = NoJob]
                    /\ Answer("none", None)
      <3>1. PICK x \in {guest, g} :
                    guest' = [x EXCEPT !.rcp = "unknown", !.job = NoJob] /\ Answer("none", None)
        BY <2>3, <2>6
      <3>2. x \in GuestRecords  BY <2>4, Parts
      <3>3. PICK y : y = [x EXCEPT !.rcp = "unknown"]  OBVIOUS
      <3>4. y \in GuestRecords /\ y.rcp = "unknown"  BY <3>2, <3>3 DEF GuestRecords, Receipts
      <3>5. guest' = [y EXCEPT !.job = NoJob]  BY <3>1, <3>2, <3>3 DEF GuestRecords
      <3>6. guest' \in GuestRecords /\ GuestOK' /\ guest'.rcp = "unknown"
        BY <3>4, <3>5, Ends DEF ReceiptOK
      <3>7. Advances  BY <2>2, <3>6 DEF Advances
      <3>8. "none" \in Receipts /\ None \in Stored  BY DEF Receipts, Stored
      <3> QED BY <1>1, <2>1, <2>6, <3>1, <3>6, <3>7, <3>8, AnswerStep, FaultType
    <2>7. \/ Step([guest EXCEPT !.data = None, !.pubs = @ + 1]) /\ UNCHANGED faults
          \/ /\ Fault
             /\ \E x \in {guest, [guest EXCEPT !.data = None, !.pubs = @ + 1]} :
                    /\ guest' = [x EXCEPT !.rcp = "unknown", !.job = NoJob]
                    /\ Answer("none", None)
      BY <1>4 DEF GuestCommit, Job
    <2> QED BY <2>5, <2>6, <2>7
  <1>5. CASE Job("commit", 2) /\ Return([guest EXCEPT !.rcp = "committed"], None)
             /\ UNCHANGED faults
    <2>1. guest.job # NoJob /\ guest.job.kind = "commit" /\ guest.job.step = 2
      BY <1>5, InHand DEF Acts, Mutations
    <2>2. guest.rcp = "intent" /\ guest.pubs = 1  BY <2>1, Parts DEF GuestOK, JobOK
    <2>3. PICK g : g = [guest EXCEPT !.rcp = "committed"]  OBVIOUS
    <2>4. g \in GuestRecords /\ g.rcp = "committed" /\ g.pubs = 1
      BY <2>2, <2>3, Parts DEF GuestRecords, Receipts
    <2>5. guest' = [g EXCEPT !.job = NoJob] /\ Answer("committed", None)
      BY <1>5, <2>3, <2>4 DEF Return
    <2>6. guest' \in GuestRecords /\ GuestOK' /\ guest'.rcp = "committed"
      BY <2>4, <2>5, Ends DEF ReceiptOK
    <2>7. Advances  BY <2>2, <2>6 DEF Advances
    <2>8. "committed" \in Receipts /\ None \in Stored  BY DEF Receipts, Stored
    <2> QED BY <1>1, <1>5, <2>1, <2>5, <2>6, <2>7, <2>8, AnswerStep, FaultType
  <1> QED BY <1>2, <1>3, <1>4, <1>5 DEF GuestCommit, Refuse

(* The receipt, then the staging file.                                     *)
LEMMA AbortStep ==
    ASSUME UpInv, GuestAbort
    PROVE  UpInv'
  <1>1. GuestFrame /\ UNCHANGED faults  BY DEF GuestAbort
  <1>2. CASE Job("abort", 0) /\ guest.rcp = "staging" /\ Step([guest EXCEPT !.rcp = "aborted"])
    <2>1. guest.job # NoJob /\ guest.job.kind = "abort" /\ guest.job.step = 0 /\ guest.up
      BY <1>2, InHand DEF Acts, Mutations
    <2>2. PICK g : g = [guest EXCEPT !.rcp = "aborted"]  OBVIOUS
    <2>3. g \in GuestRecords /\ g.job = guest.job /\ g.rcp = "aborted" /\ g.pubs = guest.pubs
          /\ g.up
      BY <2>1, <2>2, Parts DEF GuestRecords, Receipts
    <2>4. guest' = [g EXCEPT !.job.step = @ + 1] /\ UNCHANGED <<host, replies>>
      BY <1>2, <2>2 DEF Step
    <2>5. /\ guest' \in GuestRecords /\ guest'.rcp = "aborted" /\ guest'.up
          /\ guest'.pubs = guest.pubs /\ guest'.job.kind = "abort" /\ guest'.job.step = 1
      BY <2>1, <2>3, <2>4, Steps
    <2>6. guest.pubs = 0  BY <1>2, Parts DEF GuestOK, ReceiptOK
    <2>7. GuestOK'  BY <2>5, <2>6 DEF GuestOK, ReceiptOK, JobOK
    <2>8. Advances  BY <1>2, <2>5 DEF Advances
    <2> QED BY <1>1, <2>1, <2>4, <2>5, <2>7, <2>8, JobStep, FaultType
  <1>3. CASE Job("abort", 0) /\ (Fail(guest) \/ Return(guest, None))
    <2>1. guest.job # NoJob  BY <1>3, InHand DEF Acts, Mutations
    <2> QED BY <1>1, <1>3, <2>1, PlainAnswer
  <1>4. CASE Job("abort", 1) /\ Return([guest EXCEPT !.data = None], None)
    <2>1. guest.job # NoJob /\ guest.job.kind = "abort" /\ guest.job.step = 1
      BY <1>4, InHand DEF Acts, Mutations
    <2>2. guest.rcp = "aborted" /\ guest.pubs = 0  BY <2>1, Parts DEF GuestOK, JobOK, ReceiptOK
    <2>3. PICK g : g = [guest EXCEPT !.data = None]  OBVIOUS
    <2>4. g \in GuestRecords /\ g.rcp = "aborted" /\ g.pubs = 0
      BY <2>2, <2>3, Parts DEF GuestRecords
    <2>5. guest' = [g EXCEPT !.job = NoJob] /\ Answer("aborted", None)
      BY <1>4, <2>3, <2>4 DEF Return
    <2>6. guest' \in GuestRecords /\ GuestOK' /\ guest'.rcp = "aborted"
      BY <2>4, <2>5, Ends DEF ReceiptOK
    <2>7. Advances  BY <2>2, <2>6 DEF Advances
    <2>8. "aborted" \in Receipts /\ None \in Stored  BY DEF Receipts, Stored
    <2> QED BY <1>1, <2>1, <2>5, <2>6, <2>7, <2>8, AnswerStep, FaultType
  <1> QED BY <1>2, <1>3, <1>4 DEF GuestAbort

(* A receipt is read.                                                      *)
LEMMA InspectStep ==
    ASSUME UpInv, GuestInspect
    PROVE  UpInv'
  <1>1. GuestFrame /\ UNCHANGED faults /\ Job("inspect", 0)
        /\ (Fail(guest) \/ Return(guest, None))
    BY DEF GuestInspect
  <1>2. guest.job # NoJob  BY <1>1, InHand DEF Acts, Mutations
  <1> QED BY <1>1, <1>2, PlainAnswer

(* The guest's service ends, alone or with its machine, or loses its host. *)
LEMMA DownStep ==
    ASSUME UpInv, GuestCrash \/ AllocationEnds
    PROVE  UpInv'
  <1>1. UNCHANGED <<clock, op, row, ctl, net, replies, obj, put, cln>>
        /\ (guest' = [guest EXCEPT !.up = FALSE, !.job = NoJob] \/ guest' = guest)
    BY DEF GuestCrash, AllocationEnds, GuestFrame, dbVars, sourceVars
  <1>2. elig' \in BOOLEAN /\ faults' \in 0..MaxFaults
    BY FaultType, Parts DEF GuestCrash, AllocationEnds, GuestFrame
  <1>3. guest' \in GuestRecords /\ guest'.rcp = guest.rcp /\ guest'.data = guest.data
        /\ guest'.pubs = guest.pubs /\ (guest'.job = NoJob \/ guest' = guest)
    BY <1>1, GuestFacts, Parts DEF GuestRecords
  <1>4. GuestOK' /\ Advances
    BY <1>3, GuestFacts, Parts DEF GuestOK, ReceiptOK, JobOK, Advances
  <1>5. /\ host' \in HostRecords /\ host'.rec = host.rec
        /\ \/ /\ host'.phase = host.phase /\ host'.call = host.call /\ host'.req = host.req
              /\ host'.off = host.off
           \/ host'.phase = "idle" /\ host'.call = "none"
    <2>1. CASE GuestCrash  BY <2>1, Parts DEF GuestCrash
    <2>2. CASE AllocationEnds /\ host' = [host EXCEPT !.alloc = "stopped"]
      BY <2>2, Parts DEF HostRecords
    <2>3. CASE AllocationEnds /\ host' = [Ungated(host) EXCEPT !.alloc = "moved"]
      <3>1. PICK h : h = Ungated(host)  OBVIOUS
      <3>2. h \in HostRecords /\ h.rec = host.rec /\ h.phase = "idle" /\ h.call = "none"
        BY <3>1, UngatedFacts, Parts
      <3> QED BY <2>3, <3>1, <3>2 DEF HostRecords
    <2> QED BY <2>1, <2>2, <2>3 DEF AllocationEnds
  <1>6. HostOK'  BY <1>3, <1>5, Parts DEF HostOK, RecordOK, GateOK, Untouched
  <1> QED BY <1>1, <1>2, <1>3, <1>4, <1>5, <1>6, GuestSteps, Parts

(* The service opens what the last one left.                               *)
LEMMA ReopenStep ==
    ASSUME UpInv, Reopen
    PROVE  UpInv'
  <1>1. UNCHANGED <<clock, elig, op, row, ctl, net, host, replies, obj, put, cln, faults>>
        /\ ~guest.up
    BY DEF Reopen, GuestFrame, dbVars, sourceVars
  <1>2. guest.job = NoJob  BY <1>1, Parts DEF GuestOK, JobOK
  <1>3. /\ guest' \in GuestRecords /\ guest'.pubs = guest.pubs /\ guest'.job = NoJob
        /\ guest'.rcp = (IF guest.rcp = "intent" THEN "unknown" ELSE guest.rcp)
        /\ guest.rcp = "staging" => guest'.data = guest.data
    BY <1>2, Parts DEF Reopen, GuestRecords, Receipts
  <1>4. GuestOK' /\ Advances
    BY <1>3, GuestFacts, Parts DEF GuestOK, ReceiptOK, JobOK, Advances
  <1>5. HostOK'  BY <1>1, <1>3, Parts DEF HostOK, RecordOK, GateOK, Untouched
  <1> QED BY <1>1, <1>3, <1>4, <1>5, GuestSteps, Parts

-----------------------------------------------------------------------------
(* The environment.                                                        *)

(* Time passes, and with the grace everything sent before the deadline.    *)
LEMMA ClockStep ==
    ASSUME UpInv, Tick
    PROVE  UpInv'
  <1>1. UNCHANGED <<elig, op, row, ctl, replies, host, guest, obj, put, cln, faults>>
    BY DEF Tick, dbVars, guestVars, sourceVars
  <1>2. clock < 3 /\ clock' = clock + 1 /\ clock' \in 0..3  BY Parts DEF Tick
  <1>3. net' \subseteq net /\ (clock' = 3 => \A m \in net' : m.born = 2)  BY DEF Tick
  <1>4. Typed'  BY <1>1, <1>2, <1>3, Parts DEF Typed
  <1>5. GuestOK' /\ HostOK' /\ Controlled' /\ Sources'
    BY <1>1, Parts DEF GuestOK, HostOK, Controlled, Sources
  <1>6. Messages'
    <2>1. \A r \in replies' : AnswerOK(r, host', guest')
      BY <1>1, Parts DEF Messages, AnswerOK
    <2>2. ASSUME NEW m \in net' PROVE RequestOK(m)'
      <3>1. RequestOK(m) /\ (clock' = 3 => m.born = 2)  BY <1>3, Parts DEF Messages
      <3> QED BY <3>1 DEF RequestOK
    <2> QED BY <2>1, <2>2 DEF Messages
  <1>7. RowOK'
    <2>1. ~row.frozen  BY <1>2, Parts DEF RowOK
    <2> QED BY <1>1, <1>3, <2>1, Parts DEF RowOK
  <1> QED BY <1>4, <1>5, <1>6, <1>7 DEF UpInv

(* Authority comes and goes.                                               *)
LEMMA AuthorityStep ==
    ASSUME UpInv, LoseAuthority \/ RegainAuthority
    PROVE  UpInv'
  <1>1. UNCHANGED <<clock, op, row, ctl, net, replies, host, guest, obj, put, cln>>
        /\ elig' \in BOOLEAN
    BY DEF LoseAuthority, RegainAuthority, dbVars, guestVars, sourceVars
  <1>2. faults' \in 0..MaxFaults  BY FaultType DEF LoseAuthority, RegainAuthority
  <1>3. HostOK'  BY <1>1, Parts DEF HostOK
  <1> QED BY <1>1, <1>2, <1>3, SameGuest, GuestSteps, Parts

-----------------------------------------------------------------------------
(* Cleanup.                                                                *)

(* A cleanup worker moves and leaves the marker in place.                  *)
LEMMA Cleans ==
    ASSUME UpInv, NEW k \in Cleaners, NEW x \in ClnRecords, cln' = [cln EXCEPT ![k] = x],
           obj' \in ObjRecords, ObjOK(obj'), ClnOK(x, obj'),
           obj.cur = "marker" => obj'.cur = "marker" /\ (obj'.old => obj.old),
           row'.retired => row.retired \/ Buried(obj')
    PROVE  cln' \in [Cleaners -> ClnRecords] /\ Sources'
  <1>1. cln' \in [Cleaners -> ClnRecords]  BY Parts
  <1>2. row'.retired => Buried(obj')  BY Parts DEF Sources, Buried
  <1>3. ASSUME NEW j \in Cleaners PROVE ClnOK(cln'[j], obj')
    <2>1. CASE j = k  BY <2>1, Parts
    <2>2. CASE j # k
      <3>1. cln'[j] = cln[j] /\ ClnOK(cln[j], obj)  BY <2>2, Parts DEF Sources
      <3> QED BY <3>1 DEF ClnOK, Buried
    <2> QED BY <2>1, <2>2
  <1> QED BY <1>1, <1>2, <1>3 DEF Sources

(* A worker rests.                                                         *)
LEMMA RestFacts ==
    IdleCleaner \in ClnRecords /\ \A o : ClnOK(IdleCleaner, o)
  BY DEF IdleCleaner, ClnRecords, ClnOK, Contents

(* What cleanup finds.                                                     *)
LEMMA SourceFacts ==
    ASSUME UpInv, NEW k \in Cleaners
    PROVE  /\ cln[k] \in ClnRecords /\ ClnOK(cln[k], obj) /\ ObjOK(obj)
           /\ obj.cur \in Contents /\ obj.prev \in BOOLEAN /\ obj.old \in BOOLEAN
  BY Parts DEF Sources, ObjRecords

(* The source is frozen and claimed.                                       *)
LEMMA CleanClaimStep ==
    ASSUME UpInv, NEW k \in Cleaners, CleanClaim(k)
    PROVE  UpInv'
  <1>1. UNCHANGED <<clock, elig, op, ctl, net, host, guest, replies, put, obj, faults>>
        /\ clock = 3
    BY DEF CleanClaim, CleanFrame, guestVars
  <1>2. PICK r : r = Max({cln[j].rev : j \in Cleaners}) + 1  OBVIOUS
  <1>3. r \in Nat  BY <1>2, NextCleanup, Parts
  <1>4. PICK x : x = [IdleCleaner EXCEPT !.pc = "claimed", !.rev = r]  OBVIOUS
  <1>5. /\ row' = [row EXCEPT !.frozen = TRUE, !.crev = r, !.clease = TRUE,
                              !.sel = IF row.frozen THEN @ ELSE row.source]
        /\ cln' = [cln EXCEPT ![k] = x]
    BY <1>2, <1>4 DEF CleanClaim
  <1>6. row' \in RowRecords /\ row'.begun = row.begun /\ row'.rec = row.rec
        /\ row'.written = row.written /\ row'.retired = row.retired
    BY <1>3, <1>5, Parts DEF RowRecords
  <1>7. x \in ClnRecords /\ x.pc = "claimed"  BY <1>3, <1>4, RestFacts DEF ClnRecords
  <1>8. ClnOK(x, obj)  BY <1>7 DEF ClnOK
  <1>9. cln' \in [Cleaners -> ClnRecords] /\ Sources'
    BY <1>1, <1>5, <1>6, <1>7, <1>8, Cleans, SourceFacts, Parts
  <1> QED BY <1>1, <1>6, <1>9, SourceSteps, Parts

(* A claim is confirmed, the object read, the marker put in its place and  *)
(* the version under it removed.                                           *)
LEMMA CleanWorkStep ==
    ASSUME UpInv, NEW k \in Cleaners,
           CleanPrepare(k) \/ CleanLook(k) \/ CleanMark(k) \/ CleanRemove(k)
    PROVE  UpInv'
  <1>1. UNCHANGED <<clock, elig, op, row, ctl, net, host, guest, replies, put, faults>>
    BY DEF CleanPrepare, CleanLook, CleanMark, CleanRemove, CleanFrame, guestVars
  <1>2. SUFFICES ASSUME NEW x \in ClnRecords, cln' = [cln EXCEPT ![k] = x],
                        obj' \in ObjRecords, ObjOK(obj'), ClnOK(x, obj'),
                        obj.cur = "marker" => obj'.cur = "marker" /\ (obj'.old => obj.old)
                 PROVE  UpInv'
    <2>1. CASE CleanPrepare(k)
      <3>1. PICK x : x = [cln[k] EXCEPT !.pc = "look"]  OBVIOUS
      <3>2. x \in ClnRecords /\ x.pc = "look"  BY <3>1, SourceFacts DEF ClnRecords
      <3>3. cln' = [cln EXCEPT ![k] = x] /\ obj' = obj  BY <2>1, <3>1, Parts DEF CleanPrepare, At
      <3>4. ClnOK(x, obj)  BY <3>2 DEF ClnOK
      <3> QED BY <1>2, <3>2, <3>3, <3>4, SourceFacts, Parts
    <2>2. CASE CleanLook(k)
      <3>1. PICK x : x = [cln[k] EXCEPT !.seen = obj.cur,
                                 !.pc = IF obj.cur = "marker" THEN "remove" ELSE "mark"]
        OBVIOUS
      <3>2. x \in ClnRecords /\ x.seen = obj.cur
            /\ x.pc = IF obj.cur = "marker" THEN "remove" ELSE "mark"
        BY <3>1, SourceFacts DEF ClnRecords
      <3>3. cln' = [cln EXCEPT ![k] = x] /\ obj' = obj  BY <2>2, <3>1, Parts DEF CleanLook
      <3>4. ClnOK(x, obj)  BY <3>2 DEF ClnOK
      <3> QED BY <1>2, <3>2, <3>3, <3>4, SourceFacts, Parts
    <2>3. CASE CleanMark(k)
      <3>1. PICK x : x = [cln[k] EXCEPT !.pc = IF obj'.cur = "marker" THEN "remove" ELSE "failed"]
        OBVIOUS
      <3>2. x \in ClnRecords /\ x.pc = IF obj'.cur = "marker" THEN "remove" ELSE "failed"
        BY <3>1, SourceFacts DEF ClnRecords
      <3>3. cln' = [cln EXCEPT ![k] = x]  BY <2>3, <3>1, Parts DEF CleanMark, At
      <3>4. ClnOK(x, obj')  BY <3>2 DEF ClnOK
      <3>5. cln[k].seen # "marker"  BY <2>3, SourceFacts DEF CleanMark, ClnOK
      <3>6. obj' \in ObjRecords /\ ObjOK(obj')
            /\ (obj.cur = "marker" => obj'.cur = "marker" /\ (obj'.old => obj.old))
        <4>1. CASE obj.cur = cln[k].seen
          <5>1. obj' = [cur |-> "marker", prev |-> obj.cur = "data" \/ row.sel,
                        old |-> obj.cur = "data" /\ Versioned]
            BY <2>3, <4>1 DEF CleanMark
          <5>2. obj'.cur = "marker" /\ (obj'.old => obj'.prev)  BY <5>1
          <5>3. (obj.cur = "data" \/ row.sel) \in BOOLEAN
                /\ (obj.cur = "data" /\ Versioned) \in BOOLEAN
            OBVIOUS
          <5>4. obj' \in ObjRecords  BY <5>1, <5>3 DEF ObjRecords, Contents
          <5> QED BY <3>5, <4>1, <5>2, <5>4 DEF ObjOK
        <4>2. CASE obj.cur # cln[k].seen
          BY <2>3, <4>2, SourceFacts, Parts DEF CleanMark
        <4> QED BY <4>1, <4>2
      <3> QED BY <1>2, <3>2, <3>3, <3>4, <3>6
    <2>4. CASE CleanRemove(k)
      <3>1. PICK x : x = [cln[k] EXCEPT !.pc = "verify"]  OBVIOUS
      <3>2. x \in ClnRecords /\ x.pc = "verify"  BY <3>1, SourceFacts DEF ClnRecords
      <3>3. cln' = [cln EXCEPT ![k] = x] /\ cln[k].pc = "remove"
            /\ obj' = [obj EXCEPT !.old = @ /\ ~obj.prev]
        BY <2>4, <3>1, Parts DEF CleanRemove, At
      <3>4. obj.cur = "marker" /\ (obj.old => obj.prev)
        BY <3>3, SourceFacts DEF ClnOK, ObjOK
      <3>5. obj' \in ObjRecords /\ obj'.cur = obj.cur /\ ~obj'.old
        BY <3>3, <3>4, Parts DEF ObjRecords
      <3>6. ClnOK(x, obj') /\ ObjOK(obj')  BY <3>2, <3>4, <3>5 DEF ClnOK, ObjOK, Buried
      <3> QED BY <1>2, <3>2, <3>3, <3>4, <3>5, <3>6
    <2> QED BY <2>1, <2>2, <2>3, <2>4
  <1>3. cln' \in [Cleaners -> ClnRecords] /\ Sources'  BY <1>1, <1>2, Cleans
  <1> QED BY <1>1, <1>2, <1>3, SourceSteps, Parts

(* Cleanup completes, fails or runs out of its claim.                      *)
LEMMA CleanEndStep ==
    ASSUME UpInv,
           (\E k \in Cleaners : CleanComplete(k) \/ CleanFail(k)) \/ CleanLapse
    PROVE  UpInv'
  <1>1. UNCHANGED <<clock, elig, op, ctl, net, host, guest, replies, put, obj>>
    BY DEF CleanComplete, CleanFail, CleanLapse, CleanFrame, guestVars
  <1>2. faults' \in 0..MaxFaults
    BY FaultType DEF CleanComplete, CleanFail, CleanLapse
  <1>3. /\ row' \in RowRecords /\ row'.begun = row.begun /\ row'.rec = row.rec
        /\ row'.written = row.written /\ row'.frozen = row.frozen
        /\ (row'.retired => row.retired \/ \E k \in Cleaners : CleanComplete(k))
    <2>1. CASE \E k \in Cleaners : CleanComplete(k)
      <3>1. row' = [row EXCEPT !.retired = TRUE, !.prev = obj.prev, !.clease = FALSE]
        BY <2>1 DEF CleanComplete
      <3>2. obj.prev \in BOOLEAN  BY Parts DEF ObjRecords
      <3> QED BY <2>1, <3>1, <3>2, Parts DEF RowRecords
    <2>2. CASE ~\E k \in Cleaners : CleanComplete(k)
      <3>1. row' = row \/ row' = [row EXCEPT !.clease = FALSE]
        BY <2>2 DEF CleanFail, CleanLapse
      <3> QED BY <3>1, Parts DEF RowRecords
    <2> QED BY <2>1, <2>2
  <1>4. cln' \in [Cleaners -> ClnRecords] /\ Sources'
    <2>1. CASE CleanLapse
      <3>1. row'.retired = row.retired /\ cln' = cln  BY <2>1, Parts DEF CleanLapse, RowRecords
      <3> QED BY <1>1, <3>1, Parts DEF Sources
    <2>2. ASSUME NEW k \in Cleaners, CleanComplete(k) \/ CleanFail(k)
          PROVE  cln' \in [Cleaners -> ClnRecords] /\ Sources'
      <3>1. cln' = [cln EXCEPT ![k] = IdleCleaner]  BY <2>2 DEF CleanComplete, CleanFail, Rest
      <3>2. ASSUME NEW j \in Cleaners, CleanComplete(j) PROVE Buried(obj)
        BY <3>2, SourceFacts DEF CleanComplete, ClnOK
      <3>3. row'.retired => row.retired \/ Buried(obj')  BY <1>1, <1>3, <3>2
      <3> QED BY <1>1, <3>1, <3>3, Cleans, RestFacts, SourceFacts, Parts
    <2> QED BY <2>1, <2>2
  <1> QED BY <1>1, <1>2, <1>3, <1>4, SourceSteps, Parts

-----------------------------------------------------------------------------
(* The theorems.                                                           *)

(* Nothing has been asked for yet.                                         *)
LEMMA InitUpInv ==
    ASSUME Init
    PROVE  UpInv
  <1>1. 0 \in 0..MaxClaims /\ 0 \in 0..Chunks /\ 0 \in 0..MaxFaults /\ "none" \in Acts
    BY UploadsAssumption DEF Acts
  <1>2. NoFile \in Files /\ ~NoFile.has /\ ~NoFile.ns /\ NoFile.st = 0  BY FileFacts
  <1>3. op \in OpRecords /\ op.st = "none"  BY <1>1 DEF Init, OpRecords
  <1>4. row \in RowRecords /\ row.rec = NoFile /\ row.written = 0 /\ ~row.frozen /\ ~row.retired
    BY <1>1, <1>2 DEF Init, RowRecords
  <1>5. obj \in ObjRecords /\ ~obj.old  BY DEF Init, ObjRecords, Contents
  <1>6. /\ host \in HostRecords /\ host.rec = NoFile /\ host.phase = "idle"
        /\ host.call = "none"
    BY <1>1, <1>2 DEF Init, HostRecords
  <1>7. guest = [up |-> TRUE, rcp |-> "none", data |-> None, pubs |-> 0, job |-> NoJob]
    BY DEF Init
  <1>8. NoJob \in Jobs  BY <1>1 DEF NoJob, Jobs
  <1>9. guest \in GuestRecords /\ Untouched(guest) /\ guest.up
    BY <1>7, <1>8 DEF GuestRecords, Receipts, Untouched
  <1>10. IdleController \in CtlRecords /\ CtlOK(IdleController)
    BY <1>1 DEF IdleController, CtlRecords, CtlOK
  <1>11. ctl \in [Controllers -> CtlRecords] /\ Controlled
    BY <1>10 DEF Init, Controlled
  <1>12. cln \in [Cleaners -> ClnRecords] /\ \A k \in Cleaners : ClnOK(cln[k], obj)
    BY RestFacts DEF Init
  <1>13. Typed
    <2>1. clock \in 0..3 /\ elig \in BOOLEAN /\ put \in BOOLEAN /\ faults \in 0..MaxFaults
          /\ net \subseteq Requests /\ replies \subseteq Answers
      <3>1. clock = 0 /\ elig = TRUE /\ put = FALSE /\ faults = 0 /\ net = {} /\ replies = {}
        BY Zenon DEF Init
      <3>2. elig \in BOOLEAN /\ put \in BOOLEAN  BY <3>1, Zenon
      <3>3. clock \in 0..3  BY <3>1
      <3> QED BY <1>1, <3>1, <3>2, <3>3
    <2> QED BY <1>3, <1>4, <1>5, <1>6, <1>9, <1>11, <1>12, <2>1 DEF Typed
  <1>14. GuestOK  BY <1>9 DEF GuestOK, ReceiptOK, JobOK, Untouched, NoJob
  <1>15. HostOK  BY <1>2, <1>6, <1>9 DEF HostOK, RecordOK, GateOK
  <1>16. Messages  BY DEF Init, Messages
  <1>17. RowOK  BY <1>2, <1>3, <1>4, <1>6, <1>9 DEF RowOK, Untouched, Init
  <1>18. Sources  BY <1>4, <1>5, <1>12 DEF Sources, ObjOK
  <1> QED BY <1>11, <1>13, <1>14, <1>15, <1>16, <1>17, <1>18 DEF UpInv

(* A step of a controller.                                                 *)
LEMMA ControllerStep ==
    ASSUME UpInv, NEW p \in Controllers,
           Claim(p) \/ Work(p) \/ Timeout(p) \/ ControllerDies(p)
    PROVE  UpInv'
  <1>1. CASE Claim(p)  BY <1>1, ClaimStep
  <1>2. CASE LoseClaim(p) \/ PrepareDefer(p) \/ ControllerDies(p)  BY <1>2, TickEnds
  <1>3. CASE PrepareReject(p)  BY <1>3, RejectStep
  <1>4. CASE PrepareSource(p) \/ PrepareWrite(p)  BY <1>4, ReadStep
  <1>5. CASE PrepareBegin(p) \/ PrepareAbort(p) \/ PrepareCommit(p)  BY <1>5, IntentStep
  <1>6. CASE PrepareInspect(p) \/ ConfirmWrite(p)  BY <1>6, SendStep
  <1>7. CASE AcceptSource(p)  BY <1>7, AcceptStep
  <1>8. CASE SourceMissing(p) \/ ChunkRefused(p) \/ Refused(p) \/ Timeout(p)
    BY <1>8, UncertainStep
  <1>9. CASE Observe(p)  BY <1>9, ObserveStep
  <1> QED BY <1>1, <1>2, <1>3, <1>4, <1>5, <1>6, <1>7, <1>8, <1>9 DEF Work, Prepare

(* Every step keeps the invariant.                                         *)
LEMMA NextUpInv ==
    ASSUME UpInv, [Next]_vars
    PROVE  UpInv'
  <1>1. CASE AdmitUpload \/ RetryPut \/ PutLands  BY <1>1, ApiStep
  <1>2. CASE \E p \in Controllers : Claim(p) \/ Work(p) \/ Timeout(p) \/ ControllerDies(p)
    BY <1>2, ControllerStep
  <1>3. CASE Lapse  BY <1>3, LapseStep
  <1>4. CASE HostTake  BY <1>4, TakeStep
  <1>5. CASE Drop \/ LateReply  BY <1>5, LossStep
  <1>6. CASE HostGivesUp  BY <1>6, GiveUpStep
  <1>7. CASE GuestStep
    BY <1>7, AcceptedStep, BeginStep, WriteStep, CommitStep, AbortStep, InspectStep DEF GuestStep
  <1>8. CASE GuestCrash \/ AllocationEnds  BY <1>8, DownStep
  <1>9. CASE Reopen  BY <1>9, ReopenStep
  <1>10. CASE Tick  BY <1>10, ClockStep
  <1>11. CASE LoseAuthority \/ RegainAuthority  BY <1>11, AuthorityStep
  <1>12. CASE (\E k \in Cleaners : CleanClaim(k) \/ Clean(k)) \/ CleanLapse
    BY <1>12, CleanClaimStep, CleanWorkStep, CleanEndStep DEF Clean
  <1>13. CASE UNCHANGED vars
    BY <1>13, Parts DEF vars, UpInv, Typed, GuestOK, HostOK, Messages, RequestOK, RowOK,
       Controlled, Sources
  <1> QED BY <1>1, <1>2, <1>3, <1>4, <1>5, <1>6, <1>7, <1>8, <1>9, <1>10, <1>11, <1>12, <1>13
          DEF Next

(* The evidence chain from the guest's receipt to the operation's status   *)
(* holds in every reachable state.                                         *)
THEOREM UploadInvariant == Spec => []UpInv
  <1>1. Init => UpInv  BY InitUpInv
  <1>2. UpInv /\ [Next]_vars => UpInv'  BY NextUpInv
  <1> QED BY <1>1, <1>2, PTL DEF Spec

(* Every variable of an upload keeps its type: the cursor stays within the *)
(* file, and revisions and faults within their bounds.                     *)
THEOREM UploadTypeCorrect == Spec => []TypeOK
  <1>1. UpInv => TypeOK
    <2> SUFFICES ASSUME UpInv PROVE TypeOK  OBVIOUS
    <2>1. {row.source, row.begun, row.needs, row.commit, row.abort, row.frozen,
           row.sel, row.clease, row.retired, row.prev} \subseteq BOOLEAN
          /\ row.written \in 0..Chunks /\ row.rec \in Files
      BY Parts DEF RowRecords
    <2>2. host.rec \in Files /\ host.alloc \in {"up", "stopped", "moved"} /\ host.call \in Acts
          /\ host.phase \in {"idle", "call", "wait"}
      BY Parts DEF HostRecords
    <2>3. guest.rcp \in DOMAIN StateOf /\ guest.data \in {None} \union 0..Chunks
          /\ guest.job.kind \in Acts /\ guest.pubs \in Nat
      BY StateFacts, Parts DEF GuestRecords, Jobs
    <2> QED BY <2>1, <2>2, <2>3, Parts DEF TypeOK, OpRecords, ObjRecords, Contents, CtlRecords,
            Requests, Answers, Stored
  <1> QED BY <1>1, UploadInvariant, PTL

(* A succeeded operation was renamed into place exactly once and a failed  *)
(* one never: prepare_upload rejects only what was never begun, and        *)
(* observe_upload ends an operation only on the host's fence or the        *)
(* guest's own receipt.                                                    *)
THEOREM OutcomesStayTrue == Spec => []OutcomeIsReal
  <1>1. UpInv => OutcomeIsReal
    <2> SUFFICES ASSUME UpInv PROVE OutcomeIsReal  OBVIOUS
    <2>1. ~row.begun => host.rec = NoFile  BY Parts DEF RowOK
    <2>2. ~row.begun \/ host.rec.ns => guest.pubs = 0
      BY <2>1, FileFacts, Parts DEF HostOK, RecordOK, Untouched
    <2>3. guest.rcp = "aborted" => guest.pubs = 0  BY Parts DEF GuestOK, ReceiptOK
    <2>4. guest.rcp = "committed" => guest.pubs = 1  BY Parts DEF GuestOK, ReceiptOK
    <2> QED BY <2>2, <2>3, <2>4, Parts DEF RowOK, OutcomeIsReal
  <1> QED BY <1>1, UploadInvariant, PTL

(* No crash between the file operations of Transfers loses a byte that     *)
(* observe_upload acknowledged, or leaves a staging receipt without its    *)
(* file.                                                                   *)
THEOREM StagedBytesAreKept == Spec => []StagingIsKept
  <1>1. UpInv => StagingIsKept
    BY Parts DEF StagingIsKept, CursorIsStored, Reopenable, Consistent, RowOK, GuestOK, ReceiptOK
  <1> QED BY <1>1, UploadInvariant, PTL

(* Once complete_file_source_cleanup has retired the source, the marker    *)
(* stays and no payload version is left, however late a put lands.         *)
THEOREM RetirementIsFinal == Spec => []RetiredStaysRetired
  <1>1. UpInv => RetiredStaysRetired
    BY Parts DEF Sources, Buried, RetiredStaysRetired
  <1> QED BY <1>1, UploadInvariant, PTL

(* Only the host's take-up starts a call.                                  *)
LEMMA TakesUp ==
    ASSUME UpInv, [Next]_vars, host.phase = "idle", host'.phase = "call"
    PROVE  HostTake
  <1>1. host' # host  OBVIOUS
  <1>2. CASE \E p \in Controllers : Claim(p)
    <2>1. PICK r : host' = [host EXCEPT !.rev = r]  BY <1>2 DEF Claim
    <2> QED BY <2>1, Parts DEF HostRecords
  <1>3. CASE GuestStep
    <2>1. host.phase # "wait" /\ host.phase # "call"  OBVIOUS
    <2>2. \A rcp, n : Answer(rcp, n) => host' = host  BY <2>1 DEF Answer
    <2> HIDE DEF Answer
    <2>3. host' = host
      BY <1>3, <2>1, <2>2 DEF GuestStep, GuestAccept, GuestBegin, GuestWrite, GuestCommit,
         GuestAbort, GuestInspect, Refuse, Return, Fail, Step
    <2> QED BY <1>1, <2>3
  <1>4. CASE AllocationEnds
    <2>1. host' = [host EXCEPT !.alloc = "stopped"] \/ host' = [Ungated(host) EXCEPT !.alloc = "moved"]
      BY <1>4 DEF AllocationEnds
    <2>2. Ungated(host) \in HostRecords /\ Ungated(host).phase = "idle"  BY UngatedFacts, Parts
    <2> QED BY <2>1, <2>2, Parts DEF HostRecords
  <1>5. CASE HostGivesUp  BY <1>5 DEF HostGivesUp
  <1>6. CASE AdmitUpload \/ RetryPut \/ PutLands \/ Lapse \/ Drop \/ LateReply \/ GuestCrash
             \/ Reopen \/ Tick \/ LoseAuthority \/ RegainAuthority \/ CleanLapse \/ UNCHANGED vars
    BY <1>1, <1>6 DEF AdmitUpload, RetryPut, PutLands, Lapse, Drop, LateReply, GuestCrash,
       Reopen, Tick, LoseAuthority, RegainAuthority, CleanLapse, CleanFrame, guestVars, vars
  <1>7. CASE \E p \in Controllers : Work(p) \/ Timeout(p) \/ ControllerDies(p)
    BY <1>1, <1>7 DEF Work, Prepare, Timeout, ControllerDies, LoseClaim, AcceptSource,
       SourceMissing, ConfirmWrite, ChunkRefused, Refused, Observe, PrepareDefer, PrepareReject,
       PrepareSource, PrepareBegin, PrepareAbort, PrepareInspect, PrepareWrite, PrepareCommit,
       Prepared, guestVars
  <1>8. CASE \E k \in Cleaners : CleanClaim(k) \/ Clean(k)
    BY <1>1, <1>8 DEF CleanClaim, Clean, CleanPrepare, CleanLook, CleanMark, CleanRemove,
       CleanComplete, CleanFail, CleanFrame, guestVars
  <1> QED BY <1>2, <1>3, <1>4, <1>5, <1>6, <1>7, <1>8 DEF Next

(* Once the source is frozen, Host::file_sync takes up no begin, chunk or  *)
(* commit of the upload: the grace outlives what was sent before.          *)
THEOREM FrozenStaysQuiet == Spec => FrozenIsQuiet
  <1> DEFINE QuietStep == row.frozen /\ host.phase = "idle" /\ host'.phase = "call"
                            => host'.call \notin Mutations
  <1>1. UpInv /\ [Next]_vars => [QuietStep]_vars
    <2> SUFFICES ASSUME UpInv, [Next]_vars, row.frozen, host.phase = "idle",
                        host'.phase = "call"
                 PROVE  host'.call \notin Mutations
      OBVIOUS
    <2>1. HostTake  BY TakesUp
    <2> DEFINE File(m) == IF host.rec.has THEN host.rec
                          ELSE IF m.act = "begin" /\ host.alloc = "up" THEN PendingFile
                          ELSE FencedFile
               Call(m) == CallFor(m.act, File(m), ~host.rec.has)
    <2>2. PICK m \in net :
             \/ host' = [host EXCEPT !.rec = File(m), !.rev = m.rev]
             \/ host' = [host EXCEPT !.rev = m.rev, !.phase = "call", !.call = Call(m),
                                     !.req = m.rev, !.off = m.off,
                                     !.rec = [File(m) EXCEPT !.cr = @ \/ Call(m) = "commit",
                                                             !.ar = @ \/ Call(m) = "abort"]]
      BY <2>1 DEF HostTake
    <2> HIDE DEF File, Call
    <2>3. host'.call = Call(m)  BY <2>2, Parts DEF HostRecords
    <2>4. m.act \in Acts /\ RequestOK(m) /\ clock = 3 /\ m.born \in 0..3
      BY Parts DEF Messages, RowOK, Requests
    <2>5. m.act \notin Mutations  BY <2>4 DEF RequestOK
    <2> QED BY <2>3, <2>4, <2>5, CallFacts DEF Call
  <1> QED BY <1>1, UploadInvariant, PTL DEF Spec, FrozenIsQuiet
=============================================================================
