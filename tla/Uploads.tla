------------------------------ MODULE Uploads -------------------------------
(* One file upload: the API stores the bytes as a private source object,   *)
(* controllers publish them through the host and the guest's transfer      *)
(* engine under renewed claims, and cleanup workers retire the source.     *)
(* The clock has four phases: 0 the source may be written, 1 the operation *)
(* may still act, 2 its deadline has passed, 3 every claim issued before   *)
(* the deadline has run out and the source has expired for reading.        *)
EXTENDS Integers, FiniteSetsExt

CONSTANTS Controllers, Cleaners,
          Chunks,        \* size of the file in chunks
          Versioned,     \* the bucket keeps versions
          MaxClaims,     \* revisions in use at one time
          MaxFaults

ASSUME UploadsAssumption ==
    /\ Chunks \in Nat /\ Versioned \in BOOLEAN
    /\ MaxClaims \in Nat \ {0} /\ MaxFaults \in Nat
    /\ IsFiniteSet(Cleaners)

VARIABLES clock,
          elig,      \* token, project, sandbox, allocation lease and host allow it
          op,        \* operations row
          row,       \* file_uploads row
          obj,       \* object at the source key
          put,       \* a create-only write of the source may still land
          ctl,       \* controllers
          net,       \* requests that may still reach the host
          replies,   \* observations that may still reach a controller
          host,      \* the host's FileRecord and the request under the gate
          guest,     \* the transfer engine and its workspace
          cln,       \* cleanup workers
          faults

vars == <<clock, elig, op, row, obj, put, ctl, net, replies, host, guest, cln,
          faults>>

None == 0 - 1
Mutations == {"begin", "write", "commit"}

(* FileRecord: 0 no observation, 1 staging, 2 commit intent, 3 committed,  *)
(* 4 unknown, 5 aborted.                                                   *)
NoFile == [has |-> FALSE, ns |-> FALSE, cr |-> FALSE, ar |-> FALSE, st |-> 0]
PendingFile == [NoFile EXCEPT !.has = TRUE]
FencedFile == [NoFile EXCEPT !.has = TRUE, !.ns = TRUE]
Finished(f) == f.ns \/ f.st \in 3..5

(* FileRecord::observe: terminal states stay, and a commit or an abort     *)
(* needs the recorded intent.                                              *)
Observable(f, s) == /\ ~f.ns
                    /\ Finished(f) => f.st = s
                    /\ s \in {2, 3} => f.cr
                    /\ s = 5 => f.ar

StateOf == [none |-> 0, staging |-> 1, intent |-> 2, committed |-> 3,
            unknown |-> 4, aborted |-> 5]

NoJob == [kind |-> "none", step |-> 0, off |-> 0]
IdleController == [pc |-> "idle", rev |-> 0, act |-> "none", off |-> 0]
IdleCleaner == [pc |-> "idle", rev |-> 0, seen |-> "missing"]

Init ==
    /\ clock = 0 /\ elig = TRUE
    /\ op = [st |-> "none", rev |-> 0, lease |-> FALSE]
    /\ row = [source |-> FALSE, begun |-> FALSE, needs |-> FALSE,
              commit |-> FALSE, abort |-> FALSE, written |-> 0, rec |-> NoFile,
              frozen |-> FALSE, sel |-> FALSE, crev |-> 0, clease |-> FALSE,
              retired |-> FALSE, prev |-> FALSE]
    /\ obj = [cur |-> "missing", prev |-> FALSE, old |-> FALSE]
    /\ put = FALSE
    /\ ctl = [p \in Controllers |-> IdleController]
    /\ net = {} /\ replies = {}
    /\ host = [alloc |-> "up", rec |-> NoFile, rev |-> 0,
               phase |-> "idle", call |-> "none", req |-> 0, off |-> 0]
    /\ guest = [up |-> TRUE, rcp |-> "none", data |-> None, pubs |-> 0,
                job |-> NoJob]
    /\ cln = [k \in Cleaners |-> IdleCleaner]
    /\ faults = 0

dbVars == <<op, row>>
guestVars == <<host, guest, replies>>
sourceVars == <<obj, put, cln>>

Fault == faults < MaxFaults /\ faults' = faults + 1

-----------------------------------------------------------------------------
(* API: admission and the source object (Store::admit_upload, uploads::put) *)

(* uploads::eligible *)
Eligible == elig /\ clock < 2 /\ ~row.frozen

AdmitUpload ==
    /\ op.st = "none" /\ Eligible /\ clock = 0
    /\ op' = [op EXCEPT !.st = "queued"]
    /\ put' = TRUE
    /\ UNCHANGED <<clock, elig, row, obj, ctl, net, guestVars, cln, faults>>

(* A retry with the same key writes the source again only before the guest *)
(* was asked for anything.                                                 *)
RetryPut ==
    /\ op.st \in {"queued", "running"} /\ clock = 0 /\ ~put
    /\ ~row.begun /\ ~row.frozen
    /\ put' = TRUE
    /\ UNCHANGED <<clock, elig, op, row, obj, ctl, net, guestVars, cln, faults>>

(* The create-only PUT lands, however late. *)
PutLands ==
    /\ put /\ put' = FALSE
    /\ obj' = [obj EXCEPT !.cur = IF @ = "missing" THEN "data" ELSE @]
    /\ UNCHANGED <<clock, elig, op, row, ctl, net, guestVars, cln, faults>>

-----------------------------------------------------------------------------
(* Controller and database (Controller::upload_step, Store::prepare_upload) *)

Owns(p) == /\ ctl[p].rev = op.rev /\ op.lease
           /\ op.st \in {"running", "unknown"}
Finish(st) == op' = [op EXCEPT !.st = st, !.lease = FALSE]
Idle(p) == ctl' = [ctl EXCEPT ![p] = IdleController]
Held(r) == \E p \in Controllers : ctl[p].rev = r

(* claim_next.  Only the order of the revisions in use matters, so the new *)
(* one follows the largest of them, and a host that has seen more than     *)
(* that is taken to have seen this one.                                    *)
InUse == {0, host.req} \union {ctl[p].rev : p \in Controllers}
           \union {m.rev : m \in net \union replies}
Claim(p) ==
    /\ ctl[p].pc = "idle" /\ ~op.lease
    /\ op.st \in {"queued", "running", "unknown"}
    /\ LET r == Max(InUse) + 1
       IN /\ r <= MaxClaims
          /\ op' = [op EXCEPT !.rev = r, !.lease = TRUE,
                              !.st = IF @ = "queued" THEN "running" ELSE @]
          /\ ctl' = [ctl EXCEPT ![p] = [IdleController EXCEPT !.pc = "claimed",
                                                              !.rev = r]]
          /\ host' = [host EXCEPT !.rev = IF @ > r THEN r ELSE @]
    /\ UNCHANGED <<clock, elig, row, net, guest, replies, sourceVars, faults>>

(* Every later call of a controller whose claim is gone returns LostClaim. *)
LoseClaim(p) ==
    /\ ctl[p].pc # "idle" /\ ~Owns(p) /\ Idle(p)
    /\ UNCHANGED <<clock, elig, op, row, net, guestVars, sourceVars, faults>>

Preparing(p) == ctl[p].pc = "claimed" /\ Owns(p)
Dispatch(p, a) ==
    /\ ctl' = [ctl EXCEPT ![p].pc = "rpc", ![p].act = a]
    /\ net' = net \union {[act |-> a, rev |-> ctl[p].rev, off |-> ctl[p].off,
                           born |-> clock]}
Prepared == UNCHANGED <<clock, elig, guestVars, sourceVars, faults>>

(* Another supervisor epoch owns the host: the claim is only deferred. *)
PrepareDefer(p) ==
    /\ Preparing(p) /\ host.alloc = "moved"
    /\ Finish(op.st) /\ Idle(p)
    /\ UNCHANGED <<row, net>> /\ Prepared

OnHost(p) == Preparing(p) /\ host.alloc # "moved"
PrepareReject(p) ==
    /\ OnHost(p) /\ ~row.begun
    /\ ~Eligible \/ (~row.source /\ clock > 0)
    /\ Finish("failed") /\ Idle(p)
    /\ UNCHANGED <<row, net>> /\ Prepared

PrepareSource(p) ==
    /\ OnHost(p) /\ ~row.begun /\ Eligible /\ ~row.source /\ clock = 0
    /\ ctl' = [ctl EXCEPT ![p].pc = "source"]
    /\ UNCHANGED <<op, row, net>> /\ Prepared

(* begin_requested is durable before the request is sent. *)
PrepareBegin(p) ==
    /\ OnHost(p) /\ ~row.begun /\ Eligible /\ row.source
    /\ row' = [row EXCEPT !.begun = TRUE, !.needs = TRUE]
    /\ Dispatch(p, "begin")
    /\ UNCHANGED op /\ Prepared

(* Mutant: a commit that was dispatched is never aborted.                  *)
AbortUnlessCommitting(p) ==
    /\ OnHost(p) /\ row.begun /\ ~Eligible /\ ~row.abort /\ ~row.commit
    /\ row' = [row EXCEPT !.abort = TRUE, !.needs = TRUE]
    /\ Dispatch(p, "abort")
    /\ UNCHANGED op /\ Prepared

PrepareAbort(p) ==
    /\ OnHost(p) /\ row.begun /\ ~Eligible /\ ~row.abort
    /\ row' = [row EXCEPT !.abort = TRUE, !.needs = TRUE]
    /\ Dispatch(p, "abort")
    /\ UNCHANGED op /\ Prepared

Staging == row.rec.has /\ ~row.rec.ns /\ row.rec.st = 1
Quiet == row.needs \/ row.commit \/ row.abort
PrepareInspect(p) ==
    /\ OnHost(p) /\ row.begun /\ (Eligible \/ row.abort)
    /\ Quiet \/ ~Staging
    /\ Dispatch(p, "inspect")
    /\ UNCHANGED <<op, row>> /\ Prepared

PrepareWrite(p) ==
    /\ OnHost(p) /\ row.begun /\ Eligible /\ ~Quiet /\ Staging
    /\ row.written < Chunks
    /\ ctl' = [ctl EXCEPT ![p].pc = "chunk", ![p].off = row.written]
    /\ UNCHANGED <<op, row, net>> /\ Prepared

PrepareCommit(p) ==
    /\ OnHost(p) /\ row.begun /\ Eligible /\ ~Quiet /\ Staging
    /\ row.written = Chunks
    /\ row' = [row EXCEPT !.commit = TRUE, !.needs = TRUE]
    /\ Dispatch(p, "commit")
    /\ UNCHANGED op /\ Prepared

(* SourceStore::reconcile, then accept_upload_source *)
AcceptSource(p) ==
    /\ ctl[p].pc = "source" /\ Owns(p)
    /\ obj.cur = "data" /\ clock < 3 /\ ~row.begun /\ ~row.frozen
    /\ row' = [row EXCEPT !.source = TRUE]
    /\ Finish("running") /\ Idle(p)
    /\ UNCHANGED net /\ Prepared

(* After the source was read, the chunk is confirmed before it is sent. *)
ConfirmWrite(p) ==
    /\ ctl[p].pc = "chunk" /\ Owns(p)
    /\ obj.cur = "data" /\ Eligible /\ ~Quiet /\ Staging
    /\ row.written = ctl[p].off
    /\ Dispatch(p, "write")
    /\ UNCHANGED <<op, row>> /\ Prepared

(* upload_unknown: a missing source, a failed or late call, bad evidence. *)
Uncertain(p) ==
    /\ row' = [row EXCEPT !.needs = @ \/ row.begun]
    /\ Finish(IF row.begun THEN "unknown" ELSE "running") /\ Idle(p)

SourceMissing(p) ==
    /\ ctl[p].pc = "source" /\ Owns(p) /\ (obj.cur # "data" \/ clock = 3)
    /\ Uncertain(p)
    /\ UNCHANGED net /\ Prepared

ChunkRefused(p) ==
    /\ ctl[p].pc = "chunk" /\ Owns(p)
    /\ ~Eligible \/ obj.cur # "data"
    /\ Uncertain(p)
    /\ UNCHANGED net /\ Prepared

(* The call failed at the host, which no longer knows of it. *)
Refused(p) ==
    /\ ctl[p].pc = "rpc" /\ Owns(p)
    /\ host.req # ctl[p].rev
    /\ \A m \in net \union replies : m.rev # ctl[p].rev
    /\ Uncertain(p)
    /\ UNCHANGED net /\ Prepared

(* Ten seconds pass while the source, the host or the reply is slow; the   *)
(* request may still arrive.                                               *)
Timeout(p) ==
    /\ ctl[p].pc \in {"source", "chunk", "rpc"} /\ Owns(p) /\ Fault
    /\ Uncertain(p)
    /\ UNCHANGED <<clock, elig, net, guestVars, sourceVars>>

ControllerDies(p) ==
    /\ ctl[p].pc # "idle" /\ Fault /\ Idle(p)
    /\ UNCHANGED <<clock, elig, op, row, net, guestVars, sourceVars>>

(* A claim lapses: freely once its controller is gone. *)
Lapse ==
    /\ op.lease
    /\ IF Held(op.rev) THEN Fault ELSE UNCHANGED faults
    /\ op' = [op EXCEPT !.lease = FALSE]
    /\ UNCHANGED <<clock, elig, row, ctl, net, guestVars, sourceVars>>

-----------------------------------------------------------------------------
(* Store::observe_upload *)

Expected(p) == IF ctl[p].act = "write" THEN ctl[p].off + 1 ELSE None

(* The record the database would keep for observation r. *)
Kept(r) ==
    IF r.ns THEN FencedFile
    ELSE [(IF row.rec.has THEN row.rec ELSE PendingFile)
            EXCEPT !.cr = row.commit, !.ar = row.abort,
                   !.st = IF r.st = 0 THEN @ ELSE r.st]
Evidence(p, r) ==
    /\ r.stored = Expected(p)
    /\ IF r.ns THEN ~row.rec.has \/ row.rec.ns
       ELSE /\ ~row.rec.ns
            /\ r.st # 0 => Observable([Kept(r) EXCEPT !.st = row.rec.st], r.st)
    /\ r.stored # None => /\ r.st = 1 /\ ~row.commit /\ ~row.abort
                          /\ r.stored = row.written + 1

(* Mutant: silence after an abort was sent counts as aborted.              *)
NothingMeansAborted(r) ==
    CASE r.ns \/ r.st = 5 -> "failed"
      [] r.st = 3 -> "succeeded"
      [] r.st = 1 -> "running"
      [] OTHER -> IF row.abort THEN "failed" ELSE "unknown"

StatusOf(r) ==
    CASE r.ns \/ r.st = 5 -> "failed"
      [] r.st = 3 -> "succeeded"
      [] r.st = 1 -> "running"
      [] OTHER -> "unknown"

Observe(p) ==
    /\ ctl[p].pc = "rpc" /\ Owns(p)
    /\ \E r \in replies :
          /\ r.rev = ctl[p].rev
          /\ replies' = replies \ {r}
          /\ IF Evidence(p, r)
             THEN /\ row' = [row EXCEPT !.rec = Kept(r), !.needs = r.st # 1,
                               !.written = IF r.stored = None THEN @ ELSE r.stored]
                  /\ Finish(StatusOf(r)) /\ Idle(p)
             ELSE Uncertain(p)
    /\ UNCHANGED <<clock, elig, net, host, guest, sourceVars, faults>>

-----------------------------------------------------------------------------
(* Host (Host::file_sync) *)

Reply(rec, s, stored) ==
    replies' = replies \union {[rev |-> host.req, ns |-> rec.ns, st |-> s,
                                stored |-> stored]}
Ungated(h) == [h EXCEPT !.phase = "idle", !.call = "none", !.req = 0, !.off = 0]

(* Begin, commit and abort go to the guest once; what cannot go is         *)
(* inspected instead.                                                      *)
CallFor(a, f, new) ==
    CASE a = "begin" /\ new -> "begin"
      [] a = "commit" /\ ~f.cr /\ ~f.ar /\ f.st = 1 -> "commit"
      [] a = "abort" /\ ~f.ar -> "abort"
      [] a = "write" /\ ~f.cr /\ ~f.ar /\ f.st = 1 -> "write"
      [] OTHER -> "inspect"

(* The claim's revision and the new record or intent are durable before    *)
(* the guest is called.  Anything but a begin fences an unknown operation. *)
HostTake ==
    /\ host.phase = "idle" /\ host.alloc # "moved"
    /\ \E m \in net :
          LET new == ~host.rec.has
              up == host.alloc = "up"
              f == IF ~new THEN host.rec
                   ELSE IF m.act = "begin" /\ up THEN PendingFile ELSE FencedFile
              call == CallFor(m.act, f, new)
          IN /\ m.rev >= host.rev
             /\ net' = net \ {m}
             /\ IF Finished(f) \/ ~up
                THEN /\ host' = [host EXCEPT !.rec = f, !.rev = m.rev]
                     /\ replies' = replies \union
                           {[rev |-> m.rev, ns |-> f.ns, stored |-> None,
                             st |-> IF Finished(f) THEN f.st ELSE 0]}
                ELSE /\ host' = [host EXCEPT !.rev = m.rev, !.phase = "call",
                                    !.call = call, !.req = m.rev, !.off = m.off,
                                    !.rec = [f EXCEPT !.cr = @ \/ call = "commit",
                                                      !.ar = @ \/ call = "abort"]]
                     /\ UNCHANGED replies
    /\ UNCHANGED <<clock, elig, dbVars, ctl, guest, sourceVars, faults>>

(* An answer nobody waits for any more. *)
LateReply ==
    /\ \E r \in replies : ~Held(r.rev) /\ replies' = replies \ {r}
    /\ UNCHANGED <<clock, elig, dbVars, ctl, net, host, guest, sourceVars, faults>>

(* stale controller claim, or a request past its deadline *)
Drop ==
    /\ \E m \in net :
          /\ m.rev < host.rev \/ host.alloc = "moved"
          /\ net' = net \ {m}
    /\ UNCHANGED <<clock, elig, dbVars, ctl, guestVars, sourceVars, faults>>

(* The guest is gone or its worker busy, or three seconds pass: nothing is *)
(* observed.                                                               *)
HostGivesUp ==
    /\ host.phase # "idle"
    /\ IF \/ host.phase = "call" /\ (~guest.up \/ guest.job # NoJob)
          \/ host.phase = "wait" /\ guest.job = NoJob
       THEN UNCHANGED faults ELSE Fault
    /\ Reply(host.rec, 0, None)
    /\ host' = Ungated(host)
    /\ UNCHANGED <<clock, elig, dbVars, ctl, net, guest, sourceVars>>

(* The receipt of a call that is still awaited is observed and saved. *)
Answer(rcp, stored) ==
    LET s == StateOf[rcp] IN
    IF host.phase # "wait" THEN UNCHANGED <<host, replies>>
    ELSE IF stored # None
    THEN host' = Ungated(host) /\ Reply(host.rec, host.rec.st, stored)
    ELSE IF s = 0
    THEN host' = Ungated(host) /\ Reply(host.rec, 0, None)
    ELSE IF Observable(host.rec, s)
    THEN host' = [Ungated(host) EXCEPT !.rec.st = s] /\ Reply(host.rec, s, None)
    ELSE host' = Ungated(host) /\ UNCHANGED replies

-----------------------------------------------------------------------------
(* Guest (file_service::FileService, files::Transfers) *)

GuestFrame == UNCHANGED <<clock, elig, dbVars, ctl, net, sourceVars>>
Job(kind, step) == guest.up /\ guest.job.kind = kind /\ guest.job.step = step
Step(g) == guest' = [g EXCEPT !.job.step = @ + 1] /\ UNCHANGED <<host, replies>>
Return(g, stored) == guest' = [g EXCEPT !.job = NoJob] /\ Answer(g.rcp, stored)
Fail(g) == guest' = [g EXCEPT !.job = NoJob] /\ Answer("none", None)

GuestAccept ==
    /\ host.phase = "call" /\ guest.up /\ guest.job = NoJob
    /\ guest' = [guest EXCEPT !.job = [kind |-> host.call, step |-> 0,
                                       off |-> host.off]]
    /\ host' = [host EXCEPT !.phase = "wait"]
    /\ GuestFrame /\ UNCHANGED <<replies, faults>>

(* Before it takes up a begin or a commit the engine finds the parent      *)
(* directory gone or its capacity spent.                                   *)
Refuse == Fault /\ Fail(guest)

(* Transfers::begin: the staging file, then its receipt *)
GuestBegin ==
    /\ \/ /\ Job("begin", 0) /\ guest.rcp = "none"
          /\ \/ Step([guest EXCEPT !.data = 0]) /\ UNCHANGED faults
             \/ Refuse
       \/ /\ Job("begin", 0) /\ guest.rcp # "none" /\ Return(guest, None)
          /\ UNCHANGED faults
       \/ /\ Job("begin", 1) /\ Return([guest EXCEPT !.rcp = "staging"], None)
          /\ UNCHANGED faults
    /\ GuestFrame

(* Transfers::write_chunk: contiguous, or a retry of bytes already there *)
GuestWrite ==
    /\ Job("write", 0)
    /\ IF guest.rcp = "staging" /\ guest.job.off <= guest.data
       THEN LET end == guest.job.off + 1
                size == IF guest.data > end THEN guest.data ELSE end
            IN Return([guest EXCEPT !.data = size], size)
       ELSE Fail(guest)
    /\ GuestFrame /\ UNCHANGED faults

(* Transfers::commit: the intent is saved before the rename, the result    *)
(* after it; a failed rename is never retried.                             *)
GuestCommit ==
    /\ \/ /\ Job("commit", 0) /\ guest.rcp = "staging"
          /\ IF guest.data = Chunks THEN Step([guest EXCEPT !.rcp = "intent"])
             ELSE Fail(guest)
          /\ UNCHANGED faults
       \/ Job("commit", 0) /\ guest.rcp = "staging" /\ Refuse
       \/ /\ Job("commit", 0) /\ guest.rcp # "staging"
          /\ IF guest.rcp = "none" THEN Fail(guest) ELSE Return(guest, None)
          /\ UNCHANGED faults
       \/ /\ Job("commit", 1) /\ Step([guest EXCEPT !.data = None, !.pubs = @ + 1])
          /\ UNCHANGED faults
       \/ /\ Job("commit", 1) /\ Fault
          /\ \E g \in {guest, [guest EXCEPT !.data = None, !.pubs = @ + 1]} :
                /\ guest' = [g EXCEPT !.rcp = "unknown", !.job = NoJob]
                /\ Answer("none", None)
       \/ /\ Job("commit", 2) /\ Return([guest EXCEPT !.rcp = "committed"], None)
          /\ UNCHANGED faults
    /\ GuestFrame

(* Mutant: the staged file is removed before the receipt says so.          *)
AbortRemovesFirst ==
    /\ \/ /\ Job("abort", 0)
          /\ IF guest.rcp = "staging" THEN Step([guest EXCEPT !.data = None])
             ELSE IF guest.rcp = "none" THEN Fail(guest) ELSE Return(guest, None)
       \/ Job("abort", 1) /\ Return([guest EXCEPT !.rcp = "aborted"], None)
    /\ GuestFrame /\ UNCHANGED faults

(* Transfers::abort: the receipt, then the staging file *)
GuestAbort ==
    /\ \/ /\ Job("abort", 0)
          /\ IF guest.rcp = "staging" THEN Step([guest EXCEPT !.rcp = "aborted"])
             ELSE IF guest.rcp = "none" THEN Fail(guest) ELSE Return(guest, None)
       \/ Job("abort", 1) /\ Return([guest EXCEPT !.data = None], None)
    /\ GuestFrame /\ UNCHANGED faults

GuestInspect ==
    /\ Job("inspect", 0)
    /\ IF guest.rcp = "none" THEN Fail(guest) ELSE Return(guest, None)
    /\ GuestFrame /\ UNCHANGED faults

(* The guest's service ends, or a metadata write fails and fences it. *)
GuestCrash ==
    /\ guest.up /\ Fault
    /\ guest' = [guest EXCEPT !.up = FALSE, !.job = NoJob]
    /\ GuestFrame /\ UNCHANGED <<host, replies>>

(* What Transfers::open demands of the state directory. *)
Consistent == guest.rcp = "staging" => guest.data # None

(* Transfers::open: an interrupted commit becomes unknown, orphan staging  *)
(* is removed.  Nothing promises that it happens: boot runs the agent once *)
(* and gives up when it exits, and an engine fenced by a failed metadata   *)
(* write stays fenced in the running agent.                                *)
Reopen ==
    /\ ~guest.up /\ host.alloc = "up" /\ Consistent
    /\ guest' = [guest EXCEPT !.up = TRUE,
                    !.rcp = IF @ = "intent" THEN "unknown" ELSE @,
                    !.data = IF guest.rcp = "staging" THEN @ ELSE None]
    /\ GuestFrame /\ UNCHANGED <<host, replies, faults>>

-----------------------------------------------------------------------------
(* The environment of the upload *)

(* Time passes.  A claim lives five minutes, so what was sent before the   *)
(* deadline is refused five minutes after it.                              *)
Tick ==
    /\ op.st # "none" /\ clock < 3 /\ clock' = clock + 1
    /\ net' = IF clock' = 3 THEN {m \in net : m.born = 2} ELSE net
    /\ UNCHANGED <<elig, dbVars, ctl, guestVars, sourceVars, faults>>

(* A token is revoked or a heartbeat is late; only the latter comes back. *)
LoseAuthority ==
    /\ elig /\ Fault /\ elig' = FALSE
    /\ UNCHANGED <<clock, dbVars, ctl, net, guestVars, sourceVars>>
RegainAuthority ==
    /\ ~elig /\ host.alloc = "up" /\ elig' = TRUE
    /\ UNCHANGED <<clock, dbVars, ctl, net, guestVars, sourceVars, faults>>

(* The machine is stopped for good, or the host starts a later epoch and   *)
(* knows nothing any more of the call it made; the guest goes on with it.  *)
AllocationEnds ==
    /\ host.alloc = "up" /\ op.st # "none"
    /\ elig' = FALSE
    /\ \/ /\ host' = [host EXCEPT !.alloc = "stopped"] /\ UNCHANGED faults
          /\ guest' = [guest EXCEPT !.up = FALSE, !.job = NoJob]
       \/ host' = [Ungated(host) EXCEPT !.alloc = "moved"] /\ Fault /\ UNCHANGED guest
    /\ UNCHANGED <<clock, dbVars, ctl, net, replies, sourceVars>>

-----------------------------------------------------------------------------
(* Source cleanup (uploads::cleanup, SourceCleaner, SourceRetirer) *)

CleanFrame == UNCHANGED <<clock, elig, op, ctl, net, guestVars, put>>
CleanOwns(k) == /\ cln[k].rev = row.crev /\ row.clease
                /\ row.frozen /\ ~row.retired
At(k, pc) == cln' = [cln EXCEPT ![k].pc = pc]
Rest(k) == cln' = [cln EXCEPT ![k] = IdleCleaner]

(* Mutant: the grace of the freeze is not waited for.                      *)
CleanClaimSoon(k) ==
    /\ cln[k].pc = "idle" /\ op.st # "none" /\ clock >= 2
    /\ ~row.retired /\ ~row.clease /\ (row.frozen \/ ~op.lease)
    /\ LET r == Max({cln[j].rev : j \in Cleaners}) + 1
       IN /\ row' = [row EXCEPT !.frozen = TRUE, !.crev = r, !.clease = TRUE,
                        !.sel = IF row.frozen THEN @ ELSE row.source]
          /\ cln' = [cln EXCEPT ![k] = [IdleCleaner EXCEPT !.pc = "claimed",
                                                           !.rev = r]]
    /\ CleanFrame /\ UNCHANGED <<obj, faults>>

(* claim_file_source_cleanup: past the grace, with no live operation lease, *)
(* the plan and the selected source are frozen and claimed.                *)
CleanClaim(k) ==
    /\ cln[k].pc = "idle" /\ op.st # "none" /\ clock = 3
    /\ ~row.retired /\ ~row.clease /\ (row.frozen \/ ~op.lease)
    /\ LET r == Max({cln[j].rev : j \in Cleaners}) + 1
       IN /\ row' = [row EXCEPT !.frozen = TRUE, !.crev = r, !.clease = TRUE,
                        !.sel = IF row.frozen THEN @ ELSE row.source]
          /\ cln' = [cln EXCEPT ![k] = [IdleCleaner EXCEPT !.pc = "claimed",
                                                           !.rev = r]]
    /\ CleanFrame /\ UNCHANGED <<obj, faults>>

(* prepare_file_source_cleanup *)
CleanPrepare(k) ==
    /\ cln[k].pc = "claimed" /\ CleanOwns(k) /\ At(k, "look")
    /\ CleanFrame /\ UNCHANGED <<row, obj, faults>>

(* SourceRetirer::current; a selected source must be the marked one. *)
CleanLook(k) ==
    /\ cln[k].pc = "look"
    /\ cln' = [cln EXCEPT ![k].seen = obj.cur,
                  ![k].pc = IF obj.cur = "marker" THEN "remove" ELSE "mark"]
    /\ obj.cur = "marker" /\ row.sel => obj.prev
    /\ CleanFrame /\ UNCHANGED <<row, obj, faults>>

(* The marker replaces exactly what was seen. *)
CleanMark(k) ==
    /\ cln[k].pc = "mark"
    /\ IF obj.cur = cln[k].seen
       THEN obj' = [cur |-> "marker", prev |-> obj.cur = "data" \/ row.sel,
                    old |-> obj.cur = "data" /\ Versioned]
       ELSE UNCHANGED obj
    /\ At(k, IF obj'.cur = "marker" THEN "remove" ELSE "failed")
    /\ CleanFrame /\ UNCHANGED <<row, faults>>

(* remove_previous, then the marker is looked at again. *)
CleanRemove(k) ==
    /\ cln[k].pc = "remove"
    /\ obj' = [obj EXCEPT !.old = @ /\ ~obj.prev]
    /\ At(k, "verify")
    /\ CleanFrame /\ UNCHANGED <<row, faults>>

(* Mutant: cleanup completes without reading its marker back.              *)
CompleteUnverified(k) ==
    /\ cln[k].pc \in {"remove", "verify"} /\ CleanOwns(k)
    /\ row' = [row EXCEPT !.retired = TRUE, !.prev = obj.prev, !.clease = FALSE]
    /\ Rest(k)
    /\ CleanFrame /\ UNCHANGED <<obj, faults>>

(* complete_file_source_cleanup *)
CleanComplete(k) ==
    /\ cln[k].pc = "verify" /\ CleanOwns(k)
    /\ obj.cur = "marker" /\ (row.sel => obj.prev)
    /\ row' = [row EXCEPT !.retired = TRUE, !.prev = obj.prev, !.clease = FALSE]
    /\ Rest(k)
    /\ CleanFrame /\ UNCHANGED <<obj, faults>>

(* An error, a lost answer or the deadline: the claim is deferred. *)
CleanFail(k) ==
    /\ cln[k].pc # "idle"
    /\ IF cln[k].pc = "failed" \/ ~CleanOwns(k) THEN UNCHANGED faults ELSE Fault
    /\ row' = IF CleanOwns(k) THEN [row EXCEPT !.clease = FALSE] ELSE row
    /\ Rest(k)
    /\ CleanFrame /\ UNCHANGED obj

CleanLapse ==
    /\ row.clease
    /\ IF \E k \in Cleaners : cln[k].pc # "idle" /\ CleanOwns(k)
       THEN Fault ELSE UNCHANGED faults
    /\ row' = [row EXCEPT !.clease = FALSE]
    /\ CleanFrame /\ UNCHANGED <<obj, cln>>

-----------------------------------------------------------------------------
Prepare(p) ==
    \/ PrepareDefer(p) \/ PrepareReject(p) \/ PrepareSource(p)
    \/ PrepareBegin(p) \/ PrepareAbort(p) \/ PrepareInspect(p)
    \/ PrepareWrite(p) \/ PrepareCommit(p)
Work(p) ==
    \/ LoseClaim(p) \/ Prepare(p)
    \/ AcceptSource(p) \/ SourceMissing(p) \/ ConfirmWrite(p)
    \/ ChunkRefused(p) \/ Refused(p) \/ Observe(p)
GuestStep ==
    \/ GuestAccept \/ GuestBegin \/ GuestWrite \/ GuestCommit
    \/ GuestAbort \/ GuestInspect
Clean(k) ==
    \/ CleanPrepare(k) \/ CleanLook(k) \/ CleanMark(k) \/ CleanRemove(k)
    \/ CleanComplete(k) \/ CleanFail(k)

Next ==
    \/ AdmitUpload \/ RetryPut \/ PutLands
    \/ \E p \in Controllers : Claim(p) \/ Work(p) \/ Timeout(p) \/ ControllerDies(p)
    \/ Lapse
    \/ HostTake \/ Drop \/ LateReply \/ HostGivesUp
    \/ GuestStep \/ GuestCrash \/ Reopen
    \/ Tick \/ LoseAuthority \/ RegainAuthority \/ AllocationEnds
    \/ \E k \in Cleaners : CleanClaim(k) \/ Clean(k)
    \/ CleanLapse

Spec == Init /\ [][Next]_vars

(* Time passes; claimed work is carried on and lapsed work claimed again;  *)
(* the host takes requests, the guest's worker runs while it is up, and    *)
(* the cleanup worker polls independently of the claims it has to miss.    *)
(* Losses are bounded by MaxFaults; a guest that went down need not return.*)
Fairness ==
    /\ WF_vars(Tick)
    /\ WF_vars(\E p \in Controllers : Claim(p))
    /\ \A p \in Controllers : WF_vars(Work(p))
    /\ WF_vars(Lapse) /\ WF_vars(HostTake) /\ WF_vars(Drop)
    /\ WF_vars(LateReply) /\ WF_vars(HostGivesUp) /\ WF_vars(GuestStep)
    /\ \A k \in Cleaners : SF_vars(CleanClaim(k)) /\ WF_vars(Clean(k))
    /\ WF_vars(CleanLapse)
FairSpec == Spec /\ Fairness

-----------------------------------------------------------------------------
(* What each variable holds. *)
Files == [has : BOOLEAN, ns : BOOLEAN, cr : BOOLEAN, ar : BOOLEAN, st : 0..5]
Acts == Mutations \union {"none", "abort", "inspect"}
TypeOK ==
    /\ clock \in 0..3 /\ elig \in BOOLEAN /\ put \in BOOLEAN
    /\ op \in [st : {"none", "queued", "running", "unknown", "succeeded", "failed"},
              rev : 0..MaxClaims, lease : BOOLEAN]
    /\ {row.source, row.begun, row.needs, row.commit, row.abort, row.frozen,
        row.sel, row.clease, row.retired, row.prev} \subseteq BOOLEAN
    /\ row.written \in 0..Chunks /\ row.rec \in Files /\ host.rec \in Files
    /\ obj \in [cur : {"missing", "data", "marker"}, prev : BOOLEAN, old : BOOLEAN]
    /\ ctl \in [Controllers -> [pc : {"idle", "claimed", "source", "chunk", "rpc"},
                               rev : 0..MaxClaims, act : Acts, off : 0..Chunks]]
    /\ net \subseteq [act : Acts, rev : 1..MaxClaims, off : 0..Chunks, born : 0..3]
    /\ replies \subseteq [rev : 1..MaxClaims, ns : BOOLEAN, st : 0..5,
                          stored : {None} \union 1..Chunks]
    /\ host.alloc \in {"up", "stopped", "moved"} /\ host.call \in Acts
    /\ host.phase \in {"idle", "call", "wait"}
    /\ guest.rcp \in DOMAIN StateOf /\ guest.data \in {None} \union 0..Chunks
    /\ guest.job.kind \in Acts /\ guest.pubs \in Nat
    /\ faults \in 0..MaxFaults

(* The operation's outcome is the guest's: a success was renamed into      *)
(* place exactly once, and a failed upload has published nothing and, as a *)
(* failure is final, never will, whatever call arrives late.               *)
OutcomeIsReal ==
    /\ op.st = "succeeded" => guest.pubs = 1 /\ guest.rcp = "committed"
    /\ op.st = "failed" => guest.pubs = 0

(* The database's cursor never runs ahead of the bytes the guest has on    *)
(* disk, through lost acknowledgements, replays and restarts.              *)
CursorIsStored == guest.rcp = "staging" => row.written <= guest.data

(* A restart of the guest's service finds the staging bytes of every       *)
(* receipt that still says staging.                                        *)
Reopenable == Consistent

(* Crashes between the guest's file operations lose no acknowledged byte   *)
(* and leave a state directory the agent can reopen.                       *)
StagingIsKept == CursorIsStored /\ Reopenable

(* Once the source is frozen the host takes up no begin, chunk or commit   *)
(* of this upload: the grace outlives every request sent before the        *)
(* deadline, also those whose claim the database had already ended.        *)
FrozenIsQuiet ==
    [][row.frozen /\ host.phase = "idle" /\ host'.phase = "call"
         => host'.call \notin Mutations]_vars

(* A retired source stays retired: no late or repeated write of the bytes  *)
(* and no interrupted cleanup leaves or brings back a payload version.     *)
RetiredStaysRetired == row.retired => obj.cur = "marker" /\ ~obj.old

(* What keeps an upload open for good: the host moved to another epoch,    *)
(* or the admitted operation has no guest to ask, because the machine is   *)
(* stopped or the file service down or fenced for ever, an uncertain       *)
(* rename, or spent its only abort without reaching the guest.             *)
Unresolved ==
    \/ host.alloc = "moved"
    \/ /\ host.rec.has /\ ~host.rec.ns
       /\ \/ host.alloc = "stopped" \/ ~guest.up \/ guest.rcp = "unknown"
          \/ row.abort /\ guest.rcp \in {"none", "staging"}

(* Every admitted upload ends, unless one of these holds for ever, and its *)
(* source is retired in any case.                                          *)
UploadSettles ==
    /\ op.st = "queued" ~> (op.st \in {"succeeded", "failed"} \/ []Unresolved)
    /\ op.st = "queued" ~> row.retired

(* cleanup::validate_retired, which history evidence asks of a retired     *)
(* source.                                                                 *)
ValidateRetired == row.retired /\ row.prev = row.sel

(* docs/history-reclamation.md: an upload with a known outcome and a       *)
(* completed source retirement is eligible for history retirement.         *)
RetiredIsReclaimable ==
    op.st \in {"succeeded", "failed"} /\ row.retired => ValidateRetired
=============================================================================
