------------------------------ MODULE Outputs -------------------------------
(* The output of one finished command: publication by archivers through    *)
(* the host that owns the command, and its retirement by cleanup workers.  *)
(* The operation row, the cleanup row, the host's archive record and the   *)
(* two objects (stdout, stderr) of each upload attempt are shared; every   *)
(* call may be lost, late or repeated.  Time is a small clock for the      *)
(* retention deadlines; claim leases lapse by an action of their own.      *)
EXTENDS Integers, FiniteSets

CONSTANTS Archivers,     \* sandbox_controller::archive::Archiver processes
          Workers,       \* permits of the host's archive_workers
          Cleaners,      \* sandbox_cleanup::Cleaner processes
          None,
          Digests,       \* what a capture of the guest's output may hash to
          Retention,     \* output retention, from completion (time 0)
          Grace,         \* cleanup grace after expiry
          Policies,      \* response retention periods the operator may set
          Versioned,     \* the bucket keeps versions
          MaxClaims, MaxFaults

ASSUME OutputsAssumption ==
    /\ Retention \in Nat \ {0} /\ Grace \in Nat
    /\ Policies \subseteq Nat \ {0} /\ Versioned \in BOOLEAN
    /\ MaxClaims \in Nat /\ MaxFaults \in Nat
    /\ None \notin Digests \union Archivers

VARIABLES now,      \* time since the command completed
          row,      \* output columns of the operations row
          lapsed,   \* output claims whose lease time has passed
          clean,    \* output_cleanup row
          arch,     \* ArchiveRecord in the host's journal
          guest,    \* the machine that holds the bytes still answers
          arc,      \* archiver processes
          wk,       \* archive requests at the host
          objects,  \* [attempt, stream] -> object at that key
          puts,     \* data writes the bucket may still apply
          marks,    \* marker writes the bucket may still apply
          clr,      \* cleanup processes
          faults

dbVars == <<row, lapsed, clean>>
s3Vars == <<objects, puts, marks>>
vars == <<now, row, lapsed, clean, arch, guest, arc, wk, objects, puts, marks,
          clr, faults>>

Streams == 1..2           \* stdout, then stderr
MaxNow == Retention + Grace
Attempts == 1..MaxClaims
Keys == Attempts \X Streams
NoTicket == [attempt |-> 0, expires |-> 0]
Open == {"pending", "uploading"}

NoObject == [cur |-> "none", digest |-> None, old |-> FALSE]
IdleArchiver == [pc |-> "idle", rev |-> 0, ticket |-> NoTicket, plans |-> None]
IdleWorker == [pc |-> "idle", by |-> None, kind |-> "prepare", rev |-> 0,
               ticket |-> NoTicket, plans |-> None, have |-> {}, at |-> 1]
IdleCleaner == [pc |-> "idle", rev |-> 0, at |-> 1, mode |-> "create"]

(* OutputTicket.delete_after_unix_ms *)
DeleteAfter(t) == t.expires + Grace

Init ==
    /\ now = 0 /\ lapsed = 0
    /\ row = [status |-> "pending", rev |-> 0, lease |-> FALSE,
              ticket |-> NoTicket, plans |-> None, refs |-> None,
              response |-> 0, compacted |-> FALSE]
    /\ clean = [queued |-> FALSE, rev |-> 0, lease |-> FALSE,
                manifest |-> None, done |-> FALSE]
    /\ arch = [ticket |-> NoTicket, plans |-> None, rev |-> 0]
    /\ guest = TRUE
    /\ arc = [a \in Archivers |-> IdleArchiver]
    /\ wk = [w \in Workers |-> IdleWorker]
    /\ objects = [k \in Keys |-> NoObject]
    /\ puts = {} /\ marks = {}
    /\ clr = [k \in Cleaners |-> IdleCleaner]
    /\ faults = 0

Fault == faults < MaxFaults /\ faults' = faults + 1
NoFault == UNCHANGED faults

-----------------------------------------------------------------------------
(* Database: publication (sandbox_store::output) *)

ResponseExpired == row.response # 0 /\ row.response <= now

(* What claimed and fence require of a caller's claim. *)
Claimed(rev) == row.rev = rev /\ row.lease /\ row.status \in Open

(* defer_output; a lost claim is left to its owner. *)
Deferred(rev) ==
    IF Claimed(rev) THEN [row EXCEPT !.lease = FALSE] ELSE row

ClaimOutput(a) ==
    /\ arc[a].pc = "idle" /\ row.rev < MaxClaims
    /\ row.status \in Open /\ ~row.lease
    /\ row' = [row EXCEPT !.rev = @ + 1, !.lease = TRUE]
    /\ arc' = [arc EXCEPT ![a] = [IdleArchiver EXCEPT !.pc = "claimed",
                                                      !.rev = row.rev + 1]]
    /\ UNCHANGED <<now, lapsed, clean, arch, guest, wk, s3Vars, clr, faults>>

(* The ticket a claim works under: the saved one, or a new attempt whose   *)
(* retention runs from completion and never past the response's.           *)
MinTime(x, y) == IF x <= y THEN x ELSE y
TicketFor(rev) ==
    IF row.ticket # NoTicket THEN row.ticket
    ELSE [attempt |-> rev,
          expires |-> IF row.response = 0 THEN Retention
                      ELSE MinTime(Retention, row.response)]

PrepareOutput(a) ==
    /\ arc[a].pc = "claimed" /\ Claimed(arc[a].rev)
    /\ LET t == TicketFor(arc[a].rev)
           over == now >= t.expires \/ ResponseExpired
       IN /\ row' = [row EXCEPT !.ticket = t,
                                !.status = IF over THEN "expired" ELSE "uploading",
                                !.lease = @ /\ ~over]
          /\ arc' = [arc EXCEPT ![a] =
                        IF over THEN IdleArchiver
                        ELSE [@ EXCEPT !.ticket = t, !.plans = row.plans,
                                 !.pc = IF row.plans = None THEN "prepare"
                                                            ELSE "archive"]]
    /\ UNCHANGED <<now, lapsed, clean, arch, guest, wk, s3Vars, clr, faults>>

InTime == now < row.ticket.expires /\ ~ResponseExpired

(* Mutant: a plan is saved under any claim and status.                     *)
SavePlansUnfenced(a) ==
    /\ arc[a].pc = "save"
    /\ row' = [row EXCEPT !.plans = arc[a].plans]
    /\ arc' = [arc EXCEPT ![a].pc = "archive"]
    /\ UNCHANGED <<now, lapsed, clean, arch, guest, wk, s3Vars, clr, faults>>

SavePlans(a) ==
    /\ arc[a].pc = "save" /\ Claimed(arc[a].rev) /\ InTime
    /\ row.ticket = arc[a].ticket /\ row.plans \in {None, arc[a].plans}
    /\ row' = [row EXCEPT !.plans = arc[a].plans]
    /\ arc' = [arc EXCEPT ![a].pc = "archive"]
    /\ UNCHANGED <<now, lapsed, clean, arch, guest, wk, s3Vars, clr, faults>>

Publish(a) ==
    /\ arc[a].pc = "publish" /\ Claimed(arc[a].rev) /\ InTime
    /\ row.plans = arc[a].plans
    /\ row' = [row EXCEPT !.refs = arc[a].plans, !.status = "published",
                          !.lease = FALSE]
    /\ arc' = [arc EXCEPT ![a] = IdleArchiver]
    /\ UNCHANGED <<now, lapsed, clean, arch, guest, wk, s3Vars, clr, faults>>

(* output_for_project: the references a customer's read is served from. *)
Readable ==
    IF row.status = "published" /\ InTime THEN row.refs ELSE None

-----------------------------------------------------------------------------
(* Archiver (sandbox_controller::archive) *)

(* A claim that is lost, expired or contradicted by the row fails its      *)
(* transaction; any await may fail as well.  tick then defers the claim.   *)
Refused(a) ==
    \/ /\ arc[a].pc \in {"claimed", "save", "publish"}
       /\ ~Claimed(arc[a].rev)
    \/ arc[a].pc \in {"save", "publish"} /\ ~InTime
    \/ arc[a].pc = "save" /\ row.plans \notin {None, arc[a].plans}

ArchiverFails(a) ==
    /\ arc[a].pc # "idle"
    /\ \/ Refused(a) /\ NoFault
       \/ ~Refused(a) /\ Fault
    /\ row' = Deferred(arc[a].rev)
    /\ arc' = [arc EXCEPT ![a] = IdleArchiver]
    /\ wk' = [w \in Workers |-> IF wk[w].by = a THEN [wk[w] EXCEPT !.by = None]
                                ELSE wk[w]]
    /\ UNCHANGED <<now, lapsed, clean, arch, guest, s3Vars, clr>>

ArchiverDies(a) ==
    /\ arc[a].pc # "idle" /\ Fault
    /\ arc' = [arc EXCEPT ![a] = IdleArchiver]
    /\ wk' = [w \in Workers |-> IF wk[w].by = a THEN [wk[w] EXCEPT !.by = None]
                                ELSE wk[w]]
    /\ UNCHANGED <<now, dbVars, arch, guest, s3Vars, clr>>

(* process sends prepare_output or archive_output and waits for it. *)
Send(a, w) ==
    /\ arc[a].pc \in {"prepare", "archive"} /\ wk[w].pc = "idle"
    /\ wk' = [wk EXCEPT ![w] = [IdleWorker EXCEPT !.pc = "sent", !.by = a,
                 !.kind = arc[a].pc, !.rev = arc[a].rev,
                 !.ticket = arc[a].ticket, !.plans = arc[a].plans]]
    /\ arc' = [arc EXCEPT ![a].pc = "wait"]
    /\ UNCHANGED <<now, dbVars, arch, guest, s3Vars, clr, faults>>

(* The answer names its request, so it reaches only the call that waits.   *)
Answered(w) ==
    /\ wk[w].pc = "reply"
    /\ wk' = [wk EXCEPT ![w] = IdleWorker]
    /\ arc' = IF wk[w].by = None THEN arc
              ELSE [arc EXCEPT ![wk[w].by] =
                      [@ EXCEPT !.plans = wk[w].plans,
                          !.pc = IF wk[w].kind = "prepare" THEN "save"
                                                           ELSE "publish"]]
    /\ UNCHANGED <<now, dbVars, arch, guest, s3Vars, clr, faults>>

-----------------------------------------------------------------------------
(* Host: archive requests (sandbox_supervisor host/archive, archive) *)

(* decode: the claim's lease time and the ticket's retention are current.  *)
Current(w) == wk[w].rev > lapsed /\ now < wk[w].ticket.expires

(* output_setup's comparison with the archive record ...                   *)
Acceptable(w) ==
    IF arch.ticket = NoTicket THEN wk[w].plans = None
    ELSE /\ arch.ticket = wk[w].ticket /\ wk[w].rev >= arch.rev
         /\ wk[w].plans \in {None, arch.plans}

(* ... and its journalled takeover by this publication revision.           *)
Setup(w) ==
    /\ wk[w].pc = "sent" /\ Current(w) /\ Acceptable(w)
    /\ arch' = [arch EXCEPT !.ticket = wk[w].ticket, !.rev = wk[w].rev]
    /\ wk' = [wk EXCEPT ![w].pc =
                IF wk[w].kind = "archive" THEN "look"
                ELSE IF arch.plans = None THEN "collect" ELSE "finish",
              ![w].plans = IF wk[w].kind = "archive" THEN @ ELSE arch.plans]
    /\ UNCHANGED <<now, dbVars, guest, arc, s3Vars, clr, faults>>

(* prepare: the first capture of both streams becomes the plan. *)
Collect(w, d) ==
    /\ wk[w].pc = "collect" /\ guest
    /\ wk' = [wk EXCEPT ![w].plans = d, ![w].pc = "finish"]
    /\ UNCHANGED <<now, dbVars, arch, guest, arc, s3Vars, clr, faults>>

(* fetch/verify_response: only a complete object of exactly this plan.     *)
Holds(o, plan) == o.cur = "data" /\ o.digest = plan

Next1(w, pc, after) ==
    IF wk[w].at = 1 THEN [wk[w] EXCEPT !.at = 2, !.pc = pc]
    ELSE [wk[w] EXCEPT !.at = 1, !.pc = after]

(* archive: reconcile reads each object before any byte is needed. *)
Look(w) ==
    LET s == wk[w].at
        o == objects[<<wk[w].ticket.attempt, s>>]
        found == Holds(o, wk[w].plans)
        have == IF found THEN wk[w].have \union {s} ELSE wk[w].have
    IN /\ wk[w].pc = "look" /\ Current(w)
       /\ o.cur = "none" \/ found
       /\ wk' = [wk EXCEPT ![w] =
                   [Next1(w, "look", IF have = Streams THEN "finish" ELSE "recapture")
                       EXCEPT !.have = have]]
       /\ UNCHANGED <<now, dbVars, arch, guest, arc, s3Vars, clr, faults>>

(* Mutant: the second capture is not compared with the plan.               *)
RecaptureUnchecked(w, d) ==
    /\ wk[w].pc = "recapture" /\ guest
    /\ wk' = [wk EXCEPT ![w].pc = "put", ![w].plans = d]
    /\ UNCHANGED <<now, dbVars, arch, guest, arc, s3Vars, clr, faults>>

(* A missing object needs the bytes again, and they must still hash to the *)
(* persisted plan.                                                         *)
Recapture(w, d) ==
    /\ wk[w].pc = "recapture" /\ guest /\ d = wk[w].plans
    /\ wk' = [wk EXCEPT ![w].pc = "put"]
    /\ UNCHANGED <<now, dbVars, arch, guest, arc, s3Vars, clr, faults>>

(* upload: a create-only write, then always a verified read.  The write    *)
(* itself may be applied now, later or never (PutLands).                   *)
Put(w) ==
    LET s == wk[w].at IN
    /\ wk[w].pc = "put"
    /\ IF s \in wk[w].have
       THEN /\ wk' = [wk EXCEPT ![w] = Next1(w, "put", "finish")]
            /\ UNCHANGED puts
       ELSE /\ Current(w)
            /\ puts' = puts \union {<<wk[w].ticket.attempt, s, wk[w].plans>>}
            /\ wk' = [wk EXCEPT ![w].pc = "confirm"]
    /\ UNCHANGED <<now, dbVars, arch, guest, arc, objects, marks, clr, faults>>

(* Mutant: a write counts as done without the read that confirms it.       *)
ConfirmUnread(w) ==
    /\ wk[w].pc = "confirm"
    /\ wk' = [wk EXCEPT ![w] = Next1(w, "put", "finish")]
    /\ UNCHANGED <<now, dbVars, arch, guest, arc, s3Vars, clr, faults>>

Confirm(w) ==
    /\ wk[w].pc = "confirm"
    /\ Holds(objects[<<wk[w].ticket.attempt, wk[w].at>>], wk[w].plans)
    /\ wk' = [wk EXCEPT ![w] = Next1(w, "put", "finish")]
    /\ UNCHANGED <<now, dbVars, arch, guest, arc, s3Vars, clr, faults>>

(* output_finish *)
StillMine(w) ==
    /\ arch.ticket = wk[w].ticket /\ arch.rev = wk[w].rev
    /\ arch.plans \in {None, wk[w].plans}

Finish(w) ==
    /\ wk[w].pc = "finish" /\ Current(w) /\ StillMine(w)
    /\ arch' = [arch EXCEPT !.plans = wk[w].plans]
    /\ wk' = [wk EXCEPT ![w].pc = "reply"]
    /\ UNCHANGED <<now, dbVars, guest, arc, s3Vars, clr, faults>>

(* Every check above that fails, and every call that times out, ends the   *)
(* request with an error; the archiver that still waits gives up.          *)
CheckFails(w) ==
    \/ wk[w].pc \in {"sent", "look", "put", "finish"} /\ ~Current(w)
    \/ wk[w].pc = "sent" /\ ~Acceptable(w)
    \/ wk[w].pc = "collect" /\ ~guest
    \/ wk[w].pc = "recapture" /\ (~guest \/ Digests # {wk[w].plans})
    \/ /\ wk[w].pc = "look"
       /\ LET o == objects[<<wk[w].ticket.attempt, wk[w].at>>]
          IN o.cur # "none" /\ ~Holds(o, wk[w].plans)
    \/ /\ wk[w].pc = "confirm"
       /\ ~Holds(objects[<<wk[w].ticket.attempt, wk[w].at>>], wk[w].plans)
    \/ wk[w].pc = "finish" /\ ~StillMine(w)

RequestFails(w) ==
    /\ wk[w].pc \notin {"idle", "reply"}
    /\ \/ CheckFails(w) /\ NoFault
       \/ ~CheckFails(w) /\ Fault
    /\ wk' = [wk EXCEPT ![w] = IdleWorker]
    /\ IF wk[w].by = None THEN UNCHANGED <<row, arc>>
       ELSE /\ row' = Deferred(arc[wk[w].by].rev)
            /\ arc' = [arc EXCEPT ![wk[w].by] = IdleArchiver]
    /\ UNCHANGED <<now, lapsed, clean, arch, guest, s3Vars, clr>>

(* The machine is destroyed or the host moves to a new epoch. *)
GuestGone ==
    /\ guest /\ guest' = FALSE
    /\ UNCHANGED <<now, dbVars, arch, arc, wk, s3Vars, clr, faults>>

-----------------------------------------------------------------------------
(* Bucket (external).  A write that was sent may be applied at any later   *)
(* time, so it is never taken back.                                        *)

PutLands(p) ==
    /\ objects[<<p[1], p[2]>>].cur = "none"
    /\ objects' = [objects EXCEPT ![<<p[1], p[2]>>] =
                      [NoObject EXCEPT !.cur = "data", !.digest = p[3]]]
    /\ UNCHANGED <<now, dbVars, arch, guest, arc, wk, puts, marks, clr, faults>>

(* Create-only, or a replacement pinned to the etag that was read. *)
MarkLands(m) ==
    LET o == objects[<<m[1], m[2]>>] IN
    /\ o.cur = IF m[3] = "create" THEN "none" ELSE "data"
    /\ objects' = [objects EXCEPT ![<<m[1], m[2]>>] =
                      [cur |-> "marker", digest |-> None,
                       old |-> Versioned /\ m[3] = "update"]]
    /\ UNCHANGED <<now, dbVars, arch, guest, arc, wk, puts, marks, clr, faults>>

-----------------------------------------------------------------------------
(* Database: retention, compaction and cleanup rows *)

AssignRetention(p) ==
    /\ row.response = 0
    /\ row' = [row EXCEPT !.response = p]
    /\ UNCHANGED <<now, lapsed, clean, arch, guest, arc, wk, s3Vars, clr, faults>>

CompactExpired ==
    /\ ~row.compacted /\ ResponseExpired
    /\ row.status = "pending" \/ (row.status = "expired" /\ clean.done)
    /\ row' = [row EXCEPT !.compacted = TRUE, !.status = "expired", !.lease = FALSE,
                          !.rev = IF row.status = "pending" THEN @ + 1 ELSE @]
    /\ UNCHANGED <<now, lapsed, clean, arch, guest, arc, wk, s3Vars, clr, faults>>

EnqueueExpired ==
    /\ row.status \in {"uploading", "published", "expired"}
    /\ row.ticket # NoTicket /\ row.ticket.expires <= now /\ ~clean.queued
    /\ clean' = [clean EXCEPT !.queued = TRUE]
    /\ UNCHANGED <<now, row, lapsed, arch, guest, arc, wk, s3Vars, clr, faults>>

Eligible == clean.manifest = None \/ DeleteAfter(row.ticket) <= now

ClaimCleanup(k) ==
    /\ clr[k].pc = "idle" /\ clean.queued /\ ~clean.done /\ ~clean.lease /\ Eligible
    /\ clean' = [clean EXCEPT !.rev = @ + 1, !.lease = TRUE]
    /\ clr' = [clr EXCEPT ![k] = [IdleCleaner EXCEPT !.pc = "prepare",
                                                     !.rev = clean.rev + 1]]
    /\ UNCHANGED <<now, row, lapsed, arch, guest, arc, wk, s3Vars, faults>>

(* manifest: all upload authority ever granted for the operation. *)
Inventory == [ticket |-> row.ticket, plans |-> row.plans, refs |-> row.refs]

Owned(k) == clean.rev = clr[k].rev /\ clean.lease /\ ~clean.done

(* Publication is revoked and the inventory frozen in one transaction; the *)
(* claim is given back while the grace period runs.                        *)
PrepareCleanup(k) ==
    /\ clr[k].pc = "prepare" /\ Owned(k)
    /\ clean.manifest \in {None, Inventory} /\ row.ticket.expires <= now
    /\ row' = [row EXCEPT !.status = "expired", !.lease = FALSE,
                          !.rev = IF row.status # "expired" \/ row.lease
                                  THEN @ + 1 ELSE @]
    /\ LET waiting == DeleteAfter(row.ticket) > now IN
       /\ clean' = [clean EXCEPT !.manifest = Inventory, !.lease = ~waiting]
       /\ clr' = [clr EXCEPT ![k] =
                    IF waiting THEN IdleCleaner
                    ELSE [@ EXCEPT !.pc = IF row.plans = None THEN "complete"
                                                              ELSE "look"]]
    /\ UNCHANGED <<now, lapsed, arch, guest, arc, wk, s3Vars, faults>>

(* complete_output_cleanup, after the receipts of both streams. *)
CompleteCleanup(k) ==
    /\ clr[k].pc = "complete"
    /\ clean.rev = clr[k].rev /\ (clean.lease \/ clean.done)
    /\ clean.manifest = Inventory /\ row.status = "expired"
    /\ DeleteAfter(row.ticket) <= now
    /\ clean' = [clean EXCEPT !.done = TRUE, !.lease = FALSE]
    /\ clr' = [clr EXCEPT ![k] = IdleCleaner]
    /\ UNCHANGED <<now, row, lapsed, arch, guest, arc, wk, s3Vars, faults>>

-----------------------------------------------------------------------------
(* Cleanup worker and retirer (sandbox_cleanup, sandbox_artifacts)  *)

KeyOf(k) == <<clean.manifest.ticket.attempt, clr[k].at>>

(* retire: the whole object must be the plan's (and the selected version). *)
Inspect(k) ==
    LET o == objects[KeyOf(k)] IN
    /\ clr[k].pc = "look"
    /\ o.cur # "none" => o.cur = "marker" \/ o.digest = clean.manifest.plans
    /\ clr' = [clr EXCEPT ![k] =
                 [@ EXCEPT !.pc = IF o.cur = "marker" THEN "remove" ELSE "mark",
                           !.mode = IF o.cur = "none" THEN "create" ELSE "update"]]
    /\ UNCHANGED <<now, dbVars, arch, guest, arc, wk, s3Vars, faults>>

Mark(k) ==
    /\ clr[k].pc = "mark"
    /\ marks' = marks \union {<<KeyOf(k)[1], KeyOf(k)[2], clr[k].mode>>}
    /\ clr' = [clr EXCEPT ![k].pc = "marked"]
    /\ UNCHANGED <<now, dbVars, arch, guest, arc, wk, objects, puts, faults>>

(* current after the write: a marker, whoever wrote it. *)
Marked(k) ==
    /\ clr[k].pc = "marked" /\ objects[KeyOf(k)].cur = "marker"
    /\ clr' = [clr EXCEPT ![k].pc = "remove"]
    /\ UNCHANGED <<now, dbVars, arch, guest, arc, wk, s3Vars, faults>>

(* Mutant: the previous version of only one stream is removed.             *)
RemovePreviousFirst(k) ==
    /\ clr[k].pc = "remove" /\ objects[KeyOf(k)].cur = "marker"
    /\ objects' = [objects EXCEPT ![KeyOf(k)].old = @ /\ clr[k].at = 2]
    /\ clr' = [clr EXCEPT ![k] = [@ EXCEPT !.at = IF clr[k].at = 1 THEN 2 ELSE 1,
                                           !.pc = IF clr[k].at = 1 THEN "look"
                                                                   ELSE "complete"]]
    /\ UNCHANGED <<now, dbVars, arch, guest, arc, wk, puts, marks, faults>>

(* remove_previous: the exact version the marker names, then the marker is *)
(* read once more.                                                         *)
RemovePrevious(k) ==
    /\ clr[k].pc = "remove" /\ objects[KeyOf(k)].cur = "marker"
    /\ objects' = [objects EXCEPT ![KeyOf(k)].old = FALSE]
    /\ clr' = [clr EXCEPT ![k] = [@ EXCEPT !.at = IF clr[k].at = 1 THEN 2 ELSE 1,
                                           !.pc = IF clr[k].at = 1 THEN "look"
                                                                   ELSE "complete"]]
    /\ UNCHANGED <<now, dbVars, arch, guest, arc, wk, puts, marks, faults>>

(* A failed check or call; tick defers the claim it still holds.           *)
CleanerRefused(k) ==
    \/ clr[k].pc = "prepare" /\ ~Owned(k)
    \/ clr[k].pc = "complete" /\ ~(clean.rev = clr[k].rev /\ (clean.lease \/ clean.done))
    \/ clr[k].pc = "marked" /\ clr[k].mode = "create" /\ objects[KeyOf(k)].cur = "data"

CleanerFails(k) ==
    /\ clr[k].pc # "idle"
    /\ \/ CleanerRefused(k) /\ NoFault
       \/ ~CleanerRefused(k) /\ Fault
    /\ clean' = IF Owned(k) THEN [clean EXCEPT !.lease = FALSE] ELSE clean
    /\ clr' = [clr EXCEPT ![k] = IdleCleaner]
    /\ UNCHANGED <<now, row, lapsed, arch, guest, arc, wk, s3Vars>>

CleanerDies(k) ==
    /\ clr[k].pc # "idle" /\ Fault
    /\ clr' = [clr EXCEPT ![k] = IdleCleaner]
    /\ UNCHANGED <<now, dbVars, arch, guest, arc, wk, s3Vars>>

-----------------------------------------------------------------------------
(* Time *)

Tick ==
    /\ now < MaxNow /\ now' = now + 1
    /\ UNCHANGED <<dbVars, arch, guest, arc, wk, s3Vars, clr, faults>>

(* The lease time of an output claim passes, in the order of the claims:   *)
(* its archiver is gone, or too slow (a fault).                            *)
ClaimLapses ==
    /\ lapsed < row.rev /\ lapsed < MaxClaims
    /\ lapsed' = lapsed + 1
    /\ row' = IF lapsed' = row.rev THEN [row EXCEPT !.lease = FALSE] ELSE row
    /\ \/ (\A a \in Archivers : arc[a].rev # lapsed') /\ NoFault
       \/ (\E a \in Archivers : arc[a].rev = lapsed') /\ Fault
    /\ UNCHANGED <<now, clean, arch, guest, arc, wk, s3Vars, clr>>

(* A cleanup claim lapses: its worker is gone, or is too slow (a fault).   *)
Abandoned == \A k \in Cleaners : clr[k].pc # "idle" => clr[k].rev # clean.rev

CleanupLapses ==
    /\ clean.lease
    /\ \/ Abandoned /\ NoFault
       \/ ~Abandoned /\ Fault
    /\ clean' = [clean EXCEPT !.lease = FALSE]
    /\ UNCHANGED <<now, row, lapsed, arch, guest, arc, wk, s3Vars, clr>>

-----------------------------------------------------------------------------
ArchiverStep(a) ==
    \/ ClaimOutput(a) \/ PrepareOutput(a) \/ SavePlans(a) \/ Publish(a)
    \/ ArchiverFails(a) \/ ArchiverDies(a)
    \/ \E w \in Workers : Send(a, w)

HostStep(w) ==
    \/ Setup(w) \/ Look(w) \/ Put(w) \/ Confirm(w) \/ Finish(w) \/ Answered(w)
    \/ RequestFails(w)
    \/ \E d \in Digests : Collect(w, d) \/ Recapture(w, d)

CleanerStep(k) ==
    \/ ClaimCleanup(k) \/ PrepareCleanup(k) \/ CompleteCleanup(k) \/ Inspect(k)
    \/ Mark(k) \/ Marked(k) \/ RemovePrevious(k) \/ CleanerFails(k) \/ CleanerDies(k)

BucketStep ==
    \/ \E p \in puts : PutLands(p)
    \/ \E m \in marks : MarkLands(m)

RowStep ==
    \/ \E p \in Policies : AssignRetention(p)
    \/ CompactExpired \/ EnqueueExpired

Next ==
    \/ \E a \in Archivers : ArchiverStep(a)
    \/ \E w \in Workers : HostStep(w)
    \/ \E k \in Cleaners : CleanerStep(k)
    \/ BucketStep \/ RowStep \/ GuestGone \/ Tick \/ ClaimLapses \/ CleanupLapses

Spec == Init /\ [][Next]_vars

-----------------------------------------------------------------------------
(* Properties *)

(* What each variable holds. *)
Tickets == [attempt : 0..MaxClaims, expires : 0..Retention]
TypeOK ==
    /\ now \in 0..MaxNow /\ lapsed \in 0..MaxClaims
    /\ row \in [status : Open \union {"published", "expired"}, rev : Nat,
               lease : BOOLEAN, ticket : Tickets, plans : Digests \union {None},
               refs : Digests \union {None}, response : {0} \union Policies,
               compacted : BOOLEAN]
    /\ clean.manifest = None \/ clean.manifest.ticket \in Tickets
    /\ {clean.queued, clean.lease, clean.done, guest} \subseteq BOOLEAN
    /\ arch \in [ticket : Tickets, plans : Digests \union {None}, rev : 0..MaxClaims]
    /\ \A a \in Archivers : arc[a].pc \in
           {"idle", "claimed", "prepare", "archive", "wait", "save", "publish"}
    /\ \A w \in Workers :
           /\ wk[w].by \in Archivers \union {None} /\ wk[w].have \subseteq Streams
           /\ wk[w].pc \in {"idle", "sent", "collect", "look", "recapture", "put",
                            "confirm", "finish", "reply"}
    /\ \A k \in Cleaners : clr[k].pc \in
           {"idle", "prepare", "look", "mark", "marked", "remove", "complete"}
    /\ objects \in [Keys -> [cur : {"none", "data", "marker"},
                             digest : Digests \union {None}, old : BOOLEAN]]
    /\ puts \subseteq Attempts \X Streams \X Digests
    /\ marks \subseteq Attempts \X Streams \X {"create", "update"}
    /\ faults \in 0..MaxFaults

(* While the database serves references, the objects they name are there,  *)
(* whole, and hold what the plan promised (publish_output relies on        *)
(* upload's read and on cleanup's grace).                                  *)
PublishedIsReadable ==
    Readable # None =>
        \A s \in Streams : Holds(objects[<<row.ticket.attempt, s>>], Readable)

(* A completed cleanup is final in the bucket too: no bytes of the command *)
(* are left in any version at any attempt's key, and no upload still on    *)
(* its way can bring them back.                                            *)
CleanedStaysClean ==
    clean.done =>
        /\ \A key \in Keys : objects[key].cur # "data" /\ ~objects[key].old
        /\ \A p \in puts : objects[<<p[1], p[2]>>].cur = "marker"

(* Bytes reach the bucket only under the persisted plan, so a guest that   *)
(* answers differently the second time can never change an output.         *)
UploadMatchesPlan ==
    /\ \A key \in Keys : objects[key].cur = "data" =>
           key[1] = row.ticket.attempt /\ objects[key].digest = row.plans
    /\ arch.plans # None /\ row.plans # None => arch.plans = row.plans

(* What cleanup froze stays the whole truth: no plan, reference or status  *)
(* is written over an expired output, whatever claim its writer held.      *)
ExpiredIsFinal ==
    [][/\ row.status = "expired" =>
             /\ row'.status = "expired" /\ ~row'.lease
             /\ row'.plans = row.plans /\ row'.refs = row.refs
       /\ clean.manifest # None => clean.manifest = Inventory'
       /\ row.compacted => row'.compacted /\ row'.ticket = row.ticket]_vars

=============================================================================
