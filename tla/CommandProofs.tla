--------------------------- MODULE CommandProofs ---------------------------
(***************************************************************************)
(* Proofs about Commands: for any number of commands, cancellations,       *)
(* controllers, claims and lost or late calls, what the database says of a *)
(* command is what happened in the guest.  The argument follows the        *)
(* evidence: a row gets its dispatch intent before anything of it reaches  *)
(* the host, the host journals a record before it calls, the record is     *)
(* fenced or pending for good, and a known outcome never changes.          *)
(***************************************************************************)
EXTENDS Commands, FiniteSetTheorems, TLAPS

Unsent == {"cancelled_before_dispatch", "rejected_before_dispatch"}
Ended == Unstarted \union {"exited", "timed_out", "cancelled"}

(* Row r of command c, against the host's record and the guest's receipt.  *)
RowOK(c, r) ==
    /\ r.attempt = 0 =>
          r.phase \in {"none", "admitted"} \union Unsent /\ r.evidence = "none"
    /\ r.attempt = 1 => r.status \notin {"absent", "queued"} /\ r.phase \notin Unsent
    /\ r.status \in Terminal => ~r.leased
    /\ r.status \notin Terminal => r.phase \notin Ended /\ r.rev <= MaxClaims
    /\ r.status = "succeeded" => outcome[c] = "exited0"
    /\ r.status = "failed" /\ r.phase = "exited" => outcome[c] = "exited1"
    /\ r.phase \in {"timed_out", "cancelled"} => outcome[c] = r.phase
    /\ r.phase \in Unstarted \ Unsent => record[c] = "fenced"
    /\ r.evidence = "receipt" => outcome[c] # "none"

(* A completed cancellation has its target's final status.                 *)
CancelOK(k) ==
    /\ cancel[k].status # "absent" => cancel[k].target \in Commands
    /\ cancel[k].status = "succeeded" =>
          cancel[k].result \in Terminal /\ exec[cancel[k].target].status = cancel[k].result

Rows == (\A c \in Commands : RowOK(c, exec[c])) /\ (\A k \in Cancels : CancelOK(k))

(* Nothing of the command ever left the host.                              *)
Untouched(c) == calls[c] = 0 /\ c \notin wire /\ outcome[c] = "none"

(* The host's journal: a record only of what was dispatched, a call only   *)
(* of what was journalled, and only outcomes the guest has.                *)
Record(c) ==
    /\ record[c] \in {"none", "fenced"} => Untouched(c)
    /\ record[c] # "none" => exec[c].attempt = 1
    /\ record[c] \in Known => outcome[c] = record[c]
    /\ calls[c] <= 1 /\ outcome[c] # "retired"

(* The handler that holds the gate, and the requests on their way to it.   *)
Handler ==
    /\ busy # NoCall => record[busy.op] # "none"
    /\ busy.step = "call" => record[busy.op] = "pending" /\ Untouched(busy.op)
    /\ busy.step = "guest" => record[busy.op] = "pending"
    /\ \A m \in net : exec[m.op].attempt = 1

(* An observation on its way to the database is true and stays true.       *)
Truthful(c, o) ==
    /\ o.receipt \in Known => outcome[c] = o.receipt
    /\ o.receipt # "none" => outcome[c] # "none"
    /\ o.notStarted => o.receipt = "none" /\ record[c] = "fenced"

(* What a controller is about to do concerns a row of the right kind, and  *)
(* after the preparation one with a dispatch intent.                       *)
Ticking(x) ==
    /\ x.pc = "reconcile" => x.op \in Cancels
    /\ x.pc \in {"prepare", "await", "record", "unknown"} => x.op \in Commands /\ x.rev >= 1
    /\ x.pc \in {"await", "record", "unknown"} => exec[x.op].attempt = 1
    /\ x.pc = "record" => Truthful(x.op, x.obs)

Journalled == (\A c \in Commands : Record(c)) /\ Handler
Ticks == \A p \in Controllers : Ticking(w[p])

CommandInv == TypeOK /\ Rows /\ Journalled /\ Ticks

(* Admitted commands fit the journal's slots.                              *)
Room == Cardinality(Admitted) <= MaxCommands

-----------------------------------------------------------------------------
(* Frames.                                                                 *)

(* What no transaction undoes: a dispatch intent and a final row.          *)
Progress ==
    \A c \in Commands :
        /\ exec[c].attempt = 1 => exec'[c].attempt = 1
        /\ exec[c].status \in Terminal => exec'[c] = exec[c]

(* What no step of the host or the guest undoes.                           *)
Learns ==
    \A c \in Commands :
        /\ outcome[c] # "none" => outcome'[c] # "none"
        /\ outcome[c] \in Known => outcome'[c] = outcome[c]
        /\ record[c] = "fenced" => record'[c] = "fenced"

(* A transaction that replaces one unfinished row by one that is in order. *)
LEMMA RowChanges ==
    ASSUME TypeOK, Rows, UNCHANGED <<cancel, sandbox, authority>>, UNCHANGED <<record, outcome>>,
           NEW c \in Commands, NEW r \in ExecRows, exec' = [exec EXCEPT ![c] = r],
           RowOK(c, r), exec[c].status \notin Terminal, exec[c].attempt = 1 => r.attempt = 1
    PROVE  StoreTypeOK' /\ Progress /\ Rows'
  <1>1. exec \in [Commands -> ExecRows]  BY DEF TypeOK, StoreTypeOK
  <1>2. exec' \in [Commands -> ExecRows] /\ exec'[c] = r
        /\ \A d \in Commands \ {c} : exec'[d] = exec[d]
    BY <1>1
  <1>3. Progress  BY <1>2 DEF Progress
  <1>4. StoreTypeOK'  BY <1>2 DEF TypeOK, StoreTypeOK
  <1>5. \A d \in Commands : RowOK(d, exec[d])'
    BY <1>2 DEF Rows, RowOK
  <1>6. \A k \in Cancels : CancelOK(k)'
    BY <1>2 DEF Rows, CancelOK
  <1> QED BY <1>3, <1>4, <1>5, <1>6 DEF Rows

(* A transaction that leaves the execute rows alone.                       *)
LEMMA CancelChanges ==
    ASSUME TypeOK, Rows, exec' = exec, UNCHANGED <<record, outcome>>,
           cancel' \in [Cancels -> CancelRows], sandbox' \in {"running", "changed"},
           authority' \subseteq Commands,
           \A k \in Cancels : CancelOK(k)'
    PROVE  StoreTypeOK' /\ Progress /\ Rows'
  BY DEF TypeOK, StoreTypeOK, Progress, Rows, RowOK

(* Updates of an execute row give an execute row.                          *)
LEMMA RowTypes ==
    ASSUME NEW r \in ExecRows, r.rev <= MaxClaims
    PROVE  /\ [r EXCEPT !.status = "queued", !.phase = "admitted"] \in ExecRows
           /\ Claimable(r) => Claimed(r) \in ExecRows
           /\ [r EXCEPT !.leased = FALSE] \in ExecRows
           /\ [r EXCEPT !.attempt = 1, !.phase = "execute_dispatched"] \in ExecRows
           /\ Finished(r, "cancelled", "cancelled_before_dispatch") \in ExecRows
           /\ Finished(r, "failed", "rejected_before_dispatch") \in ExecRows
           /\ FencedRow(r) \in ExecRows
  <1> USE CommandAssumption DEF ExecRows
  <1>1. [r EXCEPT !.status = "queued", !.phase = "admitted"] \in ExecRows
    BY DEF Statuses, Active, Phases
  <1>2. Claimable(r) => Claimed(r) \in ExecRows
    <2> SUFFICES ASSUME Claimable(r) PROVE Claimed(r) \in ExecRows  OBVIOUS
    <2>1. r.rev + 1 \in 0..(MaxClaims + 1)  BY DEF Claimable
    <2>2. (IF r.status = "queued" THEN "running" ELSE r.status) \in Statuses
      BY DEF Statuses, Active
    <2> QED BY <2>1, <2>2 DEF Claimed
  <1>3. [r EXCEPT !.leased = FALSE] \in ExecRows  OBVIOUS
  <1>4. [r EXCEPT !.attempt = 1, !.phase = "execute_dispatched"] \in ExecRows
    BY DEF Phases
  <1>5. Finished(r, "cancelled", "cancelled_before_dispatch") \in ExecRows
    BY DEF Finished, Statuses, Terminal, Phases, Unstarted
  <1>6. Finished(r, "failed", "rejected_before_dispatch") \in ExecRows
    BY DEF Finished, Statuses, Terminal, Phases, Unstarted
  <1>7. FencedRow(r) \in ExecRows
    <2>1. r.rev + 1 \in 0..(MaxClaims + 1)  OBVIOUS
    <2>2. FencedRow(r) = [Finished(r, "cancelled", "cancelled_before_dispatch")
                            EXCEPT !.rev = r.rev + 1]
      BY DEF FencedRow, Finished
    <2> QED BY <1>5, <2>1, <2>2
  <1> QED BY <1>1, <1>2, <1>3, <1>4, <1>5, <1>6, <1>7

(* Admission, claims, the deferral and the expiry of a lease.              *)
LEMMA ClaimTx ==
    ASSUME TypeOK, Rows, UNCHANGED <<record, outcome>>, NEW c \in Commands, NEW rev,
           AdmitExecute(c) \/ ClaimExecute(c) \/ DeferExecute(c, rev) \/ ExecuteExpires(c)
    PROVE  StoreTypeOK' /\ Progress /\ Rows'
  <1>1. exec[c] \in ExecRows /\ RowOK(c, exec[c]) /\ exec \in [Commands -> ExecRows]
    BY DEF TypeOK, StoreTypeOK, Rows
  <1>2. exec[c].status \notin Terminal /\ UNCHANGED <<cancel, sandbox, authority>>
    BY <1>1 DEF AdmitExecute, ClaimExecute, DeferExecute, ExecuteExpires, Claimable, Holds, Active,
       Terminal, RowOK
  <1>3. exec[c].rev <= MaxClaims  BY <1>1, <1>2 DEF RowOK
  <1>4. CASE AdmitExecute(c)
    <2>1. PICK r : r = [exec[c] EXCEPT !.status = "queued", !.phase = "admitted"]  OBVIOUS
    <2>2. r \in ExecRows  BY <1>1, <1>3, <2>1, RowTypes
    <2>3. exec' = [exec EXCEPT ![c] = r]  BY <1>1, <1>4, <2>1 DEF AdmitExecute
    <2>4. exec[c].attempt = 0 /\ exec[c].attempt # 1
      BY <1>1, <1>4 DEF AdmitExecute, RowOK, ExecRows
    <2>5. RowOK(c, r)
      BY <1>1, <1>3, <2>1, <2>4 DEF RowOK, ExecRows, Terminal, Ended, Unstarted, Unsent
    <2> QED BY <1>2, <2>2, <2>3, <2>4, <2>5, RowChanges
  <1>5. CASE ClaimExecute(c)
    <2>1. PICK r : r = Claimed(exec[c])  OBVIOUS
    <2>2. r \in ExecRows  BY <1>1, <1>3, <1>5, <2>1, RowTypes DEF ClaimExecute
    <2>3. exec' = [exec EXCEPT ![c] = r]  BY <1>5, <2>1 DEF ClaimExecute
    <2>4. /\ r.attempt = exec[c].attempt /\ r.phase = exec[c].phase /\ r.evidence = exec[c].evidence
          /\ r.status \in Active /\ r.status # "queued" /\ r.rev <= MaxClaims
      BY <1>1, <1>5, <2>1, CommandAssumption
         DEF ClaimExecute, Claimable, Claimed, ExecRows, Active
    <2>5. RowOK(c, r)
      BY <1>1, <1>2, <2>4 DEF RowOK, Terminal, Active
    <2> QED BY <1>2, <2>2, <2>3, <2>4, <2>5, RowChanges
  <1>6. CASE DeferExecute(c, rev) \/ ExecuteExpires(c)
    <2>1. PICK r : r = [exec[c] EXCEPT !.leased = FALSE]  OBVIOUS
    <2>2. r \in ExecRows  BY <1>1, <1>3, <2>1, RowTypes
    <2>3. exec' = [exec EXCEPT ![c] = r]  BY <1>1, <1>6, <2>1 DEF DeferExecute, ExecuteExpires
    <2>4. /\ r.attempt = exec[c].attempt /\ r.phase = exec[c].phase /\ r.evidence = exec[c].evidence
          /\ r.status = exec[c].status /\ r.rev = exec[c].rev
      BY <1>1, <2>1 DEF ExecRows
    <2>5. RowOK(c, r)
      BY <1>1, <1>2, <2>4 DEF RowOK
    <2> QED BY <1>2, <2>2, <2>3, <2>4, <2>5, RowChanges
  <1> QED BY <1>4, <1>5, <1>6

(* prepare_execute(): before the dispatch intent, or the intent itself.    *)
LEMMA PrepareTx ==
    ASSUME TypeOK, Rows, UNCHANGED <<record, outcome>>, NEW c \in Commands, NEW rev,
           PrepareCancelled(c, rev) \/ PrepareRejected(c, rev) \/ PrepareDispatch(c, rev)
    PROVE  /\ StoreTypeOK' /\ Progress /\ Rows'
           /\ PrepareDispatch(c, rev) => exec'[c].attempt = 1
  <1>1. exec[c] \in ExecRows /\ RowOK(c, exec[c]) /\ exec \in [Commands -> ExecRows]
    BY DEF TypeOK, StoreTypeOK, Rows
  <1>2. /\ exec[c].status \in {"running", "unknown"} /\ exec[c].attempt = 0
        /\ UNCHANGED <<cancel, sandbox, authority>>
    BY <1>1 DEF PrepareCancelled, PrepareRejected, PrepareDispatch, Undispatched, Holds
  <1>3. exec[c].rev <= MaxClaims /\ exec[c].status \notin Terminal
    BY <1>1, <1>2 DEF RowOK, Terminal
  <1>4. CASE PrepareDispatch(c, rev)
    <2>1. PICK r : r = [exec[c] EXCEPT !.attempt = 1, !.phase = "execute_dispatched"]  OBVIOUS
    <2>2. r \in ExecRows  BY <1>1, <1>3, <2>1, RowTypes
    <2>3. exec' = [exec EXCEPT ![c] = r]  BY <1>1, <1>4, <2>1 DEF PrepareDispatch
    <2>4. /\ r.attempt = 1 /\ r.phase = "execute_dispatched" /\ r.evidence = exec[c].evidence
          /\ r.status = exec[c].status /\ r.rev = exec[c].rev
      BY <1>1, <2>1 DEF ExecRows
    <2>5. RowOK(c, r)
      BY <1>1, <1>2, <1>3, <2>4 DEF RowOK, Ended, Unstarted, Unsent, Terminal
    <2>6. exec'[c].attempt = 1  BY <1>1, <2>3, <2>4
    <2> QED BY <1>2, <1>3, <2>2, <2>3, <2>4, <2>5, <2>6, RowChanges
  <1>5. ASSUME NEW status \in Terminal \ {"succeeded"}, NEW phase \in Unsent,
               exec' = [exec EXCEPT ![c] = Finished(@, status, phase)],
               Finished(exec[c], status, phase) \in ExecRows
        PROVE  StoreTypeOK' /\ Progress /\ Rows'
    <2>1. PICK r : r = Finished(exec[c], status, phase)  OBVIOUS
    <2>2. r \in ExecRows /\ exec' = [exec EXCEPT ![c] = r]  BY <1>1, <1>5, <2>1
    <2>3. /\ r.attempt = 0 /\ r.phase = phase /\ r.evidence = exec[c].evidence
          /\ r.status = status /\ r.leased = FALSE
      BY <1>1, <1>2, <2>1 DEF ExecRows, Finished
    <2>4. RowOK(c, r)
      BY <1>1, <1>2, <2>3 DEF RowOK, Ended, Unstarted, Unsent, Terminal
    <2> QED BY <1>2, <1>3, <2>2, <2>3, <2>4, RowChanges
  <1>6. CASE PrepareCancelled(c, rev)
    BY <1>1, <1>3, <1>5, <1>6, <1>2, RowTypes
       DEF PrepareCancelled, Terminal, Unsent, PrepareDispatch
  <1>7. CASE PrepareRejected(c, rev)
    BY <1>1, <1>3, <1>5, <1>7, <1>2, RowTypes DEF PrepareRejected, Terminal, Unsent, PrepareDispatch
  <1> QED BY <1>4, <1>6, <1>7

(* The verdict on a truthful observation agrees with the guest, whatever   *)
(* the database knew before (finish_execute_observation()).                *)
LEMMA ObservedRow ==
    ASSUME NEW c \in Commands, exec[c] \in ExecRows, RowOK(c, exec[c]), exec[c].attempt = 1,
           exec[c].status \notin Terminal, NEW o \in Observations, Truthful(c, o)
    PROVE  /\ Observed(c, o) \in ExecRows /\ RowOK(c, Observed(c, o))
           /\ Observed(c, o).attempt = 1
  <1>1. PICK v : v = Verdict(c, o)  OBVIOUS
  <1>2. PICK r : r = Observed(c, o)  OBVIOUS
  <1>3. o.receipt \in Known \union {"none", "intent", "unknown"} /\ o.notStarted \in BOOLEAN
    BY DEF Observations
  <1>4. \/ o.receipt = "exited0" /\ v = <<"succeeded", "exited">>
        \/ o.receipt = "exited1" /\ v = <<"failed", "exited">>
        \/ o.receipt = "timed_out" /\ v = <<"failed", "timed_out">>
        \/ o.receipt = "cancelled" /\ v = <<"cancelled", "cancelled">>
        \/ o.receipt = "intent" /\ v = <<"running", "executing">>
        \/ o.notStarted /\ v = <<"cancelled", "cancelled_before_start">>
        \/ o.notStarted /\ v = <<"failed", "not_started">>
        \/ v = <<"unknown", "reconciling">>
    BY <1>1, <1>3 DEF Verdict, Known
  <1>5. PICK e : e = IF o.receipt # "none" THEN "receipt"
                     ELSE IF o.notStarted THEN "not_started" ELSE exec[c].evidence
    OBVIOUS
  <1>6. e \in {"none", "receipt", "not_started"} /\ (e = "receipt" => outcome[c] # "none")
    BY <1>3, <1>5 DEF ExecRows, RowOK, Truthful
  <1>7. v[1] \in Statuses /\ v[2] \in Phases
    BY <1>4 DEF Statuses, Active, Terminal, Phases, Unstarted
  <1>8. r = [exec[c] EXCEPT !.status = v[1], !.phase = v[2], !.leased = FALSE, !.evidence = e]
    BY <1>1, <1>2, <1>5 DEF Observed
  <1>9. r \in ExecRows
    BY <1>6, <1>7, <1>8 DEF ExecRows
  <1>10. /\ r.status = v[1] /\ r.phase = v[2] /\ r.leased = FALSE /\ r.evidence = e
         /\ r.attempt = 1 /\ r.rev = exec[c].rev
    BY <1>8 DEF ExecRows
  <1>11. RowOK(c, r)
    BY <1>4, <1>6, <1>10 DEF RowOK, Truthful, Terminal, Ended, Unstarted, Unsent, Known
  <1> QED BY <1>2, <1>9, <1>10, <1>11

(* Recording a truthful observation.                                       *)
LEMMA RecordTx ==
    ASSUME TypeOK, Rows, UNCHANGED <<record, outcome>>, NEW c \in Commands, NEW rev,
           NEW o \in Observations, Truthful(c, o), RecordObservation(c, rev, o)
    PROVE  StoreTypeOK' /\ Progress /\ Rows'
  <1>1. exec[c] \in ExecRows /\ RowOK(c, exec[c])
    BY DEF TypeOK, StoreTypeOK, Rows
  <1>2. exec[c].status \notin Terminal /\ exec[c].attempt = 1
        /\ UNCHANGED <<cancel, sandbox, authority>>
    BY DEF RecordObservation, Dispatched, Holds, Terminal
  <1>3. PICK r : r = Observed(c, o)  OBVIOUS
  <1>4. exec' = [exec EXCEPT ![c] = r]  BY <1>3 DEF RecordObservation
  <1>5. r \in ExecRows /\ RowOK(c, r) /\ r.attempt = 1
    BY <1>1, <1>2, <1>3, ObservedRow
  <1> QED BY <1>2, <1>4, <1>5, RowChanges

(* The cancel rows: admission, claim and expiry.                           *)
LEMMA CancelTx ==
    ASSUME TypeOK, Rows, UNCHANGED <<record, outcome>>, NEW k \in Cancels, NEW c,
           AdmitCancel(k, c) \/ ClaimCancel(k) \/ CancelExpires(k)
    PROVE  StoreTypeOK' /\ Progress /\ Rows'
  <1>1. cancel \in [Cancels -> CancelRows] /\ cancel[k] \in CancelRows /\ CancelOK(k)
        /\ sandbox \in {"running", "changed"} /\ authority \subseteq Commands
    BY DEF TypeOK, StoreTypeOK, Rows
  <1>2. exec' = exec /\ sandbox' = sandbox /\ authority' = authority
    BY DEF AdmitCancel, ClaimCancel, CancelExpires
  <1>3. ASSUME NEW r \in CancelRows, cancel' = [cancel EXCEPT ![k] = r],
               r.status # "absent" => r.target \in Commands,
               r.status = "succeeded" => r.result \in Terminal /\ exec[r.target].status = r.result
        PROVE  StoreTypeOK' /\ Progress /\ Rows'
    <2>1. cancel' \in [Cancels -> CancelRows] /\ cancel'[k] = r
          /\ \A j \in Cancels \ {k} : cancel'[j] = cancel[j]
      BY <1>1, <1>3
    <2>2. \A j \in Cancels : CancelOK(j)'
      BY <1>2, <1>3, <2>1 DEF Rows, CancelOK
    <2> QED BY <1>1, <1>2, <2>1, <2>2, CancelChanges
  <1>4. CASE AdmitCancel(k, c)
    <2>1. PICK r : r = [cancel[k] EXCEPT !.target = c,
                          !.status = IF exec[c].status \in Terminal THEN "succeeded" ELSE "queued",
                          !.result = IF exec[c].status \in Terminal THEN exec[c].status ELSE "none"]
      OBVIOUS
    <2>2. cancel' = [cancel EXCEPT ![k] = r]  BY <1>1, <1>4, <2>1 DEF AdmitCancel
    <2>0. c \in Commands  BY <1>4 DEF AdmitCancel, Admitted
    <2>3. r \in CancelRows  BY <1>1, <2>0, <2>1 DEF CancelRows
    <2>4. r.target = c /\ (r.status = "succeeded" => r.result \in Terminal /\ exec[c].status = r.result)
      BY <1>1, <2>1 DEF CancelRows
    <2> QED BY <1>3, <2>0, <2>2, <2>3, <2>4
  <1>5. CASE ClaimCancel(k)
    <2>1. PICK r : r = Claimed(cancel[k])  OBVIOUS
    <2>2. cancel' = [cancel EXCEPT ![k] = r]  BY <1>5, <2>1 DEF ClaimCancel
    <2>3. cancel[k].status \in Active /\ cancel[k].rev + 1 \in 0..MaxClaims
      BY <1>1, <1>5, CommandAssumption DEF ClaimCancel, Claimable, CancelRows
    <2>4. cancel[k].status \in {"queued", "running"}  BY <1>1, <2>3 DEF CancelRows, Active
    <2>5. r \in CancelRows  BY <1>1, <2>1, <2>3, <2>4 DEF CancelRows, Claimed
    <2>6. r.target = cancel[k].target /\ r.status = "running"
      BY <1>1, <2>1, <2>4 DEF CancelRows, Claimed
    <2> QED BY <1>1, <1>3, <2>2, <2>4, <2>5, <2>6 DEF CancelOK
  <1>6. CASE CancelExpires(k)
    <2>1. PICK r : r = [cancel[k] EXCEPT !.leased = FALSE]  OBVIOUS
    <2>2. cancel' = [cancel EXCEPT ![k] = r]  BY <1>1, <1>6, <2>1 DEF CancelExpires
    <2>3. r \in CancelRows /\ r.target = cancel[k].target /\ r.status = cancel[k].status
          /\ r.result = cancel[k].result
      BY <1>1, <2>1 DEF CancelRows
    <2> QED BY <1>1, <1>3, <2>2, <2>3 DEF CancelOK
  <1> QED BY <1>4, <1>5, <1>6

(* Reconciling a cancellation completes it only with its target's status.  *)
LEMMA ReconcileTx ==
    ASSUME TypeOK, Rows, UNCHANGED <<record, outcome>>, NEW k \in Cancels, NEW rev,
           ReconcileCancel(k, rev)
    PROVE  StoreTypeOK' /\ Progress /\ Rows'
  <1>1. cancel \in [Cancels -> CancelRows] /\ cancel[k] \in CancelRows /\ CancelOK(k)
        /\ cancel[k].status \in {"running", "unknown"}
    BY DEF TypeOK, StoreTypeOK, Rows, ReconcileCancel, Holds
  <1>2. PICK c \in Commands : c = cancel[k].target  BY <1>1 DEF CancelOK
  <1>3. exec \in [Commands -> ExecRows] /\ exec[c] \in ExecRows /\ RowOK(c, exec[c])
    BY DEF TypeOK, StoreTypeOK, Rows
  <1>4. PICK status : status = IF Fenceable(exec[c]) THEN "cancelled" ELSE exec[c].status  OBVIOUS
  <1>5. PICK x : x = IF Fenceable(exec[c]) THEN FencedRow(exec[c]) ELSE exec[c]  OBVIOUS
  <1>6. PICK r : r = [cancel[k] EXCEPT !.leased = FALSE,
                        !.status = IF status \in Terminal THEN "succeeded" ELSE @,
                        !.result = IF status \in Terminal THEN status ELSE "none"]
    OBVIOUS
  <1>7. /\ exec' = [exec EXCEPT ![c] = x] /\ cancel' = [cancel EXCEPT ![k] = r]
        /\ sandbox' = sandbox /\ authority' = authority
    BY <1>1, <1>2, <1>3, <1>4, <1>5, <1>6 DEF ReconcileCancel
  <1>8. x \in ExecRows /\ RowOK(c, x) /\ x.status = status /\ x.attempt = exec[c].attempt
        /\ (exec[c].status \in Terminal => x = exec[c])
    <2>1. CASE Fenceable(exec[c])
      <3>1. exec[c].status \in {"queued", "running"} /\ exec[c].attempt = 0
            /\ exec[c].rev <= MaxClaims
        BY <1>3, <2>1 DEF Fenceable, RowOK, Terminal
      <3>2. x \in ExecRows  BY <1>3, <1>5, <2>1, <3>1, RowTypes
      <3>3. /\ x.status = "cancelled" /\ x.phase = "cancelled_before_dispatch" /\ x.leased = FALSE
            /\ x.attempt = 0 /\ x.evidence = exec[c].evidence
        BY <1>3, <1>5, <2>1, <3>1 DEF FencedRow, Finished, ExecRows
      <3>4. RowOK(c, x)
        BY <1>3, <3>1, <3>3 DEF RowOK, Terminal, Unsent, Unstarted
      <3> QED BY <1>4, <2>1, <3>1, <3>2, <3>3, <3>4 DEF Terminal
    <2>2. CASE ~Fenceable(exec[c])  BY <1>3, <1>4, <1>5, <2>2
    <2> QED BY <2>1, <2>2
  <1>9. r \in CancelRows /\ r.target = c
        /\ (r.status = "succeeded" => r.result \in Terminal /\ status = r.result)
    <2>1. cancel[k].status = "running"  BY <1>1 DEF CancelRows
    <2>2. r \in CancelRows  BY <1>1, <1>6 DEF CancelRows
    <2>3. r.target = c  BY <1>1, <1>2, <1>6 DEF CancelRows
    <2>4. r.status = "succeeded" => r.result \in Terminal /\ status = r.result
      BY <1>1, <1>6, <2>1 DEF CancelRows
    <2> QED BY <2>2, <2>3, <2>4
  <1>10. /\ exec' \in [Commands -> ExecRows] /\ exec'[c] = x
         /\ \A d \in Commands \ {c} : exec'[d] = exec[d]
    BY <1>3, <1>7, <1>8
  <1>11. /\ cancel' \in [Cancels -> CancelRows] /\ cancel'[k] = r
         /\ \A j \in Cancels \ {k} : cancel'[j] = cancel[j]
    BY <1>1, <1>7, <1>9
  <1>12. Progress  BY <1>8, <1>10 DEF Progress
  <1>13. StoreTypeOK'  BY <1>7, <1>10, <1>11 DEF TypeOK, StoreTypeOK
  <1>14. \A d \in Commands : RowOK(d, exec[d])'
    BY <1>8, <1>10 DEF Rows, RowOK
  <1>15. \A j \in Cancels : CancelOK(j)'
    <2>1. CancelOK(k)'  BY <1>8, <1>9, <1>10, <1>11 DEF CancelOK
    <2>2. \A j \in Cancels \ {k} : CancelOK(j)'
      BY <1>11, <1>12 DEF CancelOK, Rows, Progress
    <2> QED BY <2>1, <2>2
  <1> QED BY <1>12, <1>13, <1>14, <1>15 DEF Rows

-----------------------------------------------------------------------------
(* Controllers.                                                            *)

TickRecords ==
    [pc : {"idle", "reconcile", "prepare", "await", "record", "unknown"},
     op : Commands \union Cancels \union {NoCommand}, rev : 0..MaxClaims, obs : Observations]

(* A transaction, a tick that moves on, and at most a request sent for a   *)
(* dispatched row.                                                         *)
LEMMA TickStep ==
    ASSUME CommandInv, StoreTypeOK', Progress, Rows', NEW p \in Controllers, NEW x \in TickRecords,
           w' = [w EXCEPT ![p] = x], Ticking(x)',
           UNCHANGED <<host, stopped, record, fence, busy>>, UNCHANGED guestVars,
           net' \subseteq Requests, \A m \in net' : m \in net \/ exec'[m.op].attempt = 1,
           faults' \in 0..MaxFaults
    PROVE  CommandInv'
  <1>1. TypeOK /\ w \in [Controllers -> TickRecords] /\ net \subseteq Requests
        /\ busy \in Requests \union {NoCall}
    BY DEF CommandInv, TypeOK, TickRecords
  <1>2. w' \in [Controllers -> TickRecords] /\ w'[p] = x
        /\ \A q \in Controllers \ {p} : w'[q] = w[q]
    BY <1>1
  <1>3. TypeOK'
    BY <1>1, <1>2 DEF TypeOK, TickRecords, guestVars
  <1>4. Journalled'
    <2>1. \A c \in Commands : Record(c)'
      BY DEF CommandInv, Journalled, Record, Untouched, guestVars, Progress
    <2>2. \A m \in net : m.op \in Commands  BY <1>1 DEF Requests
    <2>3. \A m \in net' : exec'[m.op].attempt = 1
      BY <2>2 DEF CommandInv, Journalled, Handler, Progress
    <2> QED BY <2>1, <2>3 DEF CommandInv, Journalled, Handler, Untouched, guestVars
  <1>5. \A q \in Controllers \ {p} : Ticking(w[q])'
    <2> SUFFICES ASSUME NEW q \in Controllers \ {p} PROVE Ticking(w[q])'  OBVIOUS
    <2>1. w'[q] = w[q] /\ Ticking(w[q])  BY <1>2 DEF CommandInv, Ticks
    <2> QED BY <2>1 DEF Ticking, Progress, Truthful, guestVars
  <1>6. Ticks'  BY <1>2, <1>5 DEF Ticks
  <1> QED BY <1>3, <1>4, <1>6 DEF CommandInv

(* The outcome of a tick's transaction when it ends or goes back to idle.  *)
LEMMA TickEnds ==
    ASSUME CommandInv, StoreTypeOK', Progress, Rows', NEW p \in Controllers, Finish(p),
           UNCHANGED <<hostVars, guestVars>>, faults' \in 0..MaxFaults
    PROVE  CommandInv'
  <1>1. Idle \in TickRecords
    BY CommandAssumption DEF Idle, TickRecords, Observations, Nothing
  <1>2. Ticking(Idle)'  BY DEF Ticking, Idle
  <1>3. UNCHANGED <<host, stopped, record, fence, busy>> /\ net' = net /\ UNCHANGED guestVars
    BY DEF hostVars
  <1>4. net' \subseteq Requests  BY <1>3 DEF CommandInv, TypeOK
  <1> QED BY <1>1, <1>2, <1>3, <1>4, TickStep DEF Finish

(* A tick that only goes on to "unknown", after the preparation.           *)
LEMMA TickUnknown ==
    ASSUME CommandInv, UNCHANGED storeVars, NEW p \in Controllers, Goto(p, "unknown"),
           w[p].op \in Commands, w[p].rev >= 1, exec[w[p].op].attempt = 1,
           UNCHANGED <<hostVars, guestVars>>, faults' \in 0..MaxFaults
    PROVE  CommandInv'
  <1>1. w \in [Controllers -> TickRecords] /\ w[p] \in TickRecords
    BY DEF CommandInv, TypeOK, TickRecords
  <1>2. PICK x : x = [w[p] EXCEPT !.pc = "unknown"]  OBVIOUS
  <1>3. x \in TickRecords /\ x.pc = "unknown" /\ x.op = w[p].op /\ x.rev = w[p].rev
    BY <1>1, <1>2 DEF TickRecords
  <1>4. w' = [w EXCEPT ![p] = x]  BY <1>1, <1>2 DEF Goto
  <1>5. Ticking(x)'  BY <1>3 DEF Ticking, storeVars
  <1>6. StoreTypeOK' /\ Progress /\ Rows'
    BY DEF CommandInv, TypeOK, StoreTypeOK, Progress, Rows, RowOK, CancelOK, storeVars, hostVars,
       guestVars
  <1>7. UNCHANGED <<host, stopped, record, fence, busy>> /\ net' = net /\ UNCHANGED guestVars
    BY DEF hostVars
  <1>8. net' \subseteq Requests  BY <1>7 DEF CommandInv, TypeOK
  <1> QED BY <1>3, <1>4, <1>5, <1>6, <1>7, <1>8, TickStep

(* The request of a dispatched row is sent, or dropped for a newer epoch.  *)
LEMMA SendStep ==
    ASSUME CommandInv, StoreTypeOK', Progress, Rows', NEW p \in Controllers,
           w[p].pc = "prepare", exec'[w[p].op].attempt = 1,
           NEW kind \in {"execute", "inspect", "cancel"}, Send(p, kind)
    PROVE  CommandInv'
  <1>1. /\ w \in [Controllers -> TickRecords] /\ w[p] \in TickRecords /\ faults \in 0..MaxFaults
        /\ net \subseteq Requests
    BY DEF CommandInv, TypeOK, TickRecords
  <1>2. w[p].op \in Commands /\ w[p].rev >= 1 /\ w[p].rev \in 1..MaxClaims
    BY <1>1 DEF CommandInv, Ticks, Ticking, TickRecords
  <1>3. PICK pc \in {"await", "unknown"} :
           /\ Goto(p, pc) /\ UNCHANGED <<host, stopped, record, fence, busy>>
           /\ UNCHANGED guestVars /\ faults' = faults
           /\ \/ net' = net
              \/ net' = net \union {[kind |-> kind, op |-> w[p].op, rev |-> w[p].rev, step |-> "new"]}
    BY DEF Send, Local, hostVars
  <1>4. PICK x : x = [w[p] EXCEPT !.pc = pc]  OBVIOUS
  <1>5. x \in TickRecords /\ x.pc = pc /\ x.op = w[p].op /\ x.rev = w[p].rev
    BY <1>1, <1>4 DEF TickRecords
  <1>6. w' = [w EXCEPT ![p] = x]  BY <1>1, <1>3, <1>4 DEF Goto
  <1>7. Ticking(x)'  BY <1>2, <1>5 DEF Ticking
  <1>8. PICK m : m = [kind |-> kind, op |-> w[p].op, rev |-> w[p].rev, step |-> "new"]  OBVIOUS
  <1>9. m \in Requests /\ m.op = w[p].op  BY <1>2, <1>8 DEF Requests
  <1>10. net' \subseteq Requests /\ \A n \in net' : n \in net \/ exec'[n.op].attempt = 1
    BY <1>1, <1>3, <1>8, <1>9
  <1> QED BY <1>1, <1>3, <1>5, <1>6, <1>7, <1>10, TickStep

(* Claiming an operation and starting its tick.                            *)
LEMMA ClaimStep ==
    ASSUME CommandInv, NEW p \in Controllers,
           \/ \E k \in Cancels : CancelTick(p, k)
           \/ \E c \in Commands : ExecuteTick(p, c)
    PROVE  CommandInv'
  <1>0. TypeOK /\ Rows /\ Nothing \in Observations /\ faults \in 0..MaxFaults /\ net \subseteq Requests
    BY DEF CommandInv, TypeOK, Nothing, Observations
  <1>1. UNCHANGED <<host, stopped, record, fence, busy>> /\ UNCHANGED guestVars /\ net' = net
        /\ faults' = faults /\ UNCHANGED <<record, outcome>>
    BY DEF CancelTick, ExecuteTick, Local, hostVars, guestVars
  <1>2. ASSUME NEW k \in Cancels, CancelTick(p, k) PROVE CommandInv'
    <2>1. PICK x : x = [pc |-> "reconcile", op |-> k, rev |-> cancel'[k].rev, obs |-> Nothing]
      OBVIOUS
    <2>2. w' = [w EXCEPT ![p] = x] /\ ClaimCancel(k)  BY <1>2, <2>1 DEF CancelTick
    <2>4. StoreTypeOK' /\ Progress /\ Rows'  BY <1>0, <1>1, <2>2, CancelTx
    <2>5. x \in TickRecords  BY <1>0, <2>1, <2>4 DEF TickRecords, StoreTypeOK, CancelRows
    <2>6. Ticking(x)'  BY <2>1 DEF Ticking
    <2> QED BY <1>0, <1>1, <2>2, <2>4, <2>5, <2>6, TickStep
  <1>3. ASSUME NEW c \in Commands, ExecuteTick(p, c) PROVE CommandInv'
    <2>1. PICK x : x = [pc |-> "prepare", op |-> c, rev |-> exec'[c].rev, obs |-> Nothing]
      OBVIOUS
    <2>2. w' = [w EXCEPT ![p] = x] /\ ClaimExecute(c)  BY <1>3, <2>1 DEF ExecuteTick
    <2>3. StoreTypeOK' /\ Progress /\ Rows'  BY <1>0, <1>1, <2>2, ClaimTx
    <2>4. exec'[c].rev \in 1..MaxClaims
      <3>1. exec[c] \in ExecRows /\ exec \in [Commands -> ExecRows]  BY <1>0 DEF TypeOK, StoreTypeOK
      <3>2. exec'[c] = Claimed(exec[c]) /\ Claimable(exec[c])
        BY <2>2, <3>1 DEF ClaimExecute
      <3>3. exec'[c].rev = exec[c].rev + 1  BY <3>1, <3>2 DEF Claimed, ExecRows
      <3> QED BY <3>1, <3>2, <3>3, CommandAssumption DEF Claimable, ExecRows
    <2>5. x \in TickRecords  BY <1>0, <2>1, <2>4 DEF TickRecords
    <2>6. Ticking(x)'  BY <2>1, <2>4 DEF Ticking
    <2> QED BY <1>0, <1>1, <2>2, <2>3, <2>5, <2>6, TickStep
  <1> QED BY <1>2, <1>3

(* The rows do not change.                                                 *)
LEMMA RowsStay ==
    ASSUME CommandInv, UNCHANGED storeVars, UNCHANGED <<record, outcome>>
    PROVE  StoreTypeOK' /\ Progress /\ Rows'
  BY DEF CommandInv, TypeOK, StoreTypeOK, Progress, Rows, RowOK, CancelOK, storeVars

(* The rest of a controller's tick.                                        *)
LEMMA ControllerSteps ==
    ASSUME CommandInv, NEW p \in Controllers, ControllerStep(p)
    PROVE  CommandInv'
  <1>0. TypeOK /\ Rows /\ faults \in 0..MaxFaults /\ w[p] \in TickRecords /\ Ticking(w[p])
    BY DEF CommandInv, TypeOK, Ticks, TickRecords
  <1>1. Fault \/ UNCHANGED faults => faults' \in 0..MaxFaults
    BY <1>0, ControllersAssumption DEF Fault
  <1>2. UNCHANGED <<hostVars, guestVars>> => UNCHANGED <<record, outcome>>
    BY DEF hostVars, guestVars
  <1>3. CASE ReconcileTick(p)
    <2>1. w[p].op \in Cancels  BY <1>0, <1>3 DEF ReconcileTick, Ticking
    <2>2. Finish(p) /\ UNCHANGED <<hostVars, guestVars>> /\ UNCHANGED faults
      BY <1>3 DEF ReconcileTick, Local
    <2>3. StoreTypeOK' /\ Progress /\ Rows'
      <3>1. CASE ReconcileCancel(w[p].op, w[p].rev)
        BY <1>0, <1>2, <2>1, <2>2, <3>1, ReconcileTx
      <3>2. CASE UNCHANGED storeVars  BY <1>2, <2>2, <3>2, RowsStay
      <3> QED BY <1>3, <3>1, <3>2 DEF ReconcileTick
    <2> QED BY <1>1, <2>2, <2>3, TickEnds
  <1>4. CASE PrepareTick(p)
    <2>0. w[p].pc = "prepare" /\ w[p].op \in Commands /\ w[p].rev >= 1
      BY <1>0, <1>4 DEF PrepareTick, Ticking
    <2>1. PICK c, rev : c = w[p].op /\ rev = w[p].rev  OBVIOUS
    <2>10. c \in Commands  BY <2>0, <2>1
    <2>2. CASE PrepareDispatch(c, rev) /\ Send(p, "execute")
      <3>1. UNCHANGED <<record, outcome>>
        BY <2>2 DEF Send, Local, hostVars, guestVars
      <3>2. StoreTypeOK' /\ Progress /\ Rows' /\ exec'[c].attempt = 1
        BY <1>0, <2>2, <2>10, <3>1, PrepareTx
      <3> QED BY <2>0, <2>1, <2>2, <3>2, SendStep
    <2>3. CASE Dispatched(c, rev) /\ UNCHANGED storeVars
               /\ Send(p, IF Cancelling(c) THEN "cancel" ELSE "inspect")
      <3>1. UNCHANGED <<record, outcome>>
        BY <2>3 DEF Send, Local, hostVars, guestVars
      <3>2. StoreTypeOK' /\ Progress /\ Rows'  BY <2>3, <3>1, RowsStay
      <3>3. exec'[c].attempt = 1  BY <2>3 DEF Dispatched, storeVars
      <3>4. PICK kind \in {"execute", "inspect", "cancel"} : Send(p, kind)
        BY <2>3
      <3> QED BY <2>0, <2>1, <3>2, <3>3, <3>4, SendStep
    <2>4. ASSUME Finish(p), Local,
                 \/ PrepareCancelled(c, rev) \/ PrepareRejected(c, rev)
                 \/ DeferExecute(c, rev) \/ UNCHANGED storeVars
          PROVE  CommandInv'
      <3>1. UNCHANGED <<hostVars, guestVars>> /\ UNCHANGED faults  BY <2>4 DEF Local
      <3>2. StoreTypeOK' /\ Progress /\ Rows'
        BY <1>0, <1>2, <2>4, <2>10, <3>1, PrepareTx, ClaimTx, RowsStay
      <3> QED BY <1>1, <2>4, <3>1, <3>2, TickEnds
    <2> QED BY <1>4, <2>1, <2>2, <2>3, <2>4 DEF PrepareTick, Prepared
  <1>5. CASE AwaitFails(p)
    <2>1. w[p].op \in Commands /\ w[p].rev >= 1 /\ exec[w[p].op].attempt = 1
      BY <1>0, <1>5 DEF AwaitFails, Ticking
    <2>2. Goto(p, "unknown") /\ UNCHANGED storeVars /\ UNCHANGED <<hostVars, guestVars>>
          /\ (Fault \/ UNCHANGED faults)
      BY <1>5 DEF AwaitFails, FaultIf
    <2> QED BY <1>1, <2>1, <2>2, TickUnknown
  <1>6. CASE RecordTick(p)
    <2>1. w[p].op \in Commands /\ w[p].rev >= 1 /\ exec[w[p].op].attempt = 1
          /\ Truthful(w[p].op, w[p].obs) /\ w[p].obs \in Observations
      BY <1>0, <1>6 DEF RecordTick, Ticking, TickRecords
    <2>2. UNCHANGED <<hostVars, guestVars>> /\ (Fault \/ UNCHANGED faults)
      BY <1>6 DEF RecordTick, FaultIf
    <2>3. CASE RecordObservation(w[p].op, w[p].rev, w[p].obs) /\ Finish(p)
      <3>1. StoreTypeOK' /\ Progress /\ Rows'  BY <1>0, <1>2, <2>1, <2>2, <2>3, RecordTx
      <3> QED BY <1>1, <2>2, <2>3, <3>1, TickEnds
    <2>4. CASE Goto(p, "unknown") /\ UNCHANGED storeVars
      BY <1>1, <2>1, <2>2, <2>4, TickUnknown
    <2>5. CASE Finish(p) /\ UNCHANGED storeVars
      BY <1>1, <1>2, <2>2, <2>5, RowsStay, TickEnds
    <2> QED BY <1>6, <2>3, <2>4, <2>5 DEF RecordTick
  <1>7. CASE UnknownTick(p)
    <2>1. w[p].op \in Commands /\ Nothing \in Observations /\ Truthful(w[p].op, Nothing)
      BY <1>0, <1>7 DEF UnknownTick, Ticking, Nothing, Observations, Truthful, Known
    <2>2. Finish(p) /\ UNCHANGED <<hostVars, guestVars>> /\ UNCHANGED faults
      BY <1>7 DEF UnknownTick, Local
    <2>3. StoreTypeOK' /\ Progress /\ Rows'
      <3>1. CASE RecordUnknown(w[p].op, w[p].rev)
        BY <1>0, <1>2, <2>1, <2>2, <3>1, RecordTx DEF RecordUnknown
      <3>2. CASE UNCHANGED storeVars  BY <1>2, <2>2, <3>2, RowsStay
      <3> QED BY <1>7, <3>1, <3>2 DEF UnknownTick
    <2> QED BY <1>1, <2>2, <2>3, TickEnds
  <1>8. CASE Abandon(p)
    <2>1. Finish(p) /\ UNCHANGED <<hostVars, guestVars>> /\ UNCHANGED storeVars /\ Fault
      BY <1>8 DEF Abandon
    <2> QED BY <1>1, <1>2, <2>1, RowsStay, TickEnds
  <1> QED BY <1>3, <1>4, <1>5, <1>6, <1>7, <1>8, ClaimStep DEF ControllerStep

-----------------------------------------------------------------------------
(* The host and the guest.                                                 *)

(* A step of the host or the guest that only adds to what is known, and    *)
(* answers controllers truthfully.                                         *)
LEMMA HostFrame ==
    ASSUME CommandInv, UNCHANGED storeVars, Learns, Journalled',
           record' \in [Commands -> Known \union {"none", "fenced", "pending", "intent", "unknown"}],
           outcome' \in [Commands -> Guest!Outcomes], calls' \in [Commands -> Nat],
           fence' \in [Commands -> 0..MaxClaims], net' \subseteq Requests,
           busy' \in Requests \union {NoCall}, host' \in {"serving", "dead", "newer"},
           stopped' \in BOOLEAN, wire' \subseteq Commands, asked' \subseteq Commands,
           faults' \in 0..MaxFaults,
           \/ w' = w
           \/ \E m \in Requests, o \in Observations : Answer(m, o) /\ Truthful(m.op, o)'
    PROVE  CommandInv'
  <1>1. w \in [Controllers -> TickRecords] /\ Ticks  BY DEF CommandInv, TypeOK, TickRecords
  <1>2. Rows'
    BY DEF CommandInv, Rows, RowOK, CancelOK, storeVars, Learns, Known
  <1>3. ASSUME NEW p \in Controllers, w'[p] = w[p] PROVE Ticking(w[p])'
    BY <1>1, <1>3 DEF Ticks, Ticking, Truthful, Learns, storeVars, Known
  <1>4. w' \in [Controllers -> TickRecords] /\ Ticks'
    <2>1. CASE w' = w  BY <1>1, <1>3, <2>1 DEF Ticks
    <2>2. ASSUME NEW m \in Requests, NEW o \in Observations, Answer(m, o), Truthful(m.op, o)'
          PROVE  w' \in [Controllers -> TickRecords] /\ Ticks'
      <3>1. ASSUME NEW p \in Controllers PROVE w'[p] \in TickRecords /\ Ticking(w[p])'
        <4>0. w[p] \in TickRecords /\ Ticking(w[p])  BY <1>1 DEF Ticks
        <4>1. CASE w[p].pc = "await" /\ w[p].op = m.op /\ w[p].rev = m.rev
          <5>1. w'[p] = [w[p] EXCEPT !.pc = "record", !.obs = o]  BY <2>2, <4>1 DEF Answer
          <5>2. w'[p] \in TickRecords /\ w'[p].pc = "record" /\ w'[p].op = m.op
                /\ w'[p].rev = w[p].rev /\ w'[p].obs = o
            BY <4>0, <4>1, <5>1 DEF TickRecords
          <5> QED BY <2>2, <4>0, <4>1, <5>2 DEF Ticking, storeVars
        <4>2. CASE ~(w[p].pc = "await" /\ w[p].op = m.op /\ w[p].rev = m.rev)
          <5>1. w'[p] = w[p]  BY <2>2, <4>2 DEF Answer
          <5> QED BY <1>3, <4>0, <5>1
        <4> QED BY <4>1, <4>2
      <3>2. w' = [p \in Controllers |-> w'[p]]  BY <2>2 DEF Answer
      <3> QED BY <3>1, <3>2 DEF Ticks
    <2> QED BY <2>1, <2>2
  <1>5. TypeOK'
    BY <1>4 DEF CommandInv, TypeOK, StoreTypeOK, storeVars, TickRecords
  <1> QED BY <1>2, <1>4, <1>5 DEF CommandInv

RecordValues == Known \union {"none", "fenced", "pending", "intent", "unknown"}

(* One record of the journal is written, and the guest is left alone.      *)
LEMMA HostMoves ==
    ASSUME CommandInv, UNCHANGED storeVars, UNCHANGED <<wire, outcome, calls>>,
           NEW c \in Commands, NEW x \in RecordValues, record' = [record EXCEPT ![c] = x],
           record[c] = "fenced" => x = "fenced", x \in {"none", "fenced"} => Untouched(c),
           x # "none" => exec[c].attempt = 1, x \in Known => outcome[c] = x,
           Handler', fence' \in [Commands -> 0..MaxClaims], net' \subseteq Requests,
           busy' \in Requests \union {NoCall}, host' \in {"serving", "dead", "newer"},
           stopped' \in BOOLEAN, asked' \subseteq Commands, Fault \/ UNCHANGED faults,
           \/ w' = w
           \/ \E m \in Requests, o \in Observations : Answer(m, o) /\ Truthful(m.op, o)'
    PROVE  CommandInv'
  <1>1. /\ record \in [Commands -> RecordValues] /\ outcome' \in [Commands -> Guest!Outcomes]
        /\ calls' \in [Commands -> Nat] /\ wire' \subseteq Commands /\ faults \in 0..MaxFaults
    BY DEF CommandInv, TypeOK, RecordValues
  <1>2. record' \in [Commands -> RecordValues] /\ record'[c] = x
        /\ \A d \in Commands \ {c} : record'[d] = record[d]
    BY <1>1
  <1>3. Learns  BY <1>2 DEF Learns
  <1>4. \A d \in Commands : Record(d)'
    <2>1. Record(c)'  BY <1>2 DEF CommandInv, Journalled, Record, Untouched, storeVars
    <2>2. \A d \in Commands \ {c} : Record(d)'
      BY <1>2 DEF CommandInv, Journalled, Record, Untouched, storeVars
    <2> QED BY <2>1, <2>2
  <1>5. Journalled'  BY <1>4 DEF Journalled
  <1>6. faults' \in 0..MaxFaults  BY <1>1, ControllersAssumption DEF Fault
  <1> QED BY <1>1, <1>2, <1>3, <1>5, <1>6, HostFrame DEF RecordValues

(* The journal stays as it is.                                             *)
LEMMA HostKeeps ==
    ASSUME CommandInv, UNCHANGED storeVars, UNCHANGED <<wire, outcome, calls>>,
           UNCHANGED record,
           Handler', fence' \in [Commands -> 0..MaxClaims], net' \subseteq Requests,
           busy' \in Requests \union {NoCall}, host' \in {"serving", "dead", "newer"},
           stopped' \in BOOLEAN, asked' \subseteq Commands, Fault \/ UNCHANGED faults,
           \/ w' = w
           \/ \E m \in Requests, o \in Observations : Answer(m, o) /\ Truthful(m.op, o)'
    PROVE  CommandInv'
  <1>1. /\ record' \in [Commands -> RecordValues] /\ outcome' \in [Commands -> Guest!Outcomes]
        /\ calls' \in [Commands -> Nat] /\ wire' \subseteq Commands /\ faults \in 0..MaxFaults
    BY DEF CommandInv, TypeOK, RecordValues
  <1>2. Learns  BY DEF Learns
  <1>3. Journalled'
    BY DEF CommandInv, Journalled, Record, Untouched, storeVars
  <1>4. faults' \in 0..MaxFaults  BY <1>1, ControllersAssumption DEF Fault
  <1> QED BY <1>1, <1>2, <1>3, <1>4, HostFrame DEF RecordValues

(* A request is refused, or taken up under the gate and the claim fence.   *)
LEMMA TakesUp ==
    ASSUME CommandInv, NEW m \in net,
           Refuse(m) \/ BeginExecute(m) \/ BeginExpired(m) \/ BeginFenced(m) \/ BeginObserve(m)
    PROVE  CommandInv'
  <1>1. /\ net \subseteq Requests /\ busy \in Requests \union {NoCall} /\ stopped \in BOOLEAN
        /\ host \in {"serving", "dead", "newer"} /\ fence \in [Commands -> 0..MaxClaims]
        /\ asked \subseteq Commands /\ Handler /\ record \in [Commands -> RecordValues]
        /\ \A c \in Commands : Record(c)
    BY DEF CommandInv, TypeOK, Journalled, RecordValues
  <1>2. m \in Requests /\ m.op \in Commands /\ m.rev \in 0..MaxClaims /\ exec[m.op].attempt = 1
    BY <1>1 DEF Requests, Handler
  <1>3. net' = net \ {m} /\ UNCHANGED storeVars /\ UNCHANGED <<host, stopped>>
        /\ UNCHANGED <<wire, outcome, calls, asked>> /\ (Fault \/ UNCHANGED faults)
    BY DEF Refuse, BeginExecute, BeginExpired, BeginFenced, BeginObserve, Admit, Quiet, guestVars,
       FaultIf
  <1>4. fence' = fence \/ fence' = [fence EXCEPT ![m.op] = m.rev]
    BY DEF Refuse, BeginExecute, BeginExpired, BeginFenced, BeginObserve, Admit
  <1>5. /\ fence' \in [Commands -> 0..MaxClaims] /\ net' \subseteq Requests
        /\ host' \in {"serving", "dead", "newer"} /\ stopped' \in BOOLEAN /\ asked' \subseteq Commands
    BY <1>1, <1>2, <1>3, <1>4
  <1>6. \A n \in net' : exec'[n.op].attempt = 1
    BY <1>1, <1>3 DEF Handler, storeVars
  <1>7. CASE Refuse(m) \/ BeginExpired(m)
    <2>1. UNCHANGED <<w, record, busy>>  BY <1>7 DEF Refuse, BeginExpired
    <2>2. Handler'  BY <1>1, <1>3, <1>6, <2>1 DEF Handler, Untouched
    <2>3. busy' \in Requests \union {NoCall}  BY <1>1, <2>1
    <2> QED BY <1>3, <1>5, <2>1, <2>2, <2>3, HostKeeps
  <1>8. CASE BeginExecute(m)
    <2>1. /\ w' = w /\ record[m.op] = "none" /\ record' = [record EXCEPT ![m.op] = "pending"]
          /\ busy' = [m EXCEPT !.step = "call"]
      BY <1>8 DEF BeginExecute
    <2>2. busy' \in Requests /\ busy'.op = m.op /\ busy'.step = "call"
      BY <1>2, <2>1 DEF Requests
    <2>3. record'[m.op] = "pending"  BY <1>1, <1>2, <2>1
    <2>4. Untouched(m.op)'  BY <1>1, <1>2, <1>3, <2>1 DEF Record, Untouched
    <2>5. Handler'  BY <1>6, <2>2, <2>3, <2>4 DEF Handler
    <2>6. "pending" \in RecordValues /\ "pending" \notin Known  BY DEF RecordValues, Known
    <2> QED BY <1>2, <1>3, <1>5, <2>1, <2>2, <2>5, <2>6, HostMoves
  <1>9. CASE BeginFenced(m)
    <2>1. /\ record[m.op] = "none" /\ record' = [record EXCEPT ![m.op] = "fenced"]
          /\ Answer(m, Fenced) /\ busy' = busy /\ busy = NoCall
      BY <1>9 DEF BeginFenced, Admit
    <2>2. Handler'  BY <1>6, <2>1 DEF Handler, NoCall
    <2>3. "fenced" \in RecordValues /\ "fenced" \notin Known  BY DEF RecordValues, Known
    <2>4. Untouched(m.op)  BY <1>1, <1>2, <2>1 DEF Record
    <2>5. Fenced \in Observations  BY DEF Fenced, Observations
    <2>6. Truthful(m.op, Fenced)'
      <3>1. record'[m.op] = "fenced"  BY <1>1, <1>2, <2>1
      <3> QED BY <3>1 DEF Truthful, Fenced, Known
    <2> QED BY <1>1, <1>2, <1>3, <1>5, <2>1, <2>2, <2>3, <2>4, <2>5, <2>6, HostMoves
  <1>10. CASE BeginObserve(m)
    <2>1. record[m.op] # "none" /\ busy' = [m EXCEPT !.step = "observe"] /\ UNCHANGED <<w, record>>
      BY <1>10 DEF BeginObserve
    <2>2. busy' \in Requests /\ busy'.op = m.op /\ busy'.step = "observe"
      BY <1>2, <2>1 DEF Requests
    <2>3. Handler'  BY <1>6, <2>1, <2>2 DEF Handler
    <2> QED BY <1>3, <1>5, <2>1, <2>2, <2>3, HostKeeps
  <1> QED BY <1>7, <1>8, <1>9, <1>10

(* The one call of the guest.                                              *)
LEMMA Calls ==
    ASSUME CommandInv, CallGuest
    PROVE  CommandInv'
  <1>1. /\ net \subseteq Requests /\ busy \in Requests \union {NoCall} /\ stopped \in BOOLEAN
        /\ host \in {"serving", "dead", "newer"} /\ fence \in [Commands -> 0..MaxClaims]
        /\ asked \subseteq Commands /\ Handler /\ record \in [Commands -> RecordValues]
        /\ wire \subseteq Commands /\ calls \in [Commands -> Nat] /\ faults \in 0..MaxFaults
        /\ outcome \in [Commands -> Guest!Outcomes] /\ \A c \in Commands : Record(c)
    BY DEF CommandInv, TypeOK, Journalled, RecordValues
  <1>2. busy.step = "call"  BY DEF CallGuest, At
  <1>3. busy \in Requests /\ busy.op \in Commands
    BY <1>1, <1>2 DEF NoCall, Requests
  <1>4. PICK c : c = busy.op  OBVIOUS
  <1>5. record[c] = "pending" /\ calls[c] = 0 /\ exec[c].attempt = 1 /\ c \in Commands
    BY <1>1, <1>2, <1>3, <1>4 DEF Handler, Untouched, Record
  <1>6. /\ wire' = wire \union {c} /\ calls' = [calls EXCEPT ![c] = @ + 1]
        /\ busy' = [busy EXCEPT !.step = "guest"] /\ UNCHANGED storeVars /\ faults' = faults
        /\ UNCHANGED <<net, host, stopped, fence>> /\ UNCHANGED <<w, record, outcome, asked>>
    BY <1>4 DEF CallGuest, Quiet, HostLocal, Step
  <1>7. calls' \in [Commands -> Nat] /\ calls'[c] = 1 /\ wire' \subseteq Commands
        /\ \A d \in Commands \ {c} : calls'[d] = calls[d]
    BY <1>1, <1>5, <1>6
  <1>8. busy' \in Requests /\ busy'.op = c /\ busy'.step = "guest"
    BY <1>3, <1>4, <1>6 DEF Requests
  <1>9. \A d \in Commands : Record(d)'
    <2>1. Record(c)'  BY <1>1, <1>5, <1>6, <1>7 DEF Record, Known, storeVars
    <2>2. ASSUME NEW d \in Commands, d # c PROVE Record(d)'
      <3>1. Record(d)  BY <1>1
      <3>2. calls'[d] = calls[d] /\ (d \in wire' <=> d \in wire)  BY <1>6, <1>7, <2>2
      <3> QED BY <1>6, <3>1, <3>2 DEF Record, Untouched, storeVars
    <2> QED BY <2>1, <2>2
  <1>10. Handler'
    <2>1. \A m \in net' : exec'[m.op].attempt = 1  BY <1>1, <1>6 DEF Handler, storeVars
    <2> QED BY <1>5, <1>6, <1>8, <2>1 DEF Handler
  <1>11. Journalled'  BY <1>9, <1>10 DEF Journalled
  <1>12. Learns  BY <1>6 DEF Learns
  <1> QED BY <1>1, <1>6, <1>7, <1>8, <1>11, <1>12, HostFrame DEF RecordValues

(* The host answers a controller with what its journal and the guest say.  *)
LEMMA Answers ==
    ASSUME CommandInv,
           GuestAnswers \/ GiveUp \/ ObserveSettled \/ ObserveGuest \/ ObserveNothing
    PROVE  CommandInv'
  <1>1. /\ net \subseteq Requests /\ busy \in Requests \union {NoCall} /\ stopped \in BOOLEAN
        /\ host \in {"serving", "dead", "newer"} /\ fence \in [Commands -> 0..MaxClaims]
        /\ asked \subseteq Commands /\ Handler /\ record \in [Commands -> RecordValues]
        /\ outcome \in [Commands -> Guest!Outcomes] /\ \A c \in Commands : Record(c)
    BY DEF CommandInv, TypeOK, Journalled, RecordValues
  <1>2. busy.step \in {"guest", "call", "observe"}
    BY DEF GuestAnswers, GiveUp, ObserveSettled, ObserveGuest, ObserveNothing, At
  <1>3. busy \in Requests /\ busy.op \in Commands
    BY <1>1, <1>2 DEF NoCall, Requests
  <1>4. PICK c : c = busy.op  OBVIOUS
  <1>5. c \in Commands /\ record[c] # "none" /\ exec[c].attempt = 1 /\ Record(c)
    BY <1>1, <1>2, <1>3, <1>4 DEF Handler, Record, NoCall
  <1>6. /\ busy' = NoCall /\ UNCHANGED <<net, host, stopped, fence>> /\ UNCHANGED storeVars
        /\ UNCHANGED <<wire, outcome, calls>> /\ (Fault \/ UNCHANGED faults)
    BY DEF GuestAnswers, GiveUp, ObserveSettled, ObserveGuest, ObserveNothing, Release, HostLocal,
       Quiet, FaultIf, guestVars
  <1>7. asked' = asked \/ asked' = asked \union {c}
    BY <1>4 DEF GuestAnswers, GiveUp, ObserveSettled, ObserveGuest, ObserveNothing, guestVars
  <1>8. Handler'
    <2>1. \A m \in net' : exec'[m.op].attempt = 1  BY <1>1, <1>6 DEF Handler, storeVars
    <2> QED BY <1>6, <2>1 DEF Handler, NoCall
  <1>9. /\ fence' \in [Commands -> 0..MaxClaims] /\ net' \subseteq Requests
        /\ busy' \in Requests \union {NoCall} /\ host' \in {"serving", "dead", "newer"}
        /\ stopped' \in BOOLEAN /\ asked' \subseteq Commands
    BY <1>1, <1>5, <1>6, <1>7
  <1>10. ASSUME NEW o \in Observations, Answer(busy, o), Truthful(c, o)'
         PROVE  \E m \in Requests, q \in Observations : Answer(m, q) /\ Truthful(m.op, q)'
    <2>1. PICK m \in Requests : m = busy  BY <1>3
    <2>2. m.op = c /\ Answer(m, o)  BY <1>4, <1>10, <2>1 DEF Answer
    <2>3. Truthful(m.op, o)'  BY <1>10, <2>2
    <2> QED BY <2>2, <2>3
  <1>12. CASE GuestAnswers
    <2>1. /\ record' = [record EXCEPT ![c] = "intent"] /\ outcome[c] # "none"
          /\ Answer(busy, Receipt("intent")) /\ record[c] = "pending"
      BY <1>1, <1>4, <1>12 DEF GuestAnswers, At, Handler
    <2>2. Receipt("intent") \in Observations  BY DEF Receipt, Observations
    <2>3. Truthful(c, Receipt("intent"))'  BY <1>6, <2>1 DEF Truthful, Receipt, Known
    <2>4. "intent" \in RecordValues /\ "intent" \notin Known  BY DEF RecordValues, Known
    <2>5. \E m \in Requests, q \in Observations : Answer(m, q) /\ Truthful(m.op, q)'
      BY <1>10, <2>1, <2>2, <2>3
    <2> QED BY <1>5, <1>6, <1>8, <1>9, <2>1, <2>4, <2>5, HostMoves
  <1>13. CASE GiveUp \/ ObserveNothing
    <2>1. record' = record /\ Answer(busy, Nothing)  BY <1>13 DEF GiveUp, ObserveNothing
    <2>2. Nothing \in Observations /\ Truthful(c, Nothing)'
      BY DEF Nothing, Observations, Truthful, Known
    <2>3. \E m \in Requests, q \in Observations : Answer(m, q) /\ Truthful(m.op, q)'
      BY <1>10, <2>1, <2>2
    <2> QED BY <1>6, <1>8, <1>9, <2>1, <2>3, HostKeeps
  <1>14. CASE ObserveSettled
    <2>1. PICK o : o = IF record[c] = "fenced" THEN Fenced ELSE Receipt(record[c])  OBVIOUS
    <2>2. record' = record /\ Answer(busy, o) /\ record[c] \in {"fenced"} \union Known
      BY <1>4, <1>14, <2>1 DEF ObserveSettled, Settled, guestVars
    <2>3. o \in Observations  BY <2>1, <2>2 DEF Fenced, Receipt, Observations
    <2>4. Truthful(c, o)'
      BY <1>5, <1>6, <2>1, <2>2 DEF Truthful, Fenced, Receipt, Record, Known
    <2>5. \E m \in Requests, q \in Observations : Answer(m, q) /\ Truthful(m.op, q)'
      BY <1>10, <2>2, <2>3, <2>4
    <2> QED BY <1>6, <1>8, <1>9, <2>2, <2>5, HostKeeps
  <1>15. CASE ObserveGuest
    <2>1. PICK x : x = outcome[c]  OBVIOUS
    <2>2. /\ record' = [record EXCEPT ![c] = x] /\ Answer(busy, Receipt(x)) /\ x # "none"
          /\ record[c] # "fenced"
      BY <1>4, <1>15, <2>1 DEF ObserveGuest, Settled
    <2>3. x \in Known \union {"intent", "unknown"}
      BY <1>1, <1>5, <2>1, <2>2 DEF Record, Guest!Outcomes, Guest!Known, Known
    <2>4. x \in RecordValues /\ x \notin {"none", "fenced"}  BY <2>3 DEF RecordValues, Known
    <2>5. Receipt(x) \in Observations  BY <2>3 DEF Receipt, Observations
    <2>6. Truthful(c, Receipt(x))'  BY <1>6, <2>1, <2>2 DEF Truthful, Receipt
    <2>7. \E m \in Requests, q \in Observations : Answer(m, q) /\ Truthful(m.op, q)'
      BY <1>10, <2>2, <2>5, <2>6
    <2> QED BY <1>5, <1>6, <1>8, <1>9, <2>1, <2>2, <2>4, <2>7, HostMoves
  <1> QED BY <1>12, <1>13, <1>14, <1>15

(* The allocation is stopped, or the supervisor dies or comes back.        *)
LEMMA HostFails ==
    ASSUME CommandInv, HostStops \/ HostDies \/ HostRestarts
    PROVE  CommandInv'
  <1>1. /\ net \subseteq Requests /\ busy \in Requests \union {NoCall} /\ stopped \in BOOLEAN
        /\ host \in {"serving", "dead", "newer"} /\ fence \in [Commands -> 0..MaxClaims]
        /\ asked \subseteq Commands /\ Handler
    BY DEF CommandInv, TypeOK, Journalled
  <1>2. /\ UNCHANGED <<w, net, record, fence>> /\ UNCHANGED <<wire, outcome, calls, asked>>
        /\ UNCHANGED storeVars /\ (busy' = busy \/ busy' = NoCall) /\ (Fault \/ UNCHANGED faults)
    BY DEF HostStops, HostDies, HostRestarts, Quiet, Release, guestVars
  <1>3. host' \in {"serving", "dead", "newer"} /\ stopped' \in BOOLEAN
    BY <1>1 DEF HostStops, HostDies, HostRestarts
  <1>4. Handler'  BY <1>1, <1>2 DEF Handler, NoCall, Untouched, storeVars
  <1>5. fence' \in [Commands -> 0..MaxClaims] /\ net' \subseteq Requests
        /\ busy' \in Requests \union {NoCall} /\ asked' \subseteq Commands
    BY <1>1, <1>2
  <1> QED BY <1>2, <1>3, <1>4, <1>5, HostKeeps

(* The guest: a call taken off the wire, and at most one outcome learned.  *)
LEMMA GuestSteps ==
    ASSUME CommandInv, GuestStep
    PROVE  CommandInv'
  <1>1. /\ net \subseteq Requests /\ busy \in Requests \union {NoCall} /\ stopped \in BOOLEAN
        /\ host \in {"serving", "dead", "newer"} /\ fence \in [Commands -> 0..MaxClaims]
        /\ asked \subseteq Commands /\ Handler /\ record \in [Commands -> RecordValues]
        /\ wire \subseteq Commands /\ calls \in [Commands -> Nat] /\ faults \in 0..MaxFaults
        /\ outcome \in [Commands -> Guest!Outcomes] /\ \A c \in Commands : Record(c)
    BY DEF CommandInv, TypeOK, Journalled, RecordValues
  <1>2. PICK c \in Commands : GuestStarts(c) \/ GuestRefuses(c) \/ GuestEnds(c) \/ GuestLoses(c)
    BY DEF GuestStep
  <1>3. UNCHANGED storeVars /\ UNCHANGED <<w, net, host, stopped, record, fence, busy>>
        /\ calls' = calls /\ asked' = asked /\ (Fault \/ UNCHANGED faults)
    BY <1>2 DEF GuestStarts, GuestRefuses, GuestEnds, GuestLoses, GuestLocal, Quiet, hostVars,
       FaultIf
  <1>4. wire' = wire \/ wire' = wire \ {c}
    BY <1>2 DEF GuestStarts, GuestRefuses, GuestEnds, GuestLoses
  <1>5. ~Untouched(c)
    BY <1>1, <1>2 DEF GuestStarts, GuestRefuses, GuestEnds, GuestLoses, Untouched
  <1>6. PICK x \in Guest!Outcomes :
           /\ outcome' = [outcome EXCEPT ![c] = x] /\ x # "retired"
           /\ (outcome[c] # "none" => x # "none") /\ (outcome[c] \in Known => x = outcome[c])
    <2>0. outcome = [outcome EXCEPT ![c] = outcome[c]] /\ outcome[c] \in Guest!Outcomes
          /\ outcome[c] # "retired"
      BY <1>1 DEF Record
    <2>1. CASE outcome' = outcome  BY <2>0, <2>1
    <2>2. CASE \E o \in Known \union {"intent", "unknown"} :
                  Outcome(c, o) /\ outcome[c] \in {"none", "intent", "unknown"}
      <3>1. PICK o \in Known \union {"intent", "unknown"} :
               Outcome(c, o) /\ outcome[c] \in {"none", "intent", "unknown"}
        BY <2>2
      <3> QED BY <3>1 DEF Outcome, Guest!Outcomes, Guest!Known, Known
    <2>3. CASE GuestStarts(c) \/ GuestRefuses(c)
      BY <2>1, <2>2, <2>3 DEF GuestStarts, GuestRefuses
    <2>4. CASE GuestEnds(c)
      <3>1. PICK o \in Known : Outcome(c, o) /\ outcome[c] = "intent"  BY <2>4 DEF GuestEnds
      <3> QED BY <2>2, <3>1
    <2>5. CASE GuestLoses(c)
      <3>1. PICK o \in Known \union {"unknown"} :
               Outcome(c, o) /\ outcome[c] \in {"none", "intent", "unknown"}
        BY <2>5 DEF GuestLoses, Known
      <3> QED BY <2>2, <3>1
    <2> QED BY <1>2, <2>3, <2>4, <2>5
  <1>7. /\ outcome' \in [Commands -> Guest!Outcomes] /\ outcome'[c] = x
        /\ \A d \in Commands \ {c} : outcome'[d] = outcome[d]
    BY <1>1, <1>6
  <1>8. Learns  BY <1>3, <1>6, <1>7 DEF Learns
  <1>9. \A d \in Commands : Record(d)'
    <2>1. Record(c)'
      BY <1>1, <1>3, <1>5, <1>6, <1>7 DEF Record, storeVars
    <2>2. ASSUME NEW d \in Commands, d # c PROVE Record(d)'
      <3>1. Record(d) /\ outcome'[d] = outcome[d] /\ (d \in wire' <=> d \in wire)
        BY <1>1, <1>4, <1>7, <2>2
      <3> QED BY <1>3, <3>1 DEF Record, Untouched, storeVars
    <2> QED BY <2>1, <2>2
  <1>10. Handler'
    <2>1. \A m \in net' : exec'[m.op].attempt = 1  BY <1>1, <1>3 DEF Handler, storeVars
    <2>2. ASSUME busy.step = "call" PROVE Untouched(busy.op)'
      <3>1. Untouched(busy.op) /\ busy.op \in Commands \ {c}
        BY <1>1, <1>5, <2>2 DEF Handler, NoCall, Requests
      <3> QED BY <1>3, <1>4, <1>7, <3>1 DEF Untouched
    <2> QED BY <1>1, <1>3, <2>1, <2>2 DEF Handler
  <1>11. Journalled'  BY <1>9, <1>10 DEF Journalled
  <1>12. faults' \in 0..MaxFaults  BY <1>1, <1>3, ControllersAssumption DEF Fault
  <1>13. wire' \subseteq Commands  BY <1>1, <1>4
  <1> QED BY <1>1, <1>3, <1>7, <1>8, <1>11, <1>12, <1>13, HostFrame DEF RecordValues

-----------------------------------------------------------------------------
(* The system.                                                             *)

(* The rest of the database works under every controller and host.         *)
LEMMA OutsideStep ==
    ASSUME CommandInv, Outside \/ \E o \in Commands \union Cancels : ClaimRunsOut(o)
    PROVE  CommandInv'
  <1>1. TypeOK /\ Rows /\ faults \in 0..MaxFaults  BY DEF CommandInv, TypeOK
  <1>2. w' = w /\ UNCHANGED <<hostVars, guestVars>> /\ (Fault \/ UNCHANGED faults)
    BY DEF Outside, ClaimRunsOut, FaultIf
  <1>3. UNCHANGED <<record, outcome>>  BY <1>2 DEF hostVars, guestVars
  <1>4. faults' \in 0..MaxFaults  BY <1>1, <1>2, ControllersAssumption DEF Fault
  <1>5. StoreTypeOK' /\ Progress /\ Rows'
    <2>1. ASSUME NEW c \in Commands, AdmitExecute(c) \/ ExecuteExpires(c)
          PROVE  StoreTypeOK' /\ Progress /\ Rows'
      BY <1>1, <1>3, <2>1, ClaimTx
    <2>2. ASSUME NEW k \in Cancels, NEW c, AdmitCancel(k, c) \/ CancelExpires(k)
          PROVE  StoreTypeOK' /\ Progress /\ Rows'
      BY <1>1, <1>3, <2>2, CancelTx
    <2>3. ASSUME TargetChanges \/ \E c \in Commands : AuthorityExpires(c)
          PROVE  StoreTypeOK' /\ Progress /\ Rows'
      <3>1. exec' = exec /\ cancel' = cancel  BY <2>3 DEF TargetChanges, AuthorityExpires
      <3>2. sandbox' \in {"running", "changed"} /\ authority' \subseteq Commands
        BY <1>1, <2>3 DEF TargetChanges, AuthorityExpires, TypeOK, StoreTypeOK
      <3>3. cancel' \in [Cancels -> CancelRows]  BY <1>1, <3>1 DEF TypeOK, StoreTypeOK
      <3>4. \A k \in Cancels : CancelOK(k)'  BY <1>1, <3>1 DEF Rows, CancelOK
      <3> QED BY <1>1, <1>3, <3>1, <3>2, <3>3, <3>4, CancelChanges
    <2> QED BY <2>1, <2>2, <2>3 DEF Outside, ClaimRunsOut
  <1>6. TypeOK'
    BY <1>1, <1>2, <1>4, <1>5 DEF TypeOK, hostVars, guestVars
  <1>7. Journalled'
    <2>1. \A c \in Commands : Record(c)'
      BY <1>2, <1>5 DEF CommandInv, Journalled, Record, Untouched, hostVars, guestVars, Progress
    <2>2. \A m \in net : m.op \in Commands  BY <1>1 DEF TypeOK, Requests
    <2>3. \A m \in net' : exec'[m.op].attempt = 1
      BY <1>2, <1>5, <2>2 DEF CommandInv, Journalled, Handler, Progress, hostVars
    <2> QED BY <1>2, <2>1, <2>3 DEF CommandInv, Journalled, Handler, Untouched, hostVars, guestVars
  <1>8. Ticks'
    <2> SUFFICES ASSUME NEW p \in Controllers PROVE Ticking(w[p])'  BY DEF Ticks
    <2>1. w'[p] = w[p] /\ Ticking(w[p])  BY <1>2 DEF CommandInv, Ticks
    <2> QED BY <1>3, <1>5, <2>1 DEF Ticking, Progress, Truthful
  <1> QED BY <1>5, <1>6, <1>7, <1>8 DEF CommandInv

(* The initial state.                                                      *)
LEMMA CommandInitially == Init => CommandInv
  <1> SUFFICES ASSUME Init PROVE CommandInv  OBVIOUS
  <1>1. /\ exec = [c \in Commands |-> [status |-> "absent", phase |-> "none", rev |-> 0,
                                       leased |-> FALSE, attempt |-> 0, evidence |-> "none"]]
        /\ cancel = [k \in Cancels |-> [status |-> "absent", target |-> NoCommand, rev |-> 0,
                                        leased |-> FALSE, result |-> "none"]]
        /\ sandbox = "running" /\ authority = Commands
    BY DEF Init, StoreInit
  <1>2. /\ w = [p \in Controllers |-> Idle] /\ net = {} /\ host = "serving" /\ stopped = FALSE
        /\ record = [c \in Commands |-> "none"] /\ fence = [c \in Commands |-> 0]
        /\ busy = NoCall /\ wire = {} /\ outcome = [c \in Commands |-> "none"] /\ asked = {}
        /\ calls = [c \in Commands |-> 0] /\ faults = 0
    BY DEF Init, Guest!Init
  <1>3. 0 \in 0..MaxClaims /\ 0 \in 0..(MaxClaims + 1) /\ 0 \in 0..MaxFaults
    BY CommandAssumption, ControllersAssumption
  <1>4. Idle \in TickRecords
    BY <1>3 DEF Idle, TickRecords, Observations, Nothing
  <1>5. StoreTypeOK
    BY <1>1, <1>3 DEF StoreTypeOK, ExecRows, CancelRows, Statuses, Phases
  <1>6. TypeOK
    BY <1>2, <1>3, <1>4, <1>5 DEF TypeOK, TickRecords, Guest!Outcomes
  <1>7. Rows
    BY <1>1, <1>3 DEF Rows, RowOK, CancelOK, Terminal, Ended, Unstarted, Unsent
  <1>8. Journalled
    BY <1>2 DEF Journalled, Record, Handler, Untouched, NoCall, Known
  <1>9. Ticks  BY <1>2 DEF Ticks, Ticking, Idle
  <1> QED BY <1>6, <1>7, <1>8, <1>9 DEF CommandInv

(* Every step keeps the invariant.                                         *)
LEMMA CommandStep == CommandInv /\ [Next]_vars => CommandInv'
  <1> SUFFICES ASSUME CommandInv, [Next]_vars PROVE CommandInv'  OBVIOUS
  <1>1. CASE UNCHANGED vars
    <2>1. UNCHANGED storeVars /\ UNCHANGED <<w, net, host, stopped, record, fence, busy>>
          /\ UNCHANGED <<wire, outcome, asked, calls>> /\ UNCHANGED faults
      BY <1>1 DEF vars, hostVars, guestVars
    <2>2. Handler'  BY <2>1 DEF CommandInv, Journalled, Handler, Untouched, storeVars
    <2>3. /\ fence' \in [Commands -> 0..MaxClaims] /\ net' \subseteq Requests
          /\ busy' \in Requests \union {NoCall} /\ host' \in {"serving", "dead", "newer"}
          /\ stopped' \in BOOLEAN /\ asked' \subseteq Commands
      BY <2>1 DEF CommandInv, TypeOK
    <2> QED BY <2>1, <2>2, <2>3, HostKeeps
  <1>2. CASE \E p \in Controllers : ControllerStep(p)  BY <1>2, ControllerSteps
  <1>3. CASE HostStep  BY <1>3, TakesUp, Calls, Answers, HostFails DEF HostStep
  <1>4. CASE GuestStep  BY <1>4, GuestSteps
  <1>5. CASE Outside \/ \E o \in Commands \union Cancels : ClaimRunsOut(o)
    BY <1>5, OutsideStep
  <1> QED BY <1>1, <1>2, <1>3, <1>4, <1>5 DEF Next

(* The invariant of the whole system: rows, journal and ticks agree.       *)
THEOREM CommandInvariant == Spec => []CommandInv
  BY CommandInitially, CommandStep, PTL DEF Spec

(* Every variable keeps its type: no claim revision, request, record or    *)
(* outcome leaves its set, whatever the interleaving.                      *)
THEOREM CommandTypeCorrect == Spec => []TypeOK
  <1>1. CommandInv => TypeOK  BY DEF CommandInv
  <1> QED BY <1>1, CommandInvariant, PTL

(* A command the database calls unstarted was never started by the guest,  *)
(* and never will be: rows fenced before dispatch have no record at the    *)
(* host, rows fenced at the host have a tombstone there.                   *)
THEOREM UnstartedNeverRuns == Spec => []NeverStartedIsTrue
  <1>1. CommandInv => NeverStartedIsTrue
    <2> SUFFICES ASSUME CommandInv, NEW c \in Commands, exec[c].phase \in Unstarted
                 PROVE  outcome[c] = "none"
      BY DEF NeverStartedIsTrue
    <2>1. RowOK(c, exec[c]) /\ Record(c) /\ exec[c] \in ExecRows
          /\ record \in [Commands -> RecordValues]
      BY DEF CommandInv, Rows, Journalled, TypeOK, StoreTypeOK, RecordValues
    <2>2. exec[c].phase \in Unsent => exec[c].attempt # 1  BY <2>1 DEF RowOK
    <2>3. record[c] \in {"none", "fenced"}  BY <2>1, <2>2 DEF RowOK, Record
    <2> QED BY <2>1, <2>3 DEF Record, Untouched
  <1> QED BY <1>1, CommandInvariant, PTL

(* Every answer of the database is what happened: results are the guest's, *)
(* completed cancellations have their target's final status, and the host  *)
(* never calls fenced what it showed a receipt of.                         *)
THEOREM AnswersStayTrue == Spec => []AnswersAreTrue
  <1>1. CommandInv => ResultIsReal
    BY DEF CommandInv, Rows, RowOK, ResultIsReal
  <1>2. CommandInv => CancelIsTrue
    BY DEF CommandInv, Rows, CancelOK, CancelIsTrue
  <1>3. CommandInv => NeverContradicts
    <2> SUFFICES ASSUME CommandInv, NEW p \in Controllers, w[p].pc = "record",
                        w[p].obs.notStarted, exec[w[p].op].evidence = "receipt"
                 PROVE  FALSE
      BY DEF NeverContradicts, BadEvidence
    <2>1. PICK c : c = w[p].op  OBVIOUS
    <2>2. c \in Commands /\ Truthful(c, w[p].obs)
      BY <2>1 DEF CommandInv, Ticks, Ticking
    <2>3. record[c] = "fenced" /\ Record(c) /\ RowOK(c, exec[c])
      BY <2>2 DEF Truthful, CommandInv, Journalled, Rows
    <2>4. outcome[c] = "none"  BY <2>3 DEF Record, Untouched
    <2> QED BY <2>1, <2>3, <2>4 DEF RowOK
  <1>4. CommandInv => AnswersAreTrue  BY <1>1, <1>2, <1>3 DEF AnswersAreTrue
  <1> QED BY <1>4, CommandInvariant, PTL

(* One host-to-guest dispatch at most, over all claims, retries and        *)
(* controllers.                                                            *)
THEOREM NeverCalledTwice == Spec => []CalledOnce
  <1>1. CommandInv => CalledOnce  BY DEF CommandInv, Journalled, Record, CalledOnce
  <1> QED BY <1>1, CommandInvariant, PTL

-----------------------------------------------------------------------------
(* Rows that are written.                                                  *)

(* The row of c is replaced by r; only an admission makes a row exist, and *)
(* no final row is written.                                                *)
Writes(c, r) ==
    /\ exec' = [exec EXCEPT ![c] = r]
    /\ exec[c].status \notin Terminal
    /\ exec[c].status = "absent" => r.status = "absent" \/ AdmitExecute(c)

(* Each step writes at most one execute row.                               *)
LEMMA OneRow ==
    ASSUME CommandInv, [Next]_vars
    PROVE  exec' = exec \/ \E c \in Commands : \E r : Writes(c, r)
  <1>1. exec \in [Commands -> ExecRows] /\ \A c \in Commands : RowOK(c, exec[c])
    BY DEF CommandInv, TypeOK, StoreTypeOK, Rows
  <1>2. ASSUME NEW c \in Commands, NEW rev,
               \/ ClaimExecute(c) \/ DeferExecute(c, rev) \/ PrepareCancelled(c, rev)
               \/ PrepareRejected(c, rev) \/ PrepareDispatch(c, rev)
               \/ \E o : RecordObservation(c, rev, o)
        PROVE  \E r : Writes(c, r)
    <2>1. exec[c].status \in Active
      BY <1>2 DEF ClaimExecute, Claimable, DeferExecute, PrepareCancelled, PrepareRejected,
         PrepareDispatch, RecordObservation, Dispatched, Undispatched, Holds, Active
    <2>2. \E r : exec' = [exec EXCEPT ![c] = r]
      <3>1. CASE ClaimExecute(c)  BY <1>1, <3>1 DEF ClaimExecute
      <3>2. CASE DeferExecute(c, rev)  BY <1>1, <3>2 DEF DeferExecute
      <3>3. CASE PrepareCancelled(c, rev)  BY <1>1, <3>3 DEF PrepareCancelled
      <3>4. CASE PrepareRejected(c, rev)  BY <1>1, <3>4 DEF PrepareRejected
      <3>5. CASE PrepareDispatch(c, rev)
        <4>1. exec' = [exec EXCEPT ![c] = [exec[c] EXCEPT !.attempt = 1,
                                                          !.phase = "execute_dispatched"]]
          BY <1>1, <3>5 DEF PrepareDispatch
        <4> QED BY <4>1
      <3>6. CASE \E o : RecordObservation(c, rev, o)  BY <3>6 DEF RecordObservation
      <3> QED BY <1>2, <3>1, <3>2, <3>3, <3>4, <3>5, <3>6
    <2> QED BY <2>1, <2>2 DEF Writes, Active, Terminal
  <1>3. ASSUME NEW c \in Commands, AdmitExecute(c) \/ ExecuteExpires(c)
        PROVE  \E r : Writes(c, r)
    <2>1. CASE AdmitExecute(c)
      <3>1. exec' = [exec EXCEPT ![c] = [exec[c] EXCEPT !.status = "queued", !.phase = "admitted"]]
        BY <1>1, <2>1 DEF AdmitExecute
      <3>2. exec[c].status = "absent"  BY <2>1 DEF AdmitExecute
      <3> QED BY <2>1, <3>1, <3>2 DEF Writes, Terminal
    <2>2. CASE ExecuteExpires(c)
      <3>1. PICK r : r = [exec[c] EXCEPT !.leased = FALSE]  OBVIOUS
      <3>2. exec' = [exec EXCEPT ![c] = r] /\ exec[c].leased
        BY <1>1, <2>2, <3>1 DEF ExecuteExpires
      <3>3. r.status = exec[c].status  BY <1>1, <3>1 DEF ExecRows
      <3>4. exec[c].status \notin Terminal  BY <1>1, <3>2 DEF RowOK
      <3> QED BY <3>2, <3>3, <3>4 DEF Writes
    <2> QED BY <1>3, <2>1, <2>2
  <1>4. ASSUME NEW k \in Cancels, NEW rev, ReconcileCancel(k, rev)
        PROVE  exec' = exec \/ \E c \in Commands : \E r : Writes(c, r)
    <2>1. PICK c \in Commands : c = cancel[k].target
      BY <1>4 DEF ReconcileCancel, Holds, CommandInv, Rows, CancelOK
    <2>2. CASE ~Fenceable(exec[c])  BY <1>4, <2>1, <2>2 DEF ReconcileCancel
    <2>3. CASE Fenceable(exec[c])
      <3>1. exec' = [exec EXCEPT ![c] = FencedRow(exec[c])]
        BY <1>1, <1>4, <2>1, <2>3 DEF ReconcileCancel
      <3> QED BY <2>3, <3>1 DEF Writes, Fenceable, Terminal
    <2> QED BY <2>2, <2>3
  <1>5. CASE \E p \in Controllers : ControllerStep(p)
    <2>1. PICK p \in Controllers : ControllerStep(p)  BY <1>5
    <2>2. Ticking(w[p])  BY DEF CommandInv, Ticks
    <2>3. PICK op, rev : op = w[p].op /\ rev = w[p].rev  OBVIOUS
    <2>4. ASSUME NEW c \in Commands, ExecuteTick(p, c) PROVE \E r : Writes(c, r)
      BY <1>2, <2>4 DEF ExecuteTick
    <2>5. CASE ReconcileTick(p)
      BY <1>4, <2>2, <2>3, <2>5 DEF ReconcileTick, Ticking, storeVars
    <2>6. CASE PrepareTick(p)
      <3>1. op \in Commands  BY <2>2, <2>3, <2>6 DEF PrepareTick, Ticking
      <3>2. \/ PrepareDispatch(op, rev) \/ PrepareCancelled(op, rev) \/ PrepareRejected(op, rev)
            \/ DeferExecute(op, rev) \/ UNCHANGED storeVars
        BY <2>3, <2>6 DEF PrepareTick, Prepared
      <3> QED BY <1>2, <3>1, <3>2 DEF storeVars
    <2>7. CASE RecordTick(p) \/ UnknownTick(p)
      <3>1. op \in Commands  BY <2>2, <2>3, <2>7 DEF RecordTick, UnknownTick, Ticking
      <3>2. (\E o : RecordObservation(op, rev, o)) \/ UNCHANGED storeVars
        BY <2>3, <2>7 DEF RecordTick, UnknownTick, RecordUnknown
      <3> QED BY <1>2, <3>1, <3>2 DEF storeVars
    <2>8. CASE AwaitFails(p) \/ Abandon(p)  BY <2>8 DEF AwaitFails, Abandon, storeVars
    <2>9. CASE \E k \in Cancels : CancelTick(p, k)  BY <2>9 DEF CancelTick, ClaimCancel
    <2> QED BY <2>1, <2>4, <2>5, <2>6, <2>7, <2>8, <2>9 DEF ControllerStep
  <1>6. CASE Outside \/ \E o \in Commands \union Cancels : ClaimRunsOut(o)
    <2>1. \/ \E c \in Commands : AdmitExecute(c) \/ ExecuteExpires(c)
          \/ exec' = exec
      BY <1>6 DEF Outside, ClaimRunsOut, AuthorityExpires, AdmitCancel, TargetChanges, CancelExpires
    <2> QED BY <1>3, <2>1
  <1>7. CASE HostStep
    BY <1>7 DEF HostStep, Refuse, BeginExecute, BeginExpired, BeginFenced, BeginObserve, Admit,
       CallGuest, GuestAnswers, GiveUp, ObserveSettled, ObserveGuest, ObserveNothing, HostStops,
       HostDies, HostRestarts, Quiet, storeVars
  <1>8. CASE GuestStep
    BY <1>8 DEF GuestStep, GuestStarts, GuestRefuses, GuestEnds, GuestLoses, GuestLocal, Quiet,
       storeVars
  <1>9. CASE UNCHANGED vars  BY <1>9 DEF vars, storeVars
  <1> QED BY <1>5, <1>6, <1>7, <1>8, <1>9 DEF Next

(* A terminal command keeps its whole row: status, phase, revision and     *)
(* evidence, under late answers, expiring claims and cancellations.        *)
THEOREM TerminalStaysFinal == Spec => TerminalIsFinal
  <1>1. CommandInv /\ [Next]_vars
          => [\A c \in Commands : exec[c].status \in Terminal => exec'[c] = exec[c]]_vars
    <2> SUFFICES ASSUME CommandInv, [Next]_vars, NEW c \in Commands, exec[c].status \in Terminal
                 PROVE  exec'[c] = exec[c]
      OBVIOUS
    <2>1. CASE exec' = exec  BY <2>1
    <2>2. ASSUME NEW d \in Commands, NEW r, Writes(d, r) PROVE exec'[c] = exec[c]
      <3>1. d # c /\ exec' = [exec EXCEPT ![d] = r]  BY <2>2 DEF Writes
      <3>2. exec \in [Commands -> ExecRows]  BY DEF CommandInv, TypeOK, StoreTypeOK
      <3> QED BY <3>1, <3>2
    <2> QED BY <2>1, <2>2, OneRow
  <1> QED BY <1>1, CommandInvariant, PTL DEF Spec, TerminalIsFinal

(* Admission keeps the admitted commands within the journal's slots.       *)
LEMMA RoomStep == CommandInv /\ Room /\ [Next]_vars => Room'
  <1> SUFFICES ASSUME CommandInv, Room, [Next]_vars PROVE Room'  OBVIOUS
  <1>1. IsFiniteSet(Admitted) /\ Cardinality(Admitted) \in Nat
    BY CommandAssumption, FS_Subset, FS_CardinalityType DEF Admitted
  <1>2. exec \in [Commands -> ExecRows]  BY DEF CommandInv, TypeOK, StoreTypeOK
  <1>3. CASE exec' = exec  BY <1>3 DEF Room, Admitted
  <1>4. ASSUME NEW c \in Commands, NEW r, Writes(c, r), ~AdmitExecute(c) PROVE Room'
    <2>1. exec' = [exec EXCEPT ![c] = r] /\ (exec[c].status = "absent" => r.status = "absent")
      BY <1>4 DEF Writes
    <2>2. Admitted' \subseteq Admitted  BY <1>2, <2>1 DEF Admitted
    <2>3. Cardinality(Admitted') <= Cardinality(Admitted) /\ Cardinality(Admitted') \in Nat
      BY <1>1, <2>2, FS_Subset, FS_CardinalityType
    <2> QED BY <1>1, <2>3, CommandAssumption DEF Room
  <1>5. ASSUME NEW c \in Commands, AdmitExecute(c) PROVE Room'
    <2>1. Admitted' = Admitted \union {c}
      BY <1>2, <1>5 DEF AdmitExecute, Admitted, ExecRows
    <2>2. Cardinality(Admitted) < MaxCommands  BY <1>5 DEF AdmitExecute
    <2>0. c \notin Admitted  BY <1>5 DEF AdmitExecute, Admitted
    <2>3. Cardinality(Admitted \union {c}) = Cardinality(Admitted) + 1
      BY <1>1, <2>0, FS_AddElement
    <2> QED BY <1>1, <2>1, <2>2, <2>3, CommandAssumption DEF Room
  <1> QED BY <1>3, <1>4, <1>5, OneRow

(* The host has a journal slot for every dispatched command: the database  *)
(* reserves one at admission, and only admitted commands have a record.    *)
THEOREM RoomForDispatched == Spec => []DispatchedHasRoom
  <1>1. Init => Room
    <2> SUFFICES ASSUME Init PROVE Room  OBVIOUS
    <2>1. Admitted = {}  BY DEF Init, StoreInit, Admitted
    <2> QED BY <2>1, FS_EmptySet, CommandAssumption DEF Room
  <1>2. CommandInv /\ Room => DispatchedHasRoom
    <2> SUFFICES ASSUME CommandInv, Room, NEW c \in Commands, exec[c].attempt = 1,
                        record[c] = "none"
                 PROVE  Cardinality({d \in Commands : record[d] # "none"}) < MaxCommands
      BY DEF DispatchedHasRoom, JournalRoom
    <2>1. \A d \in Commands : exec[d].attempt = 1 => d \in Admitted
      BY DEF CommandInv, Rows, RowOK, Admitted
    <2>2. PICK S : S = {d \in Commands : record[d] # "none"}  OBVIOUS
    <2>3. S \subseteq Admitted \ {c} /\ c \in Admitted
      BY <2>1, <2>2 DEF CommandInv, Journalled, Record
    <2>4. IsFiniteSet(Admitted) /\ Cardinality(Admitted) \in Nat
      BY CommandAssumption, FS_Subset, FS_CardinalityType DEF Admitted
    <2>5. IsFiniteSet(Admitted \ {c}) /\ Cardinality(Admitted \ {c}) = Cardinality(Admitted) - 1
      BY <2>3, <2>4, FS_RemoveElement
    <2>6. Cardinality(S) <= Cardinality(Admitted \ {c}) /\ Cardinality(S) \in Nat
      BY <2>3, <2>5, FS_Subset, FS_CardinalityType
    <2>7. Cardinality(S) < MaxCommands  BY <2>4, <2>5, <2>6, CommandAssumption DEF Room
    <2> QED BY <2>2, <2>7
  <1> QED BY <1>1, <1>2, RoomStep, CommandInvariant, PTL DEF Spec
=============================================================================
