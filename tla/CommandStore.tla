---------------------------- MODULE CommandStore ----------------------------
(***************************************************************************)
(* The database side of commands on one allocation: the operation rows of  *)
(* kind execute and cancel, and the transactions of execute.rs, cancel.rs  *)
(* and claims.rs on them.  A controller holds an operation by a claim (a   *)
(* revision and a lease that can run out under it).  A command gets one    *)
(* dispatch intent; from then on it is only inspected or cancelled.        *)
(*                                                                         *)
(* Each transaction locks the operation row first, so it is one action.    *)
(***************************************************************************)
EXTENDS Integers, FiniteSets

CONSTANTS
    Commands,       \* operations of kind execute
    Cancels,        \* operations of kind cancel
    NoCommand,      \* the target of a cancel that was not admitted
    MaxCommands,    \* retained commands per allocation (32 in the code)
    MaxClaims       \* bound on claim revisions

ASSUME CommandAssumption ==
    /\ NoCommand \notin Commands /\ IsFiniteSet(Commands)
    /\ MaxCommands \in Nat /\ MaxClaims \in Nat

VARIABLES
    exec,           \* execute operations
    cancel,         \* cancel operations
    sandbox,        \* "running", or "changed" by a destroy or another owner
    authority       \* commands whose caller and deadline still allow dispatch

storeVars == <<exec, cancel, sandbox, authority>>

Active == {"queued", "running", "unknown"}
Terminal == {"succeeded", "failed", "cancelled"}
Statuses == {"absent"} \union Active \union Terminal

Known == {"exited0", "exited1", "timed_out", "cancelled"}
Unstarted == {"cancelled_before_dispatch", "rejected_before_dispatch",
              "cancelled_before_start", "not_started"}
Phases == {"none", "admitted", "execute_dispatched", "executing", "reconciling",
           "exited", "timed_out", "cancelled"} \union Unstarted

ExecRows == [status : Statuses, phase : Phases, rev : 0..(MaxClaims + 1), leased : BOOLEAN,
             attempt : {0, 1}, evidence : {"none", "receipt", "not_started"}]
CancelRows == [status : {"absent", "queued", "running", "succeeded"},
               target : Commands \union {NoCommand}, rev : 0..MaxClaims, leased : BOOLEAN,
               result : {"none"} \union Terminal]

(* What a command observation says: a current receipt, or that the command *)
(* is fenced and was never started, or nothing.                            *)
Observations == [receipt : Known \union {"none", "intent", "unknown"}, notStarted : BOOLEAN]
Nothing == [receipt |-> "none", notStarted |-> FALSE]

StoreInit ==
    /\ exec = [c \in Commands |-> [status |-> "absent", phase |-> "none", rev |-> 0,
                                   leased |-> FALSE, attempt |-> 0, evidence |-> "none"]]
    /\ cancel = [k \in Cancels |-> [status |-> "absent", target |-> NoCommand, rev |-> 0,
                                    leased |-> FALSE, result |-> "none"]]
    /\ sandbox = "running" /\ authority = Commands

-----------------------------------------------------------------------------
(* Admission.                                                              *)

(* Mutant: finished commands give their journal slot back.                 *)
AdmittedActive == {c \in Commands : exec[c].status \in Active}

(* Commands that hold a journal slot: all that were admitted, until their  *)
(* history is retired (which this module leaves out).                      *)
Admitted == {c \in Commands : exec[c].status # "absent"}

AdmitExecute(c) ==
    /\ exec[c].status = "absent" /\ c \in authority /\ sandbox = "running"
    /\ \A d \in Commands : exec[d].status \notin Active
    /\ Cardinality(Admitted) < MaxCommands
    /\ exec' = [exec EXCEPT ![c].status = "queued", ![c].phase = "admitted"]
    /\ UNCHANGED <<cancel, sandbox, authority>>

(* A cancel operation in phase cancel_requested.                           *)
Cancelling(c) == \E k \in Cancels : cancel[k].target = c /\ cancel[k].status \in Active

AdmitCancel(k, c) ==
    LET done == exec[c].status \in Terminal
    IN  /\ cancel[k].status = "absent" /\ c \in Admitted /\ ~Cancelling(c)
        /\ cancel' = [cancel EXCEPT ![k].target = c,
                        ![k].status = IF done THEN "succeeded" ELSE "queued",
                        ![k].result = IF done THEN exec[c].status ELSE "none"]
        /\ UNCHANGED <<exec, sandbox, authority>>

-----------------------------------------------------------------------------
(* Claims.                                                                 *)

Claimed(row) ==
    [row EXCEPT !.status = IF @ = "queued" THEN "running" ELSE @,
                !.rev = @ + 1, !.leased = TRUE]
Claimable(row) == row.status \in Active /\ ~row.leased /\ row.rev < MaxClaims

ClaimExecute(c) ==
    /\ Claimable(exec[c])
    /\ exec' = [exec EXCEPT ![c] = Claimed(@)]
    /\ UNCHANGED <<cancel, sandbox, authority>>

ClaimCancel(k) ==
    /\ Claimable(cancel[k])
    /\ cancel' = [cancel EXCEPT ![k] = Claimed(@)]
    /\ UNCHANGED <<exec, sandbox, authority>>

Holds(row, rev) == row.rev = rev /\ row.leased /\ row.status \in {"running", "unknown"}

DeferExecute(c, rev) ==
    /\ Holds(exec[c], rev)
    /\ exec' = [exec EXCEPT ![c].leased = FALSE]
    /\ UNCHANGED <<cancel, sandbox, authority>>

(* Leases run out on the database clock.                                   *)
ExecuteExpires(c) ==
    /\ exec[c].leased /\ exec' = [exec EXCEPT ![c].leased = FALSE]
    /\ UNCHANGED <<cancel, sandbox, authority>>

CancelExpires(k) ==
    /\ cancel[k].leased /\ cancel' = [cancel EXCEPT ![k].leased = FALSE]
    /\ UNCHANGED <<exec, sandbox, authority>>

-----------------------------------------------------------------------------
(* prepare_execute().                                                      *)

Finished(row, status, phase) ==
    [row EXCEPT !.status = status, !.phase = phase, !.leased = FALSE]

Dispatched(c, rev) == Holds(exec[c], rev) /\ exec[c].attempt = 1
Undispatched(c, rev) == Holds(exec[c], rev) /\ exec[c].attempt = 0

(* No dispatch intent yet, and a cancellation is waiting.                  *)
PrepareCancelled(c, rev) ==
    /\ Undispatched(c, rev) /\ Cancelling(c)
    /\ exec' = [exec EXCEPT ![c] = Finished(@, "cancelled", "cancelled_before_dispatch")]
    /\ UNCHANGED <<cancel, sandbox, authority>>

Dispatchable(c) ==
    c \in authority /\ sandbox = "running" /\ Cardinality(Admitted) <= MaxCommands

PrepareRejected(c, rev) ==
    /\ Undispatched(c, rev) /\ ~Cancelling(c) /\ ~Dispatchable(c)
    /\ exec' = [exec EXCEPT ![c] = Finished(@, "failed", "rejected_before_dispatch")]
    /\ UNCHANGED <<cancel, sandbox, authority>>

(* The one dispatch intent.                                                *)
PrepareDispatch(c, rev) ==
    /\ Undispatched(c, rev) /\ ~Cancelling(c) /\ Dispatchable(c)
    /\ exec' = [exec EXCEPT ![c].attempt = 1, ![c].phase = "execute_dispatched"]
    /\ UNCHANGED <<cancel, sandbox, authority>>

-----------------------------------------------------------------------------
(* finish_execute_observation().                                           *)

(* A claim that the command never started contradicts an earlier receipt.  *)
BadEvidence(c, o) == o.notStarted /\ exec[c].evidence = "receipt"

Verdict(c, o) ==
    CASE o.receipt = "exited0" -> <<"succeeded", "exited">>
      [] o.receipt = "exited1" -> <<"failed", "exited">>
      [] o.receipt = "timed_out" -> <<"failed", "timed_out">>
      [] o.receipt = "cancelled" -> <<"cancelled", "cancelled">>
      [] o.receipt = "intent" -> <<"running", "executing">>
      [] o.notStarted /\ Cancelling(c) -> <<"cancelled", "cancelled_before_start">>
      [] o.notStarted /\ ~Cancelling(c) -> <<"failed", "not_started">>
      [] OTHER -> <<"unknown", "reconciling">>

Observed(c, o) ==
    LET v == Verdict(c, o)
    IN  [exec[c] EXCEPT !.status = v[1], !.phase = v[2], !.leased = FALSE,
                        !.evidence = IF o.receipt # "none" THEN "receipt"
                                     ELSE IF o.notStarted THEN "not_started" ELSE @]

RecordObservation(c, rev, o) ==
    /\ Dispatched(c, rev) /\ ~BadEvidence(c, o)
    /\ exec' = [exec EXCEPT ![c] = Observed(c, o)]
    /\ UNCHANGED <<cancel, sandbox, authority>>

RecordUnknown(c, rev) == RecordObservation(c, rev, Nothing)

-----------------------------------------------------------------------------
(* reconcile_cancel(): fence an undispatched target, whoever claims it,    *)
(* and complete with the target.                                           *)

(* Mutant: the target's status is not looked at.                           *)
FenceableFinal(row) == row.attempt = 0

(* Mutant: the dispatch intent is not looked at.                           *)
FenceableDispatched(row) == row.status \in {"queued", "running"}

Fenceable(row) == row.status \in {"queued", "running"} /\ row.attempt = 0

FencedRow(row) ==
    [Finished(row, "cancelled", "cancelled_before_dispatch") EXCEPT !.rev = @ + 1]

(* Mutant: the cancellation completes without fencing its target.          *)
ReconcileUnfenced(k, rev) ==
    LET c == cancel[k].target
        status == IF Fenceable(exec[c]) THEN "cancelled" ELSE exec[c].status
    IN  /\ Holds(cancel[k], rev)
        /\ cancel' = [cancel EXCEPT ![k].leased = FALSE,
                        ![k].status = IF status \in Terminal THEN "succeeded" ELSE @,
                        ![k].result = IF status \in Terminal THEN status ELSE "none"]
        /\ UNCHANGED <<exec, sandbox, authority>>

ReconcileCancel(k, rev) ==
    LET c == cancel[k].target
        status == IF Fenceable(exec[c]) THEN "cancelled" ELSE exec[c].status
    IN  /\ Holds(cancel[k], rev)
        /\ exec' = IF Fenceable(exec[c]) THEN [exec EXCEPT ![c] = FencedRow(@)] ELSE exec
        /\ cancel' = [cancel EXCEPT ![k].leased = FALSE,
                        ![k].status = IF status \in Terminal THEN "succeeded" ELSE @,
                        ![k].result = IF status \in Terminal THEN status ELSE "none"]
        /\ UNCHANGED <<sandbox, authority>>

-----------------------------------------------------------------------------
(* The rest of the database: the sandbox is destroyed or moves on, a       *)
(* deadline passes or a token is revoked.                                  *)

TargetChanges ==
    /\ sandbox = "running" /\ sandbox' = "changed"
    /\ UNCHANGED <<exec, cancel, authority>>

AuthorityExpires(c) ==
    /\ c \in authority /\ authority' = authority \ {c}
    /\ UNCHANGED <<exec, cancel, sandbox>>

-----------------------------------------------------------------------------
StoreTypeOK ==
    /\ exec \in [Commands -> ExecRows] /\ cancel \in [Cancels -> CancelRows]
    /\ sandbox \in {"running", "changed"} /\ authority \subseteq Commands
=============================================================================
