------------------------------ MODULE Commands ------------------------------
(***************************************************************************)
(* Commands end to end: controllers that take the rows of CommandStore     *)
(* through their RPCs, the host that journals a record of each command     *)
(* before it calls the guest, and the guest, which makes the moves of      *)
(* CommandRuntime by definition: that the runner keeps to them is shown of *)
(* GuestRunner and assumed here.  An Execute can be delayed past the claim *)
(* that sent it at both hops, an Inspect or Cancel of a later claim can    *)
(* overtake it, and every answer can be lost.                              *)
(*                                                                         *)
(* The host checks a claim's wall-clock deadline when it takes a request   *)
(* and again before it calls the guest; either check may fail at any time  *)
(* here (Refuse, GiveUp).  A restarted host has a newer epoch and refuses  *)
(* every command request of the allocation.                                *)
(***************************************************************************)
EXTENDS CommandStore

CONSTANTS
    Controllers,    \* controller workers
    MaxFaults       \* bound on lost or late calls and answers, deaths and restarts

ASSUME ControllersAssumption == MaxFaults \in Nat

VARIABLES
    w,          \* each controller's tick
    net,        \* requests sent to the host and not yet taken up
    host,       \* "serving", "dead", or "newer": restarted with a new epoch
    stopped,    \* the host's record is stop-fenced; the machine will be gone
    record,     \* the host's command journal
    fence,      \* the newest claim revision the host has seen per command
    busy,       \* the request whose handler holds the gate, and its step
    wire,       \* Execute calls on their way to the guest
    outcome,    \* what the guest knows of each command
    asked,      \* the guest was asked to cancel
    calls,      \* Execute calls the host ever made to the guest
    faults

hostVars == <<net, host, stopped, record, fence, busy>>
guestVars == <<wire, outcome, asked, calls>>
vars == <<storeVars, w, hostVars, guestVars, faults>>

Guest == INSTANCE CommandRuntime

Idle == [pc |-> "idle", op |-> NoCommand, rev |-> 0, obs |-> Nothing]
Requests == [kind : {"execute", "inspect", "cancel"}, op : Commands, rev : 1..MaxClaims,
             step : {"new", "call", "guest", "observe"}]
NoCall == [kind |-> "none", op |-> NoCommand, rev |-> 0, step |-> "none"]

Init ==
    /\ StoreInit
    /\ w = [p \in Controllers |-> Idle]
    /\ net = {} /\ host = "serving" /\ stopped = FALSE
    /\ record = [c \in Commands |-> "none"] /\ fence = [c \in Commands |-> 0]
    /\ busy = NoCall
    /\ wire = {} /\ Guest!Init /\ asked = {} /\ calls = [c \in Commands |-> 0]
    /\ faults = 0

Fault == faults < MaxFaults /\ faults' = faults + 1
FaultIf(b) == IF b THEN Fault ELSE UNCHANGED faults

-----------------------------------------------------------------------------
(* A controller's tick.                                                    *)

Goto(p, pc) == w' = [w EXCEPT ![p].pc = pc]
Finish(p) == w' = [w EXCEPT ![p] = Idle]
Local == UNCHANGED <<hostVars, guestVars, faults>>

(* tick(): cancellations first, and without asking the host's health.      *)
CancelTick(p, k) ==
    /\ w[p].pc = "idle"
    /\ ClaimCancel(k)
    /\ w' = [w EXCEPT ![p] = [pc |-> "reconcile", op |-> k, rev |-> cancel'[k].rev,
                              obs |-> Nothing]]
    /\ Local

ReconcileTick(p) ==
    /\ w[p].pc = "reconcile" /\ Finish(p) /\ Local
    /\ \/ ReconcileCancel(w[p].op, w[p].rev)
       \/ ~Holds(cancel[w[p].op], w[p].rev) /\ UNCHANGED storeVars

ExecuteTick(p, c) ==
    /\ w[p].pc = "idle" /\ host # "dead"
    /\ ClaimExecute(c)
    /\ w' = [w EXCEPT ![p] = [pc |-> "prepare", op |-> c, rev |-> exec'[c].rev,
                              obs |-> Nothing]]
    /\ Local

(* execute_tick(): send what was prepared, unless the allocation belongs   *)
(* to an older epoch than the configured one.                              *)
Send(p, kind) ==
    IF host = "newer" THEN Goto(p, "unknown") /\ Local
    ELSE /\ net' = net \union {[kind |-> kind, op |-> w[p].op, rev |-> w[p].rev, step |-> "new"]}
         /\ Goto(p, "await")
         /\ UNCHANGED <<host, stopped, record, fence, busy, guestVars, faults>>

Prepared(p) ==
    LET c == w[p].op  rev == w[p].rev
    IN  \/ host # "newer" /\ PrepareDispatch(c, rev) /\ Send(p, "execute")
        \/ /\ Dispatched(c, rev) /\ UNCHANGED storeVars
           /\ Send(p, IF Cancelling(c) THEN "cancel" ELSE "inspect")

PrepareTick(p) ==
    LET c == w[p].op  rev == w[p].rev
    IN  /\ w[p].pc = "prepare"
        /\ \/ Prepared(p)
           \/ PrepareCancelled(c, rev) /\ Finish(p) /\ Local
           \/ host # "newer" /\ PrepareRejected(c, rev) /\ Finish(p) /\ Local
           \/ /\ Undispatched(c, rev) /\ ~Cancelling(c)         \* host unavailable
              /\ DeferExecute(c, rev) /\ Finish(p) /\ Local
           \/ ~Holds(exec[c], rev) /\ UNCHANGED storeVars /\ Finish(p) /\ Local

(* The answer is lost, an error, or too late for this tick.                *)
AwaitFails(p) ==
    /\ w[p].pc = "await" /\ Goto(p, "unknown")
    /\ FaultIf(\E m \in net \union {busy} : m.op = w[p].op /\ m.rev = w[p].rev)
    /\ UNCHANGED <<storeVars, hostVars, guestVars>>

RecordTick(p) ==
    LET c == w[p].op  rev == w[p].rev  o == w[p].obs
    IN  /\ w[p].pc = "record" /\ UNCHANGED <<hostVars, guestVars>>
        /\ \/ RecordObservation(c, rev, o) /\ Finish(p) /\ UNCHANGED faults
           \/ /\ Dispatched(c, rev) /\ Goto(p, "unknown")    \* contradictory, or stale
              /\ FaultIf(~BadEvidence(c, o)) /\ UNCHANGED storeVars
           \/ ~Holds(exec[c], rev) /\ Finish(p) /\ UNCHANGED <<storeVars, faults>>

UnknownTick(p) ==
    /\ w[p].pc = "unknown" /\ Finish(p) /\ Local
    /\ \/ RecordUnknown(w[p].op, w[p].rev)
       \/ ~Holds(exec[w[p].op], w[p].rev) /\ UNCHANGED storeVars

(* The controller dies, or a query fails.                                  *)
Abandon(p) ==
    /\ w[p].pc # "idle" /\ Finish(p) /\ Fault
    /\ UNCHANGED <<storeVars, hostVars, guestVars>>

-----------------------------------------------------------------------------
(* The host.                                                               *)

Quiet == UNCHANGED <<storeVars, faults>>

(* The answer to call m reaches the controller that still waits for it.    *)
Answer(m, o) ==
    w' = [p \in Controllers |->
            IF w[p].pc = "await" /\ w[p].op = m.op /\ w[p].rev = m.rev
            THEN [w[p] EXCEPT !.pc = "record", !.obs = o] ELSE w[p]]

Fenced == [receipt |-> "none", notStarted |-> TRUE]
Receipt(r) == [receipt |-> r, notStarted |-> FALSE]

(* CommandRecord::finished(): fenced, or a terminal receipt.               *)
Settled(r) == r \in {"fenced"} \union Known

JournalRoom(c) ==
    record[c] # "none" \/ Cardinality({d \in Commands : record[d] # "none"}) < MaxCommands

(* Calls refused before anything happens: a stale claim, a full journal,   *)
(* another epoch, or a claim that expired on the way.                      *)
Refuse(m) ==
    /\ net' = net \ {m}
    /\ FaultIf(host = "serving" /\ m.rev >= fence[m.op] /\ JournalRoom(m.op))
    /\ UNCHANGED <<storeVars, w, host, stopped, record, fence, busy, guestVars>>

(* command_gate() and command_fence(): the gate, then the claim fence.     *)
Admit(m) ==
    /\ host = "serving" /\ busy = NoCall /\ JournalRoom(m.op)
    /\ m.rev >= fence[m.op]
    /\ net' = net \ {m} /\ fence' = [fence EXCEPT ![m.op] = m.rev]
    /\ Quiet /\ UNCHANGED <<host, stopped, guestVars>>

Eligible(c) == ~stopped /\ \A d \in Commands : record[d] = "none" \/ Settled(record[d])

(* execute_command_sync(): journal the intent, then call the guest.        *)
BeginExecute(m) ==
    /\ m.kind = "execute" /\ record[m.op] = "none" /\ Admit(m) /\ Eligible(m.op)
    /\ record' = [record EXCEPT ![m.op] = "pending"]
    /\ busy' = [m EXCEPT !.step = "call"]
    /\ UNCHANGED w

(* The claim expired between its fence and the intent: only the fence is   *)
(* kept, and the caller gets an error.                                     *)
BeginExpired(m) ==
    /\ m.kind = "execute" /\ record[m.op] = "none" /\ Admit(m) /\ Eligible(m.op)
    /\ UNCHANGED <<w, record, busy>>

(* An ineligible Execute (stopped, late, no client, another command        *)
(* unsettled), or an Inspect or Cancel of a command the host never saw:    *)
(* a tombstone keeps a delayed Execute out.                                *)
BeginFenced(m) ==
    /\ record[m.op] = "none" /\ Admit(m)
    /\ record' = [record EXCEPT ![m.op] = "fenced"]
    /\ Answer(m, Fenced)
    /\ UNCHANGED busy

(* A command the host knows is only observed, also by a repeated Execute.  *)
BeginObserve(m) ==
    /\ record[m.op] # "none" /\ Admit(m)
    /\ busy' = [m EXCEPT !.step = "observe"]
    /\ UNCHANGED <<w, record>>

At(step) == host = "serving" /\ busy.step = step
Step(step) == busy' = [busy EXCEPT !.step = step]
Release == busy' = NoCall
HostLocal == UNCHANGED <<net, host, stopped, fence>>

CallGuest ==
    LET c == busy.op
    IN  /\ At("call")
        /\ wire' = wire \union {c} /\ calls' = [calls EXCEPT ![c] = @ + 1]
        /\ Step("guest")
        /\ Quiet /\ HostLocal /\ UNCHANGED <<w, record, outcome, asked>>

(* The guest accepted the command and answered in time.                    *)
GuestAnswers ==
    LET c == busy.op
    IN  /\ At("guest") /\ c \notin wire /\ outcome[c] # "none"
        /\ record' = [record EXCEPT ![c] = "intent"]
        /\ Answer(busy, Receipt("intent")) /\ Release
        /\ Quiet /\ HostLocal /\ UNCHANGED guestVars

(* Mutant: a call that timed out is made again.                            *)
GiveUpRetries ==
    /\ At("guest") \/ At("call")
    /\ FaultIf(At("call") \/ busy.op \in wire \/ outcome[busy.op] # "none")
    /\ Step("call")
    /\ HostLocal /\ UNCHANGED <<storeVars, w, record, guestVars>>

(* No answer within three seconds, or the claim expired before the call:   *)
(* the intent stays, and nothing is concluded.                             *)
GiveUp ==
    /\ At("guest") \/ At("call")
    /\ FaultIf(At("call") \/ busy.op \in wire \/ outcome[busy.op] # "none")
    /\ Answer(busy, Nothing) /\ Release
    /\ HostLocal /\ UNCHANGED <<storeVars, record, guestVars>>

(* observe_command(): a settled record answers for itself.                 *)
ObserveSettled ==
    LET c == busy.op
    IN  /\ At("observe") /\ Settled(record[c])
        /\ Answer(busy, IF record[c] = "fenced" THEN Fenced ELSE Receipt(record[c]))
        /\ Release
        /\ Quiet /\ HostLocal /\ UNCHANGED <<record, guestVars>>

(* Otherwise the guest is asked to inspect, or to cancel.                  *)
ObserveGuest ==
    LET c == busy.op
    IN  /\ At("observe") /\ ~Settled(record[c]) /\ ~stopped
        /\ outcome[c] # "none"
        /\ record' = [record EXCEPT ![c] = outcome[c]]
        /\ asked' = IF busy.kind = "cancel" THEN asked \union {c} ELSE asked
        /\ Answer(busy, Receipt(outcome[c])) /\ Release
        /\ Quiet /\ HostLocal /\ UNCHANGED <<wire, outcome, calls>>

(* The guest cannot be reached or does not know the command: an older      *)
(* receipt is not current, so the answer carries none.  A cancellation may *)
(* have arrived although its answer did not.                               *)
ObserveNothing ==
    LET c == busy.op
    IN  /\ At("observe") /\ ~Settled(record[c])
        /\ FaultIf(~stopped /\ outcome[c] # "none")
        /\ \/ UNCHANGED asked
           \/ busy.kind = "cancel" /\ ~stopped /\ outcome[c] # "none" /\ asked' = asked \union {c}
        /\ Answer(busy, Nothing) /\ Release
        /\ HostLocal /\ UNCHANGED <<storeVars, record, wire, outcome, calls>>

(* The allocation is stop-fenced: by a destroy or an expired lease.        *)
HostStops ==
    /\ host = "serving" /\ busy = NoCall /\ ~stopped /\ stopped' = TRUE
    /\ Quiet /\ UNCHANGED <<w, net, host, record, fence, busy, guestVars>>

(* The supervisor dies, or a journal write fails and poisons it.           *)
HostDies ==
    /\ host = "serving" /\ Fault /\ host' = "dead" /\ Release
    /\ UNCHANGED <<storeVars, w, net, stopped, record, fence, guestVars>>

HostRestarts ==
    /\ host = "dead" /\ host' = "newer" /\ stopped' = TRUE
    /\ UNCHANGED <<storeVars, w, net, record, fence, busy, guestVars, faults>>

-----------------------------------------------------------------------------
(* The guest.                                                              *)

GuestLocal == Quiet /\ UNCHANGED <<w, hostVars, calls>>

Outcome(c, o) == outcome' = [outcome EXCEPT ![c] = o]

GuestStarts(c) ==
    /\ c \in wire /\ outcome[c] = "none" /\ \A d \in Commands : outcome[d] # "intent"
    /\ Outcome(c, "intent") /\ wire' = wire \ {c}
    /\ GuestLocal /\ UNCHANGED asked

(* The call is lost on the way, or refused; or its intent reaches the disk *)
(* but not the agent, whose successor finds it.                            *)
GuestRefuses(c) ==
    /\ c \in wire /\ wire' = wire \ {c}
    /\ \/ FaultIf(~stopped) /\ UNCHANGED outcome
       \/ Fault /\ outcome[c] = "none" /\ Outcome(c, "unknown")
    /\ UNCHANGED <<storeVars, w, hostVars, calls, asked>>

GuestEnds(c) ==
    /\ outcome[c] = "intent"
    /\ \E o \in Known : (o = "cancelled" => c \in asked) /\ Outcome(c, o)
    /\ GuestLocal /\ UNCHANGED <<wire, asked>>

(* The agent loses the outcome, shuts down, or finds a receipt whose       *)
(* commit was uncertain, of a refused start as well as of an ended one.    *)
GuestLoses(c) ==
    /\ Fault
    /\ \/ outcome[c] = "none" /\ calls[c] > 0 /\ Outcome(c, "unknown")
       \/ outcome[c] = "intent" /\ \E o \in {"unknown", "cancelled"} : Outcome(c, o)
       \/ outcome[c] = "unknown" /\ \E o \in Known : Outcome(c, o)
    /\ UNCHANGED <<storeVars, w, hostVars, wire, asked, calls>>

-----------------------------------------------------------------------------
ControllerStep(p) ==
    \/ \E k \in Cancels : CancelTick(p, k)
    \/ \E c \in Commands : ExecuteTick(p, c)
    \/ ReconcileTick(p) \/ PrepareTick(p) \/ AwaitFails(p) \/ RecordTick(p) \/ UnknownTick(p)
    \/ Abandon(p)

HostStep ==
    \/ \E m \in net : Refuse(m) \/ BeginExecute(m) \/ BeginExpired(m)
                        \/ BeginFenced(m) \/ BeginObserve(m)
    \/ CallGuest \/ GuestAnswers \/ GiveUp \/ ObserveSettled \/ ObserveGuest \/ ObserveNothing
    \/ HostStops \/ HostDies \/ HostRestarts

GuestStep ==
    \E c \in Commands : GuestStarts(c) \/ GuestRefuses(c) \/ GuestEnds(c) \/ GuestLoses(c)

Outside ==
    /\ \/ \E c \in Commands : AdmitExecute(c) \/ AuthorityExpires(c)
       \/ \E k \in Cancels, c \in Commands : AdmitCancel(k, c)
       \/ TargetChanges
    /\ UNCHANGED <<w, hostVars, guestVars, faults>>

(* A lease runs out, under its holder or after it is gone.                 *)
ClaimRunsOut(o) ==
    /\ \/ o \in Commands /\ ExecuteExpires(o)
       \/ o \in Cancels /\ CancelExpires(o)
    /\ FaultIf(\E p \in Controllers : w[p].op = o)
    /\ UNCHANGED <<w, hostVars, guestVars>>

Next == (\E p \in Controllers : ControllerStep(p)) \/ HostStep \/ GuestStep \/ Outside
            \/ \E o \in Commands \union Cancels : ClaimRunsOut(o)

Spec == Init /\ [][Next]_vars

-----------------------------------------------------------------------------
(* Properties.                                                             *)

(* Every variable has its type.                                            *)
TypeOK ==
    /\ StoreTypeOK
    /\ w \in [Controllers ->
                [pc : {"idle", "reconcile", "prepare", "await", "record", "unknown"},
                 op : Commands \union Cancels \union {NoCommand}, rev : 0..MaxClaims,
                 obs : Observations]]
    /\ host \in {"serving", "dead", "newer"} /\ stopped \in BOOLEAN
    /\ record \in [Commands -> Known \union {"none", "fenced", "pending", "intent", "unknown"}]
    /\ fence \in [Commands -> 0..MaxClaims]
    /\ net \subseteq Requests /\ busy \in Requests \union {NoCall}
    /\ wire \subseteq Commands /\ asked \subseteq Commands /\ calls \in [Commands -> Nat]
    /\ outcome \in [Commands -> Guest!Outcomes] /\ faults \in 0..MaxFaults

(* A command that the database says never started (cancelled or rejected   *)
(* before dispatch, fenced before start) is never started by the guest,    *)
(* however late its Execute arrives.                                       *)
NeverStartedIsTrue ==
    \A c \in Commands : exec[c].phase \in Unstarted => outcome[c] = "none"

(* A recorded result is the one the guest's receipt has.                   *)
ResultIsReal ==
    \A c \in Commands :
        /\ exec[c].status = "succeeded" => outcome[c] = "exited0"
        /\ exec[c].status = "failed" /\ exec[c].phase = "exited" => outcome[c] = "exited1"
        /\ exec[c].phase \in {"timed_out", "cancelled"} => outcome[c] = exec[c].phase

(* "One host-to-guest dispatch at most": over all claims, retries and      *)
(* controllers.                                                            *)
CalledOnce == \A c \in Commands : calls[c] <= 1

(* A completed cancellation reports how its target really ended, and keeps *)
(* doing so.                                                               *)
CancelIsTrue ==
    \A k \in Cancels : cancel[k].status = "succeeded" =>
        cancel[k].result \in Terminal /\ exec[cancel[k].target].status = cancel[k].result

(* The host has a journal slot for every command that was dispatched: the  *)
(* reservations of the database bound the records of the host.             *)
DispatchedHasRoom == \A c \in Commands : exec[c].attempt = 1 => JournalRoom(c)

(* The host never says that a command was fenced after it showed a receipt *)
(* of it: finish_execute_observation() finds no bad evidence.              *)
NeverContradicts ==
    \A p \in Controllers : w[p].pc = "record" => ~BadEvidence(w[p].op, w[p].obs)

(* Every answer the database gives is what happened in the guest: results, *)
(* completed cancellations, and the host's word on what never started.     *)
AnswersAreTrue == ResultIsReal /\ CancelIsTrue /\ NeverContradicts

(* A terminal command keeps its status and phase, and its row is not       *)
(* claimed again.                                                          *)
TerminalIsFinal ==
    [][\A c \in Commands : exec[c].status \in Terminal => exec'[c] = exec[c]]_vars
=============================================================================
