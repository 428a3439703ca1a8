--------------------------- MODULE CommandRuntime ---------------------------
(***************************************************************************)
(* What the agent inside a virtual machine promises about each command, as *)
(* the host sees it through Execute, Inspect and Cancel: a command is      *)
(* started at most once, a known outcome never changes, an outcome that    *)
(* was lost stays unknown until the retained receipt turns out to know it, *)
(* and only resolved history is retired.                                   *)
(***************************************************************************)
CONSTANT Commands

VARIABLE outcome

Known == {"exited0", "exited1", "timed_out", "cancelled"}
Outcomes == Known \union {"none", "intent", "unknown", "retired"}

(* How the outcome of one command may change.                              *)
Moves ==
    ({"none"} \X {"intent", "unknown", "retired"})
        \union ({"intent"} \X (Known \union {"unknown"}))
        \union ({"unknown"} \X Known)
        \union (Known \X {"retired"})

(* At most one command runs at a time.                                     *)
Solo(s) == \A c, d \in Commands : s[c] = "intent" /\ s[d] = "intent" => c = d

Init == outcome = [c \in Commands |-> "none"]

Next ==
    /\ outcome' \in [Commands -> Outcomes]
    /\ \A c \in Commands :
          outcome'[c] = outcome[c] \/ <<outcome[c], outcome'[c]>> \in Moves
    /\ Solo(outcome')

Spec == Init /\ [][Next]_outcome
=============================================================================
