------------------------------ MODULE NotifyOnce ------------------------------
(***************************************************************************)
(* What the alert feature promises about notifications, without tables,    *)
(* requests or goroutines.  Each arming of an alert (each time it becomes  *)
(* ACTIVE) is notified at most once, only after it was triggered, and once *)
(* it is closed nothing is sent for it.  Whether a triggered arming is     *)
(* notified at all is left open here: a process may stop.                  *)
(***************************************************************************)
CONSTANT AllArmings

VARIABLE stage  \* arming -> none, armed, owed, attempted or closed

Init == stage = [e \in AllArmings |-> "none"]

Arm(e) == stage[e] = "none" /\ stage' = [stage EXCEPT ![e] = "armed"]

Trigger(e) == stage[e] = "armed" /\ stage' = [stage EXCEPT ![e] = "owed"]

Attempt(e) == stage[e] = "owed" /\ stage' = [stage EXCEPT ![e] = "attempted"]

\* Alerts deleted or disabled, claims abandoned: several at once.
Close(es) ==
    /\ \A e \in es : stage[e] \in {"armed", "owed"}
    /\ stage' = [e \in AllArmings |-> IF e \in es THEN "closed" ELSE stage[e]]

Next ==
    \/ \E e \in AllArmings : Arm(e) \/ Trigger(e) \/ Attempt(e)
    \/ \E es \in SUBSET AllArmings : Close(es)

Spec == Init /\ [][Next]_stage

=============================================================================
