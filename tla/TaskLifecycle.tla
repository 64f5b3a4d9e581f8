---------------------------- MODULE TaskLifecycle ----------------------------
(***************************************************************************)
(* What TaskService promises its callers: a task is created once, is run   *)
(* once, and ends once, as a success or as a failure.  Several tasks may   *)
(* be created by one request.                                              *)
(***************************************************************************)
CONSTANT Ids

VARIABLE status

Init == status = [t \in Ids |-> "none"]

Create(new) ==
  /\ \A t \in new : status[t] = "none"
  /\ status' = [t \in Ids |-> IF t \in new THEN "created" ELSE status[t]]

Run(t) ==
  /\ status[t] = "created"
  /\ status' = [status EXCEPT ![t] = "running"]

End(t, s) ==
  /\ status[t] = "running"
  /\ status' = [status EXCEPT ![t] = s]

Next == \/ \E new \in SUBSET Ids : Create(new)
        \/ \E t \in Ids : Run(t) \/ End(t, "success") \/ End(t, "failed")

Spec == Init /\ [][Next]_status
=============================================================================
