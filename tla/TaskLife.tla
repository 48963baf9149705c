------------------------------ MODULE TaskLife ------------------------------
(***************************************************************************)
(* What a task's result record promises to the holder of its AsyncResult:  *)
(* PENDING, then STARTED, then SUCCESS, FAILED or RETRY, where RETRY leads *)
(* back to STARTED at most MaxRetries times and FAILED means that every    *)
(* attempt was used or that the task was rejected without being run.       *)
(***************************************************************************)
EXTENDS Integers

CONSTANTS Tasks, MaxRetries

VARIABLES
    status,   \* what AsyncResult.status returns
    runs      \* how often the function was entered

Init ==
    /\ status = [t \in Tasks |-> "PENDING"]
    /\ runs = [t \in Tasks |-> 0]

\* An attempt begins.
Start(t) ==
    /\ status[t] \in {"PENDING", "RETRY"}
    /\ runs[t] <= MaxRetries[t]
    /\ status' = [status EXCEPT ![t] = "STARTED"]
    /\ runs' = [runs EXCEPT ![t] = @ + 1]

\* An attempt ends well, or badly with or without attempts left.
Finish(t, state) ==
    /\ status[t] = "STARTED"
    /\ state = "RETRY" => runs[t] <= MaxRetries[t]
    /\ state = "FAILED" => runs[t] = MaxRetries[t] + 1
    /\ status' = [status EXCEPT ![t] = state]
    /\ UNCHANGED runs

\* The name is unknown to the process that would run it.
Reject(t) ==
    /\ status[t] = "PENDING"
    /\ runs[t] = 0
    /\ status' = [status EXCEPT ![t] = "FAILED"]
    /\ UNCHANGED runs

Next ==
    \E t \in Tasks :
        \/ Start(t)
        \/ \E state \in {"SUCCESS", "FAILED", "RETRY"} : Finish(t, state)
        \/ Reject(t)

Spec == Init /\ [][Next]_<<status, runs>>
=============================================================================
