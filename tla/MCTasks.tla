------------------------------- MODULE MCTasks -------------------------------
(***************************************************************************)
(* Instances of Tasks for TLC.  Task t1 is retried once with backoff, t2   *)
(* is retried once without; t3 exists where a third task is wanted and     *)
(* fails for good at its first error.                                      *)
(***************************************************************************)
EXTENDS Tasks, TLC

CONSTANTS t1, t2, t3, w1, w2, web, th1, th2

MCMaxRetries == [t \in Tasks |-> IF t = t3 THEN 0 ELSE 1]
MCBackoff == [t \in Tasks |-> t # t2]

\* Every process imports every task.
MCRegistryFull == [p \in Processes |-> Tasks]

\* w2 runs a release that does not have t2.
MCRegistryPartial == [p \in Processes |-> IF p = w2 THEN Tasks \ {t2} ELSE Tasks]

MCHomeNone == <<>>
\* One pool thread in the process of the worker.
MCHomeWorker == [e \in Pool |-> w1]
MCHomeWeb == [e \in Pool |-> web]
=============================================================================
