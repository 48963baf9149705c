-------------------------------- MODULE Tasks --------------------------------
(***************************************************************************)
(* The background task framework (src/src/ronnie/tasks): Task.delay and    *)
(* Task.call, the three brokers, execute_task with its result record,      *)
(* schedule_retry, and the Worker loop that runs due retries and then one  *)
(* broker message.                                                         *)
(*                                                                         *)
(* A process is one Python interpreter.  Its retry queue is the module     *)
(* level list worker._retry_queue.  A process of Workers runs Worker.run   *)
(* in its main thread; the threads of Pool are ThreadBroker pool threads   *)
(* or threads of a web process that call a task synchronously, and         *)
(* Home[e] is the process they live in.                                    *)
(***************************************************************************)
EXTENDS Integers, Sequences, FiniteSets

CONSTANTS
    Tasks,        \* the task ids that are submitted, one message each
    Processes,    \* the operating system processes
    Workers,      \* the processes that run Worker.run in their main thread
    Pool,         \* the threads that execute tasks without a worker loop
    Home,         \* Home[e] is the process of the thread e of Pool
    Broker,       \* TASKS_BROKER: "redis", "thread" or "inline"
    MaxRetries,   \* MaxRetries[t] is Task.max_retries
    Backoff,      \* Backoff[t] is Task.retry_backoff
    Registry,     \* Registry[p] is the tasks imported (registered) in p
    Faults,       \* what the environment may do: see FaultKinds
    NoJob         \* what an executor holds between two tasks

FaultKinds == {"raise", "crash", "stop", "expire"}

Executors == Workers \cup Pool

ASSUME ProcessAssumption ==
    /\ Workers \subseteq Processes
    /\ Pool \cap Processes = {}
    /\ Home \in [Pool -> Processes]
    /\ Registry \in [Processes -> SUBSET Tasks]
ASSUME RetryAssumption ==
    /\ MaxRetries \in [Tasks -> Nat]
    /\ Backoff \in [Tasks -> BOOLEAN]
ASSUME BrokerAssumption == Broker \in {"redis", "thread", "inline"}
ASSUME FaultAssumption == Faults \subseteq FaultKinds

\* A message (attempt 0) or a retry entry: the id and the attempt it is for.
Jobs == [id : Tasks, attempt : Nat]
ASSUME NoJobAssumption == NoJob \notin Jobs

Statuses == {"PENDING", "STARTED", "RETRY", "SUCCESS", "FAILED"}
Final == {"SUCCESS", "FAILED"}

\* Inside execute_task: before task_prerun; the function running; it raised;
\* RETRY stored but not yet scheduled; it returned; SUCCESS stored.
Executing == {"begin", "func", "failed", "retry", "succeeded", "postrun"}
\* A worker's loop: at the while test, in the loop over the retry queue, after
\* that loop and before the slice assignment, at the broker, and ended.
PCs == {"idle", "pass", "passEnd", "poll", "down"} \cup Executing

VARIABLES
    submitted,    \* the tasks handed to the broker or called so far
    queue,        \* the broker's queue, oldest message first
    status,       \* status[t]: the state in the result record, or PENDING
    retryq,       \* retryq[p]: worker._retry_queue of the process p
    pc,           \* pc[e]: where the executor e is
    job,          \* job[e]: what e executes
    resume,       \* resume[e]: where e continues after execute_task
    cursor,       \* cursor[w]: the next index of the loop over retryq[w]
    still,        \* still[w]: still_pending of the pass under way
    stopping,     \* stopping[w]: Worker._stop
    runs          \* history: how often the function of t was entered

taskVars == <<submitted, queue>>
resultVars == <<status, runs>>
passVars == <<cursor, still>>
vars == <<submitted, queue, status, retryq, pc, job, resume, cursor, still, stopping, runs>>

ProcessOf(e) == IF e \in Workers THEN e ELSE Home[e]
ExecutorsOf(p) == {e \in Executors : ProcessOf(e) = p}

TypeOK ==
    /\ submitted \subseteq Tasks
    /\ queue \in Seq(Tasks)
    /\ status \in [Tasks -> Statuses]
    /\ retryq \in [Processes -> Seq(Jobs)]
    /\ pc \in [Executors -> PCs]
    /\ job \in [Executors -> Jobs \cup {NoJob}]
    /\ resume \in [Executors -> {"idle", "pass"}]
    /\ cursor \in [Workers -> Nat \ {0}]
    /\ still \in [Workers -> Seq(Jobs)]
    /\ stopping \in [Workers -> BOOLEAN]
    /\ runs \in [Tasks -> Nat]

Init ==
    /\ submitted = {}
    /\ queue = <<>>
    /\ status = [t \in Tasks |-> "PENDING"]
    /\ retryq = [p \in Processes |-> <<>>]
    /\ pc = [e \in Executors |-> "idle"]
    /\ job = [e \in Executors |-> NoJob]
    /\ resume = [e \in Executors |-> "idle"]
    /\ cursor = [w \in Workers |-> 1]
    /\ still = [w \in Workers |-> <<>>]
    /\ stopping = [w \in Workers |-> FALSE]
    /\ runs = [t \in Tasks |-> 0]

-----------------------------------------------------------------------------
\* Steps of an executor

Goto(e, label) == pc' = [pc EXCEPT ![e] = label]
Store(t, state) == status' = [status EXCEPT ![t] = state]

\* e enters execute_task with j and continues at label when it returns.
Enter(e, j, label) ==
    /\ Goto(e, "begin")
    /\ job' = [job EXCEPT ![e] = j]
    /\ resume' = [resume EXCEPT ![e] = label]

\* execute_task returns.
Return(e) ==
    /\ Goto(e, resume[e])
    /\ job' = [job EXCEPT ![e] = NoJob]

\* execute_task raises.  Nothing in Worker.run catches it, so the worker's
\* process ends; a pool thread keeps the exception in its Future and a
\* synchronous caller gets it.
Raise(e) ==
    /\ Goto(e, IF e \in Workers THEN "down" ELSE "idle")
    /\ job' = [job EXCEPT ![e] = NoJob]

-----------------------------------------------------------------------------
\* Submitting

\* Task.apply_async through RedisBroker.enqueue (LPUSH) or ThreadBroker.enqueue
\* (the pool's work queue); the countdown is spent by whoever takes the message.
Enqueue(t) ==
    /\ Broker # "inline"
    /\ t \notin submitted
    /\ submitted' = submitted \cup {t}
    /\ queue' = Append(queue, t)
    /\ UNCHANGED <<status, retryq, pc, job, resume, passVars, stopping, runs>>

\* Task.call, or Task.apply_async through InlineBroker.enqueue: the calling
\* thread executes the task itself.
Call(e, t) ==
    /\ pc[e] = "idle"
    /\ t \notin submitted
    /\ t \in Registry[ProcessOf(e)]
    /\ submitted' = submitted \cup {t}
    /\ Enter(e, [id |-> t, attempt |-> 0], "idle")
    /\ UNCHANGED <<queue, status, retryq, passVars, stopping, runs>>

\* Mutant: the work item stays in the pool's queue.
PoolTakePeeks(e) ==
    /\ Broker = "thread"
    /\ pc[e] = "idle"
    /\ queue # <<>>
    /\ Enter(e, [id |-> Head(queue), attempt |-> 0], "idle")
    /\ UNCHANGED <<taskVars, status, retryq, passVars, stopping, runs>>

\* A ThreadBroker pool thread takes the oldest work item (ThreadBroker._run).
PoolTake(e) ==
    /\ Broker = "thread"
    /\ pc[e] = "idle"
    /\ queue # <<>>
    /\ queue' = Tail(queue)
    /\ Enter(e, [id |-> Head(queue), attempt |-> 0], "idle")
    /\ UNCHANGED <<submitted, status, retryq, passVars, stopping, runs>>

-----------------------------------------------------------------------------
\* execute_task

\* The name is not in this process's registry: FAILED is stored, TaskError is
\* raised.
ExecuteUnknown(e) ==
    /\ pc[e] = "begin"
    /\ job[e].id \notin Registry[ProcessOf(e)]
    /\ Store(job[e].id, "FAILED")
    /\ Raise(e)
    /\ UNCHANGED <<taskVars, retryq, resume, passVars, stopping, runs>>

\* task_prerun.send, STARTED is stored and the function is entered.
ExecuteStart(e) ==
    /\ pc[e] = "begin"
    /\ job[e].id \in Registry[ProcessOf(e)]
    /\ Store(job[e].id, "STARTED")
    /\ runs' = [runs EXCEPT ![job[e].id] = @ + 1]
    /\ Goto(e, "func")
    /\ UNCHANGED <<taskVars, retryq, job, resume, passVars, stopping>>

\* The function returns a result or raises.
ExecuteFunction(e) ==
    /\ pc[e] = "func"
    /\ \/ Goto(e, "succeeded")
       \/ Goto(e, "failed")
    /\ UNCHANGED <<taskVars, resultVars, retryq, job, resume, passVars, stopping>>

\* Mutant: one attempt too many, <= for <.
ExecuteRetryOffByOne(e) ==
    /\ pc[e] = "failed"
    /\ job[e].attempt <= MaxRetries[job[e].id]
    /\ Store(job[e].id, "RETRY")
    /\ Goto(e, "retry")
    /\ UNCHANGED <<taskVars, retryq, job, resume, passVars, stopping, runs>>

\* task_failure.send, then RETRY is stored because attempts are left.
ExecuteRetry(e) ==
    /\ pc[e] = "failed"
    /\ job[e].attempt < MaxRetries[job[e].id]
    /\ Store(job[e].id, "RETRY")
    /\ Goto(e, "retry")
    /\ UNCHANGED <<taskVars, retryq, job, resume, passVars, stopping, runs>>

\* schedule_retry: the next attempt is appended to the retry queue of the
\* process that executed this one.
ScheduleRetry(e) ==
    /\ pc[e] = "retry"
    /\ retryq' = [retryq EXCEPT ![ProcessOf(e)] =
                    Append(@, [id |-> job[e].id, attempt |-> job[e].attempt + 1])]
    /\ Return(e)
    /\ UNCHANGED <<taskVars, resultVars, resume, passVars, stopping>>

\* Mutant: the attempt is compared after it was counted, so the last one is
\* given up.
ExecuteFailedEarly(e) ==
    /\ pc[e] = "failed"
    /\ job[e].attempt + 1 >= MaxRetries[job[e].id]
    /\ Store(job[e].id, "FAILED")
    /\ Return(e)
    /\ UNCHANGED <<taskVars, retryq, resume, passVars, stopping, runs>>

\* task_failure.send, then FAILED is stored because no attempt is left.
ExecuteFailed(e) ==
    /\ pc[e] = "failed"
    /\ job[e].attempt >= MaxRetries[job[e].id]
    /\ Store(job[e].id, "FAILED")
    /\ Return(e)
    /\ UNCHANGED <<taskVars, retryq, resume, passVars, stopping, runs>>

\* The function returned: SUCCESS is stored.
ExecuteSuccess(e) ==
    /\ pc[e] = "succeeded"
    /\ Store(job[e].id, "SUCCESS")
    /\ Goto(e, "postrun")
    /\ UNCHANGED <<taskVars, retryq, job, resume, passVars, stopping, runs>>

\* task_postrun.send, and execute_task returns.
ExecutePostrun(e) ==
    /\ pc[e] = "postrun"
    /\ Return(e)
    /\ UNCHANGED <<taskVars, resultVars, retryq, resume, passVars, stopping>>

\* A receiver of task_prerun, task_failure or task_postrun raises, or the
\* result backend does when a state is stored: none of it is inside the try.
ExecuteRaises(e) ==
    /\ "raise" \in Faults
    /\ pc[e] \in {"begin", "failed", "succeeded", "postrun"}
    /\ Raise(e)
    /\ UNCHANGED <<taskVars, resultVars, retryq, resume, passVars, stopping>>

Execute(e) ==
    \/ ExecuteUnknown(e)
    \/ ExecuteStart(e)
    \/ ExecuteFunction(e)
    \/ ExecuteRetry(e)
    \/ ScheduleRetry(e)
    \/ ExecuteFailed(e)
    \/ ExecuteSuccess(e)
    \/ ExecutePostrun(e)

-----------------------------------------------------------------------------
\* The worker loop

\* Mutant: the stop flag is not read.
LoopStartAlways(w) ==
    /\ pc[w] = "idle"
    /\ Goto(w, "pass")
    /\ UNCHANGED <<taskVars, resultVars, retryq, job, resume, passVars, stopping>>

\* while not self._stop: process_one, which begins with _run_due_retries.
LoopStart(w) ==
    /\ pc[w] = "idle"
    /\ ~ stopping[w]
    /\ Goto(w, "pass")
    /\ UNCHANGED <<taskVars, resultVars, retryq, job, resume, passVars, stopping>>

\* The loop sees the stop flag: run returns and the process ends.
LoopEnd(w) ==
    /\ pc[w] = "idle"
    /\ stopping[w]
    /\ Goto(w, "down")
    /\ UNCHANGED <<taskVars, resultVars, retryq, job, resume, passVars, stopping>>

\* Entry at the cursor is due and its task registered: it is executed.
\* Whether a delayed entry is due is the clock's choice.
PassTake(w) ==
    /\ pc[w] = "pass"
    /\ cursor[w] <= Len(retryq[w])
    /\ retryq[w][cursor[w]].id \in Registry[w]
    /\ Enter(w, retryq[w][cursor[w]], "pass")
    /\ cursor' = [cursor EXCEPT ![w] = @ + 1]
    /\ UNCHANGED <<taskVars, resultVars, retryq, still, stopping>>

\* Mutant: the entry that is not due is not kept.
PassSkipForgets(w) ==
    /\ pc[w] = "pass"
    /\ cursor[w] <= Len(retryq[w])
    /\ LET entry == retryq[w][cursor[w]] IN
        Backoff[entry.id] \/ entry.id \notin Registry[w]
    /\ cursor' = [cursor EXCEPT ![w] = @ + 1]
    /\ UNCHANGED <<taskVars, resultVars, retryq, pc, job, resume, still, stopping>>

\* Entry at the cursor is not due, or its task is not registered: it is kept.
PassSkip(w) ==
    /\ pc[w] = "pass"
    /\ cursor[w] <= Len(retryq[w])
    /\ LET entry == retryq[w][cursor[w]] IN
        /\ Backoff[entry.id] \/ entry.id \notin Registry[w]
        /\ still' = [still EXCEPT ![w] = Append(@, entry)]
    /\ cursor' = [cursor EXCEPT ![w] = @ + 1]
    /\ UNCHANGED <<taskVars, resultVars, retryq, pc, job, resume, stopping>>

\* The iterator is exhausted, entries appended during the pass included.
PassDone(w) ==
    /\ pc[w] = "pass"
    /\ cursor[w] > Len(retryq[w])
    /\ Goto(w, "passEnd")
    /\ UNCHANGED <<taskVars, resultVars, retryq, job, resume, passVars, stopping>>

\* Mutant: the cursor restarts one too low.
PassAssignFromZero(w) ==
    /\ pc[w] = "passEnd"
    /\ retryq' = [retryq EXCEPT ![w] = still[w]]
    /\ still' = [still EXCEPT ![w] = <<>>]
    /\ cursor' = [cursor EXCEPT ![w] = 0]
    /\ Goto(w, "poll")
    /\ UNCHANGED <<taskVars, resultVars, job, resume, stopping>>

\* Mutant: the executed entries stay in the retry queue.
PassAssignKeeps(w) ==
    /\ pc[w] = "passEnd"
    /\ still' = [still EXCEPT ![w] = <<>>]
    /\ cursor' = [cursor EXCEPT ![w] = 1]
    /\ Goto(w, "poll")
    /\ UNCHANGED <<taskVars, resultVars, retryq, job, resume, stopping>>

\* _retry_queue[:] = still_pending.
PassAssign(w) ==
    /\ pc[w] = "passEnd"
    /\ retryq' = [retryq EXCEPT ![w] = still[w]]
    /\ still' = [still EXCEPT ![w] = <<>>]
    /\ cursor' = [cursor EXCEPT ![w] = 1]
    /\ Goto(w, "poll")
    /\ UNCHANGED <<taskVars, resultVars, job, resume, stopping>>

\* Mutant: the message is read without being removed.
DequeuePeeks(w) ==
    /\ Broker = "redis"
    /\ pc[w] = "poll"
    /\ queue # <<>>
    /\ Enter(w, [id |-> Head(queue), attempt |-> 0], "idle")
    /\ UNCHANGED <<taskVars, resultVars, retryq, passVars, stopping>>

\* The broker hands over a message (BRPOP); a countdown is slept off here.
\* Only RedisBroker queues messages that a worker can dequeue.
Dequeue(w) ==
    /\ Broker = "redis"
    /\ pc[w] = "poll"
    /\ queue # <<>>
    /\ queue' = Tail(queue)
    /\ Enter(w, [id |-> Head(queue), attempt |-> 0], "idle")
    /\ UNCHANGED <<submitted, resultVars, retryq, passVars, stopping>>

\* The poll timeout passes without a message.
DequeueEmpty(w) ==
    /\ pc[w] = "poll"
    /\ Broker # "redis" \/ queue = <<>>
    /\ Goto(w, "idle")
    /\ UNCHANGED <<taskVars, resultVars, retryq, job, resume, passVars, stopping>>

Loop(w) ==
    \/ LoopStart(w)
    \/ LoopEnd(w)
    \/ PassTake(w)
    \/ PassSkip(w)
    \/ PassDone(w)
    \/ PassAssign(w)
    \/ Dequeue(w)
    \/ DequeueEmpty(w)

-----------------------------------------------------------------------------
\* The environment

\* SIGTERM or SIGINT: the handler only sets the flag.
Stop(w) ==
    /\ "stop" \in Faults
    /\ pc[w] # "down"
    /\ stopping' = [stopping EXCEPT ![w] = TRUE]
    /\ UNCHANGED <<taskVars, resultVars, retryq, pc, job, resume, passVars>>

\* The memory of a process is lost: its retry queue, its pool's work queue,
\* what its threads were executing.  Its worker is down, its other threads
\* are those of the process started in its place.
LoseMemory(p, label) ==
    /\ retryq' = [retryq EXCEPT ![p] = <<>>]
    /\ queue' = IF Broker = "thread" THEN <<>> ELSE queue
    /\ pc' = [e \in Executors |->
                IF e = p THEN label ELSE IF e \in ExecutorsOf(p) THEN "idle" ELSE pc[e]]
    /\ job' = [e \in Executors |-> IF e \in ExecutorsOf(p) THEN NoJob ELSE job[e]]
    /\ cursor' = [w \in Workers |-> IF w = p THEN 1 ELSE cursor[w]]
    /\ still' = [w \in Workers |-> IF w = p THEN <<>> ELSE still[w]]
    /\ stopping' = [w \in Workers |-> IF w = p THEN FALSE ELSE stopping[w]]

\* SIGKILL, or the machine fails.
Crash(p) ==
    /\ "crash" \in Faults
    /\ LoseMemory(p, "down")
    /\ UNCHANGED <<submitted, resultVars, resume>>

\* A supervisor starts a new worker process in place of one that ended.  Its
\* other threads have been joined at interpreter exit.
Restart(w) ==
    /\ pc[w] = "down"
    /\ \A e \in ExecutorsOf(w) \ {w} : pc[e] = "idle"
    /\ Broker = "thread" => queue = <<>>
    /\ LoseMemory(w, "idle")
    /\ UNCHANGED <<submitted, resultVars, resume>>

\* The result record of t outlives its timeout, or is culled.
Expire(t) ==
    /\ "expire" \in Faults
    /\ status[t] # "PENDING"
    /\ Store(t, "PENDING")
    /\ UNCHANGED <<taskVars, retryq, pc, job, resume, passVars, stopping, runs>>

Next ==
    \/ \E t \in Tasks : Enqueue(t) \/ Expire(t)
    \/ \E e \in Pool : PoolTake(e) \/ \E t \in Tasks : Call(e, t)
    \/ \E e \in Executors : Execute(e) \/ ExecuteRaises(e)
    \/ \E w \in Workers : Loop(w) \/ Stop(w) \/ Restart(w)
    \/ \E p \in Processes : Crash(p)

Spec == Init /\ [][Next]_vars

\* A running interpreter keeps running: every executor finishes what it
\* executes and every worker keeps looping.  A retry entry whose backoff is a
\* fixed due time is not skipped for ever: PassTake is strongly fair.
Fairness ==
    /\ \A e \in Executors : WF_vars(Execute(e))
    /\ \A e \in Pool : WF_vars(PoolTake(e))
    /\ \A w \in Workers : WF_vars(Loop(w)) /\ SF_vars(PassTake(w)) /\ WF_vars(Restart(w))

FairSpec == Spec /\ Fairness

-----------------------------------------------------------------------------
\* Properties

\* A task function is entered at most once per allowed attempt, whatever
\* crashes, restarts, raising receivers and expiring results do.
AttemptsBounded == \A t \in Tasks : runs[t] <= MaxRetries[t] + 1

\* No two workers or threads execute the same task id at the same time.
ExclusiveExecution ==
    \A e, f \in Executors :
        (e # f /\ job[e] # NoJob /\ job[f] # NoJob) => job[e].id # job[f].id

\* FAILED is only ever stored for a task that has used all its attempts, or
\* that a process refused because it does not know the name.
FailedMeansExhausted ==
    \A t \in Tasks : status[t] = "FAILED" =>
        \/ runs[t] = MaxRetries[t] + 1
        \/ runs[t] = 0 /\ \E p \in Processes : t \notin Registry[p]

\* The retry of t waits where a worker that is still up will run it: in the
\* part of a retry queue that the pass under way will visit or has kept, or in
\* the hands of the executor that is about to append it.
RetryWaits(t) ==
    \/ \E w \in Workers :
        /\ pc[w] # "down"
        /\ \/ \E i \in cursor[w]..Len(retryq[w]) : retryq[w][i].id = t
           \/ \E i \in DOMAIN still[w] : still[w][i].id = t
    \/ \E e \in Executors : job[e] # NoJob /\ job[e].id = t

\* "Failures retry up to max_retries" (docs/topics/tasks.md): a task whose
\* result says RETRY still has the retry coming.
RetryIsComing == \A t \in Tasks : status[t] = "RETRY" => RetryWaits(t)

\* Workers that nobody stops never forget a retry.
NoRetryForgotten == [](\A w \in Workers : ~ stopping[w]) => []RetryIsComing

\* A stored SUCCESS or FAILED stands until the record expires, and the task
\* does not run again, though other steps of the retry pass follow.
FinalIsFinal ==
    [][\A t \in Tasks : status[t] \in Final =>
        status'[t] \in {status[t], "PENDING"} /\ runs'[t] = runs[t]]_vars

\* Every task handed to the broker reaches SUCCESS or FAILED, through all the
\* retries it is entitled to, if nobody stops the workers.
EveryTaskFinishes ==
    [](\A w \in Workers : ~ stopping[w])
        => \A t \in Tasks : t \in submitted ~> status[t] \in Final

\* A worker that got SIGTERM or SIGINT ends, whatever its retry queue holds
\* and although a pass visits the entries appended while it runs.
StopIsHonoured == \A w \in Workers : stopping[w] ~> pc[w] = "down"

\* The lifecycle that docs/topics/tasks.md gives a result.
Life == INSTANCE TaskLife
Lifecycle == Life!Spec
=============================================================================
