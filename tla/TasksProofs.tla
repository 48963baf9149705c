----------------------------- MODULE TasksProofs -----------------------------
(***************************************************************************)
(* Proofs about Tasks, for every number of tasks, workers, pool threads    *)
(* and attempts, and under every combination of faults.                    *)
(***************************************************************************)
EXTENDS Tasks, TLAPS

\* Every executor lives in a process.
LEMMA ProcessOfType == \A e \in Executors : ProcessOf(e) \in Processes
BY ProcessAssumption DEF ProcessOf, Executors

LEMMA JobFields ==
    ASSUME NEW s \in Seq(Jobs), NEW i \in 1..Len(s)
    PROVE  s[i] \in Jobs /\ s[i].id \in Tasks /\ s[i].attempt \in Nat
<1>1. s[i] \in Jobs
  OBVIOUS
<1> QED
  BY <1>1 DEF Jobs

\* What LoseMemory leaves behind is well typed.
LEMMA LoseMemoryType ==
    ASSUME TypeOK, NEW p \in Processes, NEW label \in {"idle", "down"},
           LoseMemory(p, label)
    PROVE  /\ retryq' \in [Processes -> Seq(Jobs)]
           /\ queue' \in Seq(Tasks)
           /\ pc' \in [Executors -> PCs]
           /\ job' \in [Executors -> Jobs \cup {NoJob}]
           /\ cursor' \in [Workers -> Nat \ {0}]
           /\ still' \in [Workers -> Seq(Jobs)]
           /\ stopping' \in [Workers -> BOOLEAN]
<1>1. pc' \in [Executors -> PCs]
  BY DEF TypeOK, LoseMemory, PCs
<1>2. stopping' \in [Workers -> BOOLEAN]
  BY DEF TypeOK, LoseMemory
<1>3. cursor' \in [Workers -> Nat \ {0}] /\ still' \in [Workers -> Seq(Jobs)]
  BY DEF TypeOK, LoseMemory
<1>4. job' \in [Executors -> Jobs \cup {NoJob}]
  BY DEF TypeOK, LoseMemory
<1>5. retryq' \in [Processes -> Seq(Jobs)] /\ queue' \in Seq(Tasks)
  BY DEF TypeOK, LoseMemory
<1> QED
  BY <1>1, <1>2, <1>3, <1>4, <1>5

\* An executor holds a job exactly while it is inside execute_task: without
\* this the types alone are not inductive, because schedule_retry reads the
\* job it is about to append.
HandsOK == \A e \in Executors : job[e] # NoJob <=> pc[e] \in Executing

TypeInv == TypeOK /\ HandsOK

LEMMA LoseMemoryHands ==
    ASSUME TypeInv, NEW p \in Processes, NEW label \in {"idle", "down"},
           LoseMemory(p, label)
    PROVE  HandsOK'
<1>1. \A e \in Executors : e = p => e \in ExecutorsOf(p)
  BY ProcessAssumption DEF ExecutorsOf, Executors, ProcessOf
<1>2. TypeOK /\ HandsOK
  BY DEF TypeInv
<1> SUFFICES ASSUME NEW e \in Executors
             PROVE  job'[e] # NoJob <=> pc'[e] \in Executing
  BY DEF HandsOK
<1>3. CASE e \in ExecutorsOf(p)
  BY <1>3 DEF LoseMemory, Executing
<1>4. CASE e \notin ExecutorsOf(p)
  BY <1>1, <1>2, <1>4 DEF LoseMemory, HandsOK
<1> QED
  BY <1>3, <1>4

\* The types, strengthened to be inductive.
THEOREM TypeInvariant == Spec => []TypeInv
<1>1. Init => TypeInv
  BY DEF Init, TypeInv, HandsOK, TypeOK, PCs, Statuses, Executing
<1>2. TypeInv /\ [Next]_vars => TypeInv'
  <2> SUFFICES ASSUME TypeInv, [Next]_vars PROVE TypeInv'
    OBVIOUS
  <2> USE ProcessOfType DEF TypeInv
  <2>0. Pool \subseteq Executors /\ Workers \subseteq Executors /\ Workers \subseteq Processes
    BY ProcessAssumption DEF Executors
  <2>1. ASSUME NEW t \in Tasks, Enqueue(t) PROVE TypeInv'
    BY <2>1 DEF TypeOK, HandsOK, Enqueue, passVars
  <2>2. ASSUME NEW t \in Tasks, Expire(t) PROVE TypeInv'
    BY <2>2 DEF TypeOK, HandsOK, Expire, Store, passVars, taskVars, Statuses
  <2>3. ASSUME NEW e \in Pool, PoolTake(e) PROVE TypeInv'
    <3>1. e \in Executors /\ [id |-> Head(queue), attempt |-> 0] \in Jobs
      BY <2>0, <2>3 DEF TypeOK, PoolTake, Jobs
    <3> QED
      BY <2>3, <3>1, NoJobAssumption
      DEF TypeOK, HandsOK, PoolTake, Enter, Goto, passVars, PCs, Executing
  <2>4. ASSUME NEW e \in Pool, NEW t \in Tasks, Call(e, t) PROVE TypeInv'
    <3>1. e \in Executors /\ [id |-> t, attempt |-> 0] \in Jobs
      BY <2>0 DEF Jobs
    <3> QED
      BY <2>4, <3>1, NoJobAssumption
      DEF TypeOK, HandsOK, Call, Enter, Goto, passVars, PCs, Executing
  <2>5. ASSUME NEW e \in Executors, Execute(e) PROVE TypeInv'
    <3>0. pc[e] \in Executing => job[e] \in Jobs /\ job[e].id \in Tasks /\ job[e].attempt \in Nat
      BY DEF TypeOK, HandsOK, Jobs
    <3> USE DEF TypeOK, HandsOK, Goto, Store, passVars, taskVars, resultVars,
                PCs, Executing, Statuses
    <3>1. CASE ExecuteUnknown(e)
      BY <3>0, <3>1 DEF ExecuteUnknown, Raise
    <3>2. CASE ExecuteStart(e)
      BY <3>0, <3>2 DEF ExecuteStart
    <3>3. CASE ExecuteFunction(e)
      BY <3>3 DEF ExecuteFunction
    <3>4. CASE ExecuteRetry(e)
      BY <3>0, <3>4 DEF ExecuteRetry
    <3>5. CASE ScheduleRetry(e)
      <4>1. [id |-> job[e].id, attempt |-> job[e].attempt + 1] \in Jobs
        BY <3>0, <3>5 DEF ScheduleRetry, Jobs
      <4> QED
        BY <3>5, <4>1 DEF ScheduleRetry, Return
    <3>6. CASE ExecuteFailed(e)
      BY <3>0, <3>6 DEF ExecuteFailed, Return
    <3>7. CASE ExecuteSuccess(e)
      BY <3>0, <3>7 DEF ExecuteSuccess
    <3>8. CASE ExecutePostrun(e)
      BY <3>8 DEF ExecutePostrun, Return
    <3> QED
      BY <2>5, <3>1, <3>2, <3>3, <3>4, <3>5, <3>6, <3>7, <3>8 DEF Execute
  <2>6. ASSUME NEW e \in Executors, ExecuteRaises(e) PROVE TypeInv'
    BY <2>6
    DEF TypeOK, HandsOK, ExecuteRaises, Raise, Goto, passVars, taskVars, resultVars, PCs, Executing
  <2>7. ASSUME NEW w \in Workers, Loop(w) PROVE TypeInv'
    <3> USE <2>0
        DEF TypeOK, HandsOK, Goto, passVars, taskVars, resultVars, PCs, Executing
    <3>1. CASE LoopStart(w)
      BY <3>1 DEF LoopStart
    <3>2. CASE LoopEnd(w)
      BY <3>2 DEF LoopEnd
    <3>3. CASE PassTake(w)
      BY <3>3, NoJobAssumption DEF PassTake, Enter
    <3>4. CASE PassSkip(w)
      <4>1. retryq[w][cursor[w]] \in Jobs /\ cursor[w] + 1 \in Nat \ {0}
        BY <3>4 DEF PassSkip
      <4>2. still' \in [Workers -> Seq(Jobs)] /\ cursor' \in [Workers -> Nat \ {0}]
        BY <3>4, <4>1 DEF PassSkip
      <4> QED
        BY <3>4, <4>2 DEF PassSkip
    <3>5. CASE PassDone(w)
      BY <3>5 DEF PassDone
    <3>6. CASE PassAssign(w)
      BY <3>6 DEF PassAssign
    <3>7. CASE Dequeue(w)
      <4>1. [id |-> Head(queue), attempt |-> 0] \in Jobs
        BY <3>7 DEF Dequeue, Jobs
      <4> QED
        BY <3>7, <4>1, NoJobAssumption DEF Dequeue, Enter
    <3>8. CASE DequeueEmpty(w)
      BY <3>8 DEF DequeueEmpty
    <3> QED
      BY <2>7, <3>1, <3>2, <3>3, <3>4, <3>5, <3>6, <3>7, <3>8 DEF Loop
  <2>8. ASSUME NEW w \in Workers, Stop(w) PROVE TypeInv'
    BY <2>8 DEF TypeOK, HandsOK, Stop, passVars, taskVars, resultVars
  <2>9. ASSUME NEW w \in Workers, Restart(w) PROVE TypeInv'
    <3>1. w \in Processes /\ LoseMemory(w, "idle")
      BY <2>0, <2>9 DEF Restart
    <3> QED
      BY <2>9, <3>1, LoseMemoryType, LoseMemoryHands DEF TypeOK, Restart, resultVars
  <2>10. ASSUME NEW p \in Processes, Crash(p) PROVE TypeInv'
    <3>1. LoseMemory(p, "down")
      BY <2>10 DEF Crash
    <3> QED
      BY <2>10, <3>1, LoseMemoryType, LoseMemoryHands DEF TypeOK, Crash, resultVars
  <2>11. CASE UNCHANGED vars
    BY <2>11 DEF TypeOK, HandsOK, vars
  <2> QED
    BY <2>1, <2>2, <2>3, <2>4, <2>5, <2>6, <2>7, <2>8, <2>9, <2>10, <2>11 DEF Next
<1> QED
  BY <1>1, <1>2, PTL DEF Spec

\* Type correctness: every variable keeps its type in every execution.
THEOREM TypeCorrect == Spec => []TypeOK
<1>1. TypeInv => TypeOK
  BY DEF TypeInv
<1> QED
  BY <1>1, TypeInvariant, PTL

-----------------------------------------------------------------------------
\* A task id is in at most one place

\* The places from which t can still be executed.  Only the part of a retry
\* queue that the pass has not visited counts: what lies before the cursor
\* has been executed or copied, and is dropped by the slice assignment.
InQueue(t) == \E i \in 1..Len(queue) : queue[i] = t
InRetry(w, t) == \E i \in cursor[w]..Len(retryq[w]) : retryq[w][i].id = t
InStill(w, t) == \E i \in 1..Len(still[w]) : still[w][i].id = t
InHand(e, t) == job[e] # NoJob /\ job[e].id = t

\* No place holds a task twice.
QueueDistinct == \A i, j \in 1..Len(queue) : queue[i] = queue[j] => i = j
RetryDistinct(w) == \A i, j \in cursor[w]..Len(retryq[w]) :
                        retryq[w][i].id = retryq[w][j].id => i = j
StillDistinct(w) == \A i, j \in 1..Len(still[w]) :
                        still[w][i].id = still[w][j].id => i = j
NoRepetition == QueueDistinct /\ \A w \in Workers : RetryDistinct(w) /\ StillDistinct(w)

\* No two places hold the same task, and what they hold was submitted.
OnePlace(t) ==
    /\ InQueue(t) =>
        /\ t \in submitted
        /\ \A w \in Workers : ~ InRetry(w, t) /\ ~ InStill(w, t)
        /\ \A e \in Executors : ~ InHand(e, t)
    /\ \A w \in Workers : InRetry(w, t) =>
        /\ t \in submitted
        /\ \A v \in Workers : ~ InStill(v, t) /\ (InRetry(v, t) => v = w)
        /\ \A e \in Executors : ~ InHand(e, t)
    /\ \A w \in Workers : InStill(w, t) =>
        /\ t \in submitted
        /\ \A v \in Workers : InStill(v, t) => v = w
        /\ \A e \in Executors : ~ InHand(e, t)
    /\ \A e \in Executors : InHand(e, t) =>
        /\ t \in submitted
        /\ \A f \in Executors : InHand(f, t) => f = e

Exclusion == NoRepetition /\ \A t \in Tasks : OnePlace(t)

\* A step that puts t nowhere it was not before keeps it in one place.
LEMMA Shrink ==
    ASSUME NEW t \in Tasks, OnePlace(t), submitted \subseteq submitted',
           InQueue(t)' => InQueue(t),
           \A w \in Workers : InRetry(w, t)' => InRetry(w, t),
           \A w \in Workers : InStill(w, t)' => InStill(w, t),
           \A e \in Executors : InHand(e, t)' => InHand(e, t)
    PROVE  OnePlace(t)'
BY DEF OnePlace

\* A step that leaves every container alone, or empties a hand.
LEMMA Quiet ==
    ASSUME TypeOK, Exclusion, UNCHANGED <<queue, retryq, cursor, still>>,
           submitted \subseteq submitted',
           \A t \in Tasks, e \in Executors : InHand(e, t)' => InHand(e, t)
    PROVE  Exclusion'
<1>1. NoRepetition'
  BY DEF Exclusion, NoRepetition, QueueDistinct, RetryDistinct, StillDistinct
<1>2. ASSUME NEW t \in Tasks PROVE OnePlace(t)'
  <2>1. InQueue(t)' => InQueue(t)
    BY DEF InQueue
  <2>2. \A w \in Workers : (InRetry(w, t)' => InRetry(w, t)) /\ (InStill(w, t)' => InStill(w, t))
    BY DEF InRetry, InStill
  <2> QED
    BY <2>1, <2>2, Shrink DEF Exclusion
<1> QED
  BY <1>1, <1>2 DEF Exclusion

\* Emptying a hand, and filling one.
LEMMA EmptyHand ==
    ASSUME TypeOK, NEW e \in Executors, job' = [job EXCEPT ![e] = NoJob]
    PROVE  \A f \in Executors, t \in Tasks : InHand(f, t)' => InHand(f, t) /\ f # e
BY DEF TypeOK, InHand

LEMMA FillHand ==
    ASSUME TypeOK, NEW e \in Executors, NEW j \in Jobs, job' = [job EXCEPT ![e] = j]
    PROVE  \A f \in Executors, t \in Tasks :
                InHand(f, t)' <=> (f = e /\ t = j.id) \/ (f # e /\ InHand(f, t))
BY NoJobAssumption DEF TypeOK, InHand

\* Taking the oldest message from the queue.
LEMMA TakeQueue ==
    ASSUME TypeOK, QueueDistinct, queue # <<>>, queue' = Tail(queue),
           NEW h, h = Head(queue)
    PROVE  /\ QueueDistinct'
           /\ h \in Tasks /\ InQueue(h)
           /\ ~ InQueue(h)'
           /\ \A t \in Tasks : InQueue(t)' => InQueue(t)
<1>1. /\ Len(queue) \in Nat /\ Len(queue) > 0
      /\ Len(queue') = Len(queue) - 1
      /\ \A i \in 1..Len(queue') : queue'[i] = queue[i + 1] /\ i + 1 \in 1..Len(queue)
      /\ Head(queue) = queue[1]
  BY DEF TypeOK
<1>2. QueueDistinct'
  BY <1>1 DEF QueueDistinct
<1>3. InQueue(h)
  BY <1>1 DEF InQueue
<1>4. ASSUME NEW t \in Tasks, InQueue(t)' PROVE InQueue(t) /\ t # h
  <2>1. PICK i \in 1..Len(queue') : queue'[i] = t
    BY <1>4 DEF InQueue
  <2>2. i + 1 \in 1..Len(queue) /\ queue[i + 1] = t /\ i + 1 # 1
    BY <1>1, <2>1
  <2>3. 1 \in 1..Len(queue) /\ queue[1] = Head(queue)
    BY <1>1
  <2> QED
    BY <2>2, <2>3 DEF QueueDistinct, InQueue
<1>5. h \in Tasks
  BY DEF TypeOK
<1> QED
  BY <1>2, <1>3, <1>4, <1>5

\* The hand e takes a task m away from the place that held it.
LEMMA MoveToHand ==
    ASSUME TypeOK, Exclusion, NEW e \in Executors, NEW j \in Jobs,
           job[e] = NoJob, job' = [job EXCEPT ![e] = j],
           submitted \subseteq submitted', j.id \in submitted',
           \A f \in Executors : ~ InHand(f, j.id),
           ~ InQueue(j.id)',
           \A w \in Workers : ~ InRetry(w, j.id)' /\ ~ InStill(w, j.id)',
           \A t \in Tasks : InQueue(t)' => InQueue(t),
           \A t \in Tasks, w \in Workers : InRetry(w, t)' => InRetry(w, t),
           \A t \in Tasks, w \in Workers : InStill(w, t)' => InStill(w, t)
    PROVE  \A t \in Tasks : OnePlace(t)'
<1> SUFFICES ASSUME NEW t \in Tasks PROVE OnePlace(t)'
  OBVIOUS
<1>1. \A f \in Executors : InHand(f, t)' <=> (f = e /\ t = j.id) \/ (f # e /\ InHand(f, t))
  BY FillHand
<1>2. CASE t = j.id
  BY <1>1, <1>2 DEF OnePlace
<1>3. CASE t # j.id
  <2>1. \A f \in Executors : InHand(f, t)' => InHand(f, t)
    BY <1>1, <1>3
  <2>2. OnePlace(t)
    BY DEF Exclusion
  <2> QED
    BY <2>1, <2>2, Shrink
<1> QED
  BY <1>2, <1>3

\* schedule_retry: the hand e puts its task at the end of a retry queue.
LEMMA MoveToRetry ==
    ASSUME TypeOK, Exclusion, NEW e \in Executors, NEW p \in Processes, NEW r \in Jobs,
           InHand(e, r.id), job' = [job EXCEPT ![e] = NoJob],
           retryq' = [retryq EXCEPT ![p] = Append(@, r)],
           UNCHANGED <<submitted, queue, cursor, still>>
    PROVE  Exclusion'
<1>0. r.id \in Tasks /\ OnePlace(r.id)
  BY DEF Jobs, Exclusion
<1>1. \A t \in Tasks : InQueue(t)' <=> InQueue(t)
  BY DEF InQueue
<1>2. \A t \in Tasks, w \in Workers : InStill(w, t)' <=> InStill(w, t)
  BY DEF InStill
<1>3. \A f \in Executors, t \in Tasks : InHand(f, t)' => InHand(f, t) /\ f # e
  BY EmptyHand
<1>4. ASSUME NEW w \in Workers
      PROVE  /\ \A t \in Tasks : InRetry(w, t)' => InRetry(w, t) \/ (w = p /\ t = r.id)
             /\ RetryDistinct(w)'
  <2>0. w \in Processes /\ cursor[w] \in Nat
    BY ProcessAssumption DEF TypeOK
  <2>1. CASE w # p
    BY <2>0, <2>1 DEF TypeOK, InRetry, RetryDistinct, Exclusion, NoRepetition
  <2>2. CASE w = p
    <3>1. /\ Len(retryq[w]) \in Nat
          /\ Len(retryq'[w]) = Len(retryq[w]) + 1
          /\ \A i \in 1..Len(retryq[w]) : retryq'[w][i] = retryq[w][i]
          /\ retryq'[w][Len(retryq[w]) + 1] = r
          /\ cursor'[w] = cursor[w] /\ cursor[w] >= 1
      BY <2>0, <2>2 DEF TypeOK
    <3>2. ~ InRetry(w, r.id)
      BY <1>0 DEF OnePlace
    <3>3. RetryDistinct(w)
      BY DEF Exclusion, NoRepetition
    <3>4. \A i \in cursor[w]..Len(retryq[w]) : retryq[w][i].id # r.id
      BY <3>2 DEF InRetry
    <3>5. RetryDistinct(w)'
      BY <2>0, <3>1, <3>3, <3>4 DEF RetryDistinct
    <3>6. ASSUME NEW t \in Tasks, InRetry(w, t)', t # r.id PROVE InRetry(w, t)
      BY <2>0, <3>1, <3>6 DEF InRetry
    <3> QED
      BY <2>2, <3>5, <3>6
  <2> QED
    BY <2>1, <2>2
<1>5. NoRepetition'
  BY <1>4 DEF Exclusion, NoRepetition, QueueDistinct, StillDistinct
<1>6. ASSUME NEW t \in Tasks PROVE OnePlace(t)'
  <2>1. OnePlace(t)
    BY DEF Exclusion
  <2>2. CASE t = r.id
    BY <1>0, <1>1, <1>2, <1>3, <1>4, <2>2 DEF OnePlace
  <2>3. CASE t # r.id
    BY <1>1, <1>2, <1>3, <1>4, <2>1, <2>3, Shrink
  <2> QED
    BY <2>2, <2>3
<1> QED
  BY <1>5, <1>6 DEF Exclusion

\* The pass steps over the entry x at the cursor: the unvisited part loses it.
LEMMA StepCursor ==
    ASSUME TypeOK, Exclusion, NEW w \in Workers, NEW x,
           cursor[w] <= Len(retryq[w]), x = retryq[w][cursor[w]].id,
           cursor' = [cursor EXCEPT ![w] = @ + 1], retryq' = retryq
    PROVE  /\ x \in Tasks /\ InRetry(w, x)
           /\ \A v \in Workers : RetryDistinct(v)' /\ ~ InRetry(v, x)'
           /\ \A t \in Tasks, v \in Workers : InRetry(v, t)' => InRetry(v, t)
<1>0. /\ w \in Processes /\ cursor[w] \in Nat \ {0} /\ Len(retryq[w]) \in Nat
      /\ cursor[w] \in 1..Len(retryq[w]) /\ cursor'[w] = cursor[w] + 1
  BY ProcessAssumption DEF TypeOK
<1>1. x \in Tasks
  <2>1. retryq[w] \in Seq(Jobs)
    BY <1>0 DEF TypeOK
  <2>2. retryq[w][cursor[w]] \in Jobs
    BY <1>0, <2>1
  <2> QED
    BY <2>2 DEF Jobs
<1>2. InRetry(w, x)
  BY <1>0 DEF InRetry
<1>3. RetryDistinct(w)
  BY DEF Exclusion, NoRepetition
<1>4. ~ InRetry(w, x)'
  BY <1>0, <1>3 DEF InRetry, RetryDistinct
<1>5. \A v \in Workers : v # w => cursor'[v] = cursor[v]
  BY DEF TypeOK
<1>6. \A v \in Workers : v # w => ~ InRetry(v, x)
  BY <1>1, <1>2 DEF Exclusion, OnePlace
<1>7. \A v \in Workers : v # w => ~ InRetry(v, x)'
  BY <1>5, <1>6 DEF InRetry
<1>8. \A t \in Tasks, v \in Workers : InRetry(v, t)' => InRetry(v, t)
  BY <1>0, <1>5 DEF InRetry
<1>9. \A v \in Workers : RetryDistinct(v)'
  BY <1>0, <1>5 DEF RetryDistinct, Exclusion, NoRepetition
<1> QED
  BY <1>1, <1>2, <1>4, <1>7, <1>8, <1>9

\* The pass copies the entry at the cursor to still_pending.
LEMMA MoveToStill ==
    ASSUME TypeOK, Exclusion, NEW w \in Workers, PassSkip(w)
    PROVE  Exclusion'
<1> DEFINE entry == retryq[w][cursor[w]]
<1> PICK x : x = entry.id
  OBVIOUS
<1>0. /\ w \in Processes /\ entry \in Jobs
      /\ still' = [still EXCEPT ![w] = Append(@, entry)]
  BY ProcessAssumption DEF TypeOK, PassSkip
<1>1. /\ x \in Tasks /\ InRetry(w, x)
      /\ \A v \in Workers : RetryDistinct(v)' /\ ~ InRetry(v, x)'
      /\ \A t \in Tasks, v \in Workers : InRetry(v, t)' => InRetry(v, t)
  BY StepCursor DEF PassSkip
<1>2. \A t \in Tasks : InQueue(t)' <=> InQueue(t)
  BY DEF InQueue, PassSkip, taskVars
<1>3. \A f \in Executors, t \in Tasks : InHand(f, t)' <=> InHand(f, t)
  BY DEF InHand, PassSkip
<1>4. submitted' = submitted
  BY DEF PassSkip, taskVars
<1>5. OnePlace(x)
  BY <1>1 DEF Exclusion
<1>6. ASSUME NEW v \in Workers
      PROVE  /\ \A t \in Tasks : InStill(v, t)' => InStill(v, t) \/ (v = w /\ t = x)
             /\ StillDistinct(v)'
  <2>1. CASE v # w
    BY <1>0, <2>1 DEF TypeOK, InStill, StillDistinct, Exclusion, NoRepetition
  <2>2. CASE v = w
    <3>1. /\ Len(still[v]) \in Nat
          /\ Len(still'[v]) = Len(still[v]) + 1
          /\ \A i \in 1..Len(still[v]) : still'[v][i] = still[v][i]
          /\ still'[v][Len(still[v]) + 1].id = x
      BY <1>0, <2>2 DEF TypeOK
    <3>2. ~ InStill(v, x)
      BY <1>1, <1>5 DEF OnePlace
    <3>3. StillDistinct(v)
      BY DEF Exclusion, NoRepetition
    <3>4. \A i \in 1..Len(still[v]) : still[v][i].id # x
      BY <3>2 DEF InStill
    <3>5. \A i \in 1..Len(still'[v]) :
            \/ i \in 1..Len(still[v]) /\ still'[v][i] = still[v][i] /\ still'[v][i].id # x
            \/ i = Len(still'[v]) /\ still'[v][i].id = x
      BY <3>1, <3>4
    <3>6. StillDistinct(v)'
      BY <3>3, <3>5 DEF StillDistinct
    <3>7. ASSUME NEW t \in Tasks, InStill(v, t)', t # x PROVE InStill(v, t)
      <4>1. PICK i \in 1..Len(still'[v]) : still'[v][i].id = t
        BY <3>7 DEF InStill
      <4> QED
        BY <3>5, <3>7, <4>1 DEF InStill
    <3> QED
      BY <2>2, <3>6, <3>7
  <2> QED
    BY <2>1, <2>2
<1>7. NoRepetition'
  BY <1>1, <1>2, <1>4, <1>6 DEF Exclusion, NoRepetition, QueueDistinct, PassSkip, taskVars
<1>8. ASSUME NEW t \in Tasks PROVE OnePlace(t)'
  <2>1. OnePlace(t)
    BY DEF Exclusion
  <2>2. CASE t = x
    BY <1>1, <1>2, <1>3, <1>4, <1>5, <1>6, <2>2 DEF OnePlace
  <2>3. CASE t # x
    BY <1>1, <1>2, <1>3, <1>4, <1>6, <2>1, <2>3, Shrink
  <2> QED
    BY <2>2, <2>3
<1> QED
  BY <1>7, <1>8 DEF Exclusion

\* _retry_queue[:] = still_pending: what the pass did not visit is dropped.
LEMMA AssignStill ==
    ASSUME TypeOK, Exclusion, NEW w \in Workers, PassAssign(w)
    PROVE  Exclusion'
<1>0. /\ w \in Processes
      /\ retryq'[w] = still[w] /\ still'[w] = <<>> /\ cursor'[w] = 1
      /\ \A v \in Workers : v # w =>
            retryq'[v] = retryq[v] /\ still'[v] = still[v] /\ cursor'[v] = cursor[v]
  BY ProcessAssumption DEF TypeOK, PassAssign
<1>1. \A t \in Tasks : InQueue(t)' <=> InQueue(t)
  BY DEF InQueue, PassAssign, taskVars
<1>2. \A f \in Executors, t \in Tasks : InHand(f, t)' <=> InHand(f, t)
  BY DEF InHand, PassAssign
<1>3. \A t \in Tasks : (InRetry(w, t)' <=> InStill(w, t)) /\ ~ InStill(w, t)'
  BY <1>0 DEF InRetry, InStill
<1>4. \A t \in Tasks, v \in Workers : v # w =>
        (InRetry(v, t)' <=> InRetry(v, t)) /\ (InStill(v, t)' <=> InStill(v, t))
  BY <1>0 DEF InRetry, InStill
<1>5. submitted' = submitted
  BY DEF PassAssign, taskVars
<1>6. ASSUME NEW v \in Workers PROVE RetryDistinct(v)' /\ StillDistinct(v)'
  BY <1>0 DEF Exclusion, NoRepetition, RetryDistinct, StillDistinct
<1>7. NoRepetition'
  BY <1>6 DEF Exclusion, NoRepetition, QueueDistinct, PassAssign, taskVars
<1>8. ASSUME NEW t \in Tasks PROVE OnePlace(t)'
  <2>1. OnePlace(t)
    BY DEF Exclusion
  <2> QED
    BY <1>1, <1>2, <1>3, <1>4, <1>5, <2>1 DEF OnePlace
<1> QED
  BY <1>7, <1>8 DEF Exclusion

\* A process that dies only loses tasks.
LEMMA LoseMemoryExclusion ==
    ASSUME TypeOK, Exclusion, NEW p \in Processes, NEW label, LoseMemory(p, label),
           submitted' = submitted
    PROVE  Exclusion'
<1>1. \A w \in Workers :
        \/ /\ w = p /\ retryq'[w] = <<>> /\ still'[w] = <<>> /\ cursor'[w] = 1
        \/ retryq'[w] = retryq[w] /\ still'[w] = still[w] /\ cursor'[w] = cursor[w]
  BY ProcessAssumption DEF TypeOK, LoseMemory
<1>2. queue' = <<>> \/ queue' = queue
  BY DEF LoseMemory
<1>3. \A t \in Tasks : InQueue(t)' => InQueue(t)
  BY <1>2 DEF InQueue
<1>4. \A t \in Tasks, w \in Workers : InRetry(w, t)' => InRetry(w, t)
  BY <1>1 DEF InRetry
<1>5. \A t \in Tasks, w \in Workers : InStill(w, t)' => InStill(w, t)
  BY <1>1 DEF InStill
<1>6. \A t \in Tasks, e \in Executors : InHand(e, t)' => InHand(e, t)
  BY DEF InHand, LoseMemory
<1>7. QueueDistinct'
  BY <1>2 DEF Exclusion, NoRepetition, QueueDistinct
<1>8. ASSUME NEW w \in Workers PROVE RetryDistinct(w)' /\ StillDistinct(w)'
  <2>1. RetryDistinct(w) /\ StillDistinct(w)
    BY DEF Exclusion, NoRepetition
  <2>2. CASE retryq'[w] = <<>> /\ still'[w] = <<>> /\ cursor'[w] = 1
    BY <2>2 DEF RetryDistinct, StillDistinct
  <2>3. CASE retryq'[w] = retryq[w] /\ still'[w] = still[w] /\ cursor'[w] = cursor[w]
    BY <2>1, <2>3 DEF RetryDistinct, StillDistinct
  <2> QED
    BY <1>1, <2>2, <2>3
<1> QED
  BY <1>3, <1>4, <1>5, <1>6, <1>7, <1>8, Shrink DEF Exclusion, NoRepetition

\* The messages, the retry entries and the hands of the executors never hold
\* one task twice.
THEOREM ExclusionInvariant == Spec => []Exclusion
<1>1. Init => Exclusion
  <2> SUFFICES ASSUME Init PROVE Exclusion
    OBVIOUS
  <2>1. /\ queue = <<>>
        /\ \A w \in Workers : retryq[w] = <<>> /\ still[w] = <<>> /\ cursor[w] = 1
        /\ \A e \in Executors : job[e] = NoJob
    BY ProcessAssumption DEF Init
  <2>2. NoRepetition
    BY <2>1 DEF NoRepetition, QueueDistinct, RetryDistinct, StillDistinct
  <2>3. ASSUME NEW t \in Tasks PROVE OnePlace(t)
    <3>1. ~ InQueue(t) /\ \A e \in Executors : ~ InHand(e, t)
      BY <2>1 DEF InQueue, InHand
    <3>2. \A w \in Workers : ~ InRetry(w, t) /\ ~ InStill(w, t)
      BY <2>1 DEF InRetry, InStill
    <3> QED
      BY <3>1, <3>2 DEF OnePlace
  <2> QED
    BY <2>2, <2>3 DEF Exclusion
<1>2. TypeInv /\ Exclusion /\ [Next]_vars => Exclusion'
  <2> SUFFICES ASSUME TypeInv, Exclusion, [Next]_vars PROVE Exclusion'
    OBVIOUS
  <2> USE DEF TypeInv
  <2>0. Pool \subseteq Executors /\ Workers \subseteq Executors /\ Workers \subseteq Processes
    BY ProcessAssumption DEF Executors
  <2>1. ASSUME NEW t \in Tasks, Enqueue(t) PROVE Exclusion'
    <3>1. /\ Len(queue) \in Nat /\ Len(queue') = Len(queue) + 1
          /\ \A i \in 1..Len(queue) : queue'[i] = queue[i]
          /\ queue'[Len(queue) + 1] = t
      BY <2>1 DEF TypeOK, Enqueue
    <3>2. ~ InQueue(t) /\ \A w \in Workers : ~ InRetry(w, t) /\ ~ InStill(w, t)
      BY <2>1 DEF Enqueue, Exclusion, OnePlace
    <3>3. \A e \in Executors : ~ InHand(e, t)
      BY <2>1 DEF Enqueue, Exclusion, OnePlace
    <3>4. \A u \in Tasks : InQueue(u)' => InQueue(u) \/ u = t
      BY <3>1 DEF InQueue
    <3>5. \A u \in Tasks, w \in Workers : /\ InRetry(w, u)' <=> InRetry(w, u)
                                          /\ InStill(w, u)' <=> InStill(w, u)
      BY <2>1 DEF InRetry, InStill, Enqueue, passVars
    <3>6. \A u \in Tasks, e \in Executors : InHand(e, u)' <=> InHand(e, u)
      BY <2>1 DEF InHand, Enqueue
    <3>7. submitted' = submitted \cup {t}
      BY <2>1 DEF Enqueue
    <3>8. \A i \in 1..Len(queue) : queue[i] # t
      BY <3>2 DEF InQueue
    <3>9. QueueDistinct'
      BY <3>1, <3>8 DEF QueueDistinct, Exclusion, NoRepetition
    <3>10. NoRepetition'
      BY <2>1, <3>9
      DEF Exclusion, NoRepetition, RetryDistinct, StillDistinct, Enqueue, passVars
    <3>11. ASSUME NEW u \in Tasks PROVE OnePlace(u)'
      <4>1. CASE u = t
        BY <3>2, <3>3, <3>5, <3>6, <3>7, <4>1 DEF OnePlace
      <4>2. CASE u # t
        BY <3>4, <3>5, <3>6, <3>7, <4>2, Shrink DEF Exclusion
      <4> QED
        BY <4>1, <4>2
    <3> QED
      BY <3>10, <3>11 DEF Exclusion
  <2>2. ASSUME NEW t \in Tasks, Expire(t) PROVE Exclusion'
    BY <2>2, Quiet DEF Expire, taskVars, passVars, InHand
  <2>3. ASSUME NEW e \in Executors, NEW label, queue # <<>>, queue' = Tail(queue),
               job[e] = NoJob, Enter(e, [id |-> Head(queue), attempt |-> 0], label),
               UNCHANGED <<submitted, retryq, passVars>>
        PROVE  Exclusion'
    <3> PICK h : h = Head(queue)
      OBVIOUS
    <3>1. PICK j \in Jobs : j = [id |-> h, attempt |-> 0]
      BY <2>3 DEF TypeOK, Jobs
    <3>2. /\ h \in Tasks /\ QueueDistinct' /\ InQueue(h) /\ ~ InQueue(h)'
          /\ \A t \in Tasks : InQueue(t)' => InQueue(t)
      BY <2>3, TakeQueue DEF Exclusion, NoRepetition
    <3>3. \A t \in Tasks, w \in Workers : /\ InRetry(w, t)' <=> InRetry(w, t)
                                          /\ InStill(w, t)' <=> InStill(w, t)
      BY <2>3 DEF InRetry, InStill, passVars
    <3>4. NoRepetition'
      BY <2>3, <3>2
      DEF Exclusion, NoRepetition, RetryDistinct, StillDistinct, passVars
    <3>5. /\ h \in submitted
          /\ \A w \in Workers : ~ InRetry(w, h) /\ ~ InStill(w, h)
          /\ \A f \in Executors : ~ InHand(f, h)
      BY <3>2 DEF Exclusion, OnePlace
    <3>6. j.id = h /\ job' = [job EXCEPT ![e] = j] /\ submitted' = submitted
      BY <2>3, <3>1 DEF Enter
    <3>7. \A t \in Tasks : OnePlace(t)'
      BY <2>3, <3>2, <3>3, <3>5, <3>6, MoveToHand
    <3> QED
      BY <3>4, <3>7 DEF Exclusion
  <2>4. ASSUME NEW e \in Pool, PoolTake(e) PROVE Exclusion'
    <3>1. job[e] = NoJob
      BY <2>0, <2>4 DEF HandsOK, PoolTake, Executing
    <3> QED
      BY <2>0, <2>3, <2>4, <3>1 DEF PoolTake
  <2>5. ASSUME NEW e \in Pool, NEW t \in Tasks, Call(e, t) PROVE Exclusion'
    <3>1. PICK j \in Jobs : j = [id |-> t, attempt |-> 0]
      BY DEF Jobs
    <3>2. job[e] = NoJob /\ e \in Executors
      BY <2>0, <2>5 DEF HandsOK, Call, Executing
    <3>3. /\ ~ InQueue(t) /\ \A w \in Workers : ~ InRetry(w, t) /\ ~ InStill(w, t)
          /\ \A f \in Executors : ~ InHand(f, t)
      BY <2>5 DEF Call, Exclusion, OnePlace
    <3>4. /\ \A u \in Tasks, w \in Workers : /\ InRetry(w, u)' <=> InRetry(w, u)
                                             /\ InStill(w, u)' <=> InStill(w, u)
          /\ \A u \in Tasks : InQueue(u)' <=> InQueue(u)
      BY <2>5 DEF InRetry, InStill, InQueue, Call, passVars
    <3>5. j.id = t /\ job' = [job EXCEPT ![e] = j] /\ submitted' = submitted \cup {t}
      BY <2>5, <3>1 DEF Call, Enter
    <3>6. \A u \in Tasks : OnePlace(u)'
      BY <3>2, <3>3, <3>4, <3>5, MoveToHand
    <3>7. NoRepetition'
      BY <2>5 DEF Exclusion, NoRepetition, QueueDistinct, RetryDistinct, StillDistinct,
                  Call, passVars
    <3> QED
      BY <3>6, <3>7 DEF Exclusion
  <2>6. ASSUME NEW e \in Executors, Execute(e) PROVE Exclusion'
    <3> USE DEF taskVars, passVars
    <3>0. ASSUME job' = job \/ job' = [job EXCEPT ![e] = NoJob],
                 UNCHANGED <<taskVars, retryq, passVars>>
          PROVE  Exclusion'
      <4>1. \A t \in Tasks, f \in Executors : InHand(f, t)' => InHand(f, t)
        BY <3>0, EmptyHand DEF InHand
      <4> QED
        BY <3>0, <4>1, Quiet
    <3>1. CASE ExecuteUnknown(e)
      BY <3>0, <3>1 DEF ExecuteUnknown, Raise
    <3>2. CASE ExecuteStart(e)
      BY <3>0, <3>2 DEF ExecuteStart
    <3>3. CASE ExecuteFunction(e)
      BY <3>0, <3>3 DEF ExecuteFunction
    <3>4. CASE ExecuteRetry(e)
      BY <3>0, <3>4 DEF ExecuteRetry
    <3>5. CASE ScheduleRetry(e)
      <4>1. job[e] \in Jobs /\ ProcessOf(e) \in Processes
        BY <3>5, ProcessOfType DEF TypeOK, HandsOK, ScheduleRetry, Executing
      <4>2. PICK r \in Jobs : r = [id |-> job[e].id, attempt |-> job[e].attempt + 1]
        <5>1. job[e].id \in Tasks /\ job[e].attempt + 1 \in Nat
          BY <4>1 DEF Jobs
        <5>2. [id |-> job[e].id, attempt |-> job[e].attempt + 1] \in Jobs
          BY <5>1 DEF Jobs
        <5> QED
          BY <5>2
      <4>3. PICK p \in Processes : p = ProcessOf(e)
        BY <4>1
      <4>4. InHand(e, r.id)
        BY <4>1, <4>2, NoJobAssumption DEF InHand
      <4> QED
        BY <3>5, <4>2, <4>3, <4>4, MoveToRetry DEF ScheduleRetry, Return
    <3>6. CASE ExecuteFailed(e)
      BY <3>0, <3>6 DEF ExecuteFailed, Return
    <3>7. CASE ExecuteSuccess(e)
      BY <3>0, <3>7 DEF ExecuteSuccess
    <3>8. CASE ExecutePostrun(e)
      BY <3>0, <3>8 DEF ExecutePostrun, Return
    <3>9. CASE ExecuteRaises(e)
      BY <3>0, <3>9 DEF ExecuteRaises, Raise
    <3> QED
      BY <2>6, <3>1, <3>2, <3>3, <3>4, <3>5, <3>6, <3>7, <3>8 DEF Execute
  <2>7. ASSUME NEW e \in Executors, ExecuteRaises(e) PROVE Exclusion'
    <3>1. \A t \in Tasks, f \in Executors : InHand(f, t)' => InHand(f, t)
      BY <2>7, EmptyHand DEF ExecuteRaises, Raise
    <3> QED
      BY <2>7, <3>1, Quiet DEF ExecuteRaises, taskVars, passVars
  <2>8. ASSUME NEW w \in Workers, Loop(w) PROVE Exclusion'
    <3> USE DEF taskVars, passVars
    <3>1. CASE LoopStart(w) \/ LoopEnd(w) \/ PassDone(w) \/ DequeueEmpty(w)
      BY <3>1, Quiet DEF LoopStart, LoopEnd, PassDone, DequeueEmpty, InHand
    <3>2. CASE PassTake(w)
      <4> PICK x : x = retryq[w][cursor[w]].id
        OBVIOUS
      <4>1. /\ x \in Tasks /\ InRetry(w, x)
            /\ \A v \in Workers : RetryDistinct(v)' /\ ~ InRetry(v, x)'
            /\ \A t \in Tasks, v \in Workers : InRetry(v, t)' => InRetry(v, t)
        BY <3>2, StepCursor DEF PassTake
      <4>2. PICK j \in Jobs : j = retryq[w][cursor[w]]
        BY <2>0, <3>2 DEF TypeOK, PassTake
      <4>3. job[w] = NoJob /\ w \in Executors
        BY <2>0, <3>2 DEF HandsOK, PassTake, Executing
      <4>4. /\ \A t \in Tasks : InQueue(t)' <=> InQueue(t)
            /\ \A t \in Tasks, v \in Workers : InStill(v, t)' <=> InStill(v, t)
        BY <3>2 DEF InQueue, InStill, PassTake
      <4>5. /\ x \in submitted /\ ~ InQueue(x)
            /\ \A v \in Workers : ~ InStill(v, x)
            /\ \A f \in Executors : ~ InHand(f, x)
        BY <4>1 DEF Exclusion, OnePlace
      <4>6. j.id = x /\ job' = [job EXCEPT ![w] = j] /\ submitted' = submitted
        BY <3>2, <4>2 DEF PassTake, Enter
      <4>7. \A t \in Tasks : OnePlace(t)'
        BY <4>1, <4>3, <4>4, <4>5, <4>6, MoveToHand
      <4>8. NoRepetition'
        BY <3>2, <4>1 DEF Exclusion, NoRepetition, QueueDistinct, StillDistinct, PassTake
      <4> QED
        BY <4>7, <4>8 DEF Exclusion
    <3>3. CASE PassSkip(w)
      BY <3>3, MoveToStill
    <3>4. CASE PassAssign(w)
      BY <3>4, AssignStill
    <3>5. CASE Dequeue(w)
      <4>1. job[w] = NoJob
        BY <2>0, <3>5 DEF HandsOK, Dequeue, Executing
      <4> QED
        BY <2>0, <2>3, <3>5, <4>1 DEF Dequeue
    <3> QED
      BY <2>8, <3>1, <3>2, <3>3, <3>4, <3>5 DEF Loop
  <2>9. ASSUME NEW w \in Workers, Stop(w) PROVE Exclusion'
    BY <2>9, Quiet DEF Stop, taskVars, passVars, InHand
  <2>10. ASSUME NEW w \in Workers, Restart(w) PROVE Exclusion'
    BY <2>0, <2>10, LoseMemoryExclusion DEF Restart
  <2>11. ASSUME NEW p \in Processes, Crash(p) PROVE Exclusion'
    BY <2>11, LoseMemoryExclusion DEF Crash
  <2>12. CASE UNCHANGED vars
    BY <2>12, Quiet DEF vars, InHand
  <2> QED
    BY <2>1, <2>2, <2>4, <2>5, <2>6, <2>7, <2>8, <2>9, <2>10, <2>11, <2>12 DEF Next
<1> QED
  BY <1>1, <1>2, TypeInvariant, PTL DEF Spec

\* No two executors hold the same task id, under every fault.
THEOREM ExclusiveExecutionHolds == Spec => []ExclusiveExecution
<1>1. TypeInv /\ Exclusion => ExclusiveExecution
  <2> SUFFICES ASSUME TypeInv, Exclusion, NEW e \in Executors, NEW f \in Executors,
                      e # f, job[e] # NoJob, job[f] # NoJob, job[e].id = job[f].id
               PROVE  FALSE
    BY DEF ExclusiveExecution
  <2>1. PICK t \in Tasks : t = job[e].id
    BY DEF TypeInv, TypeOK, Jobs
  <2> QED
    BY <2>1 DEF Exclusion, OnePlace, InHand
<1> QED
  BY <1>1, TypeInvariant, ExclusionInvariant, PTL

-----------------------------------------------------------------------------
\* Attempts are counted

\* t is about to begin its attempt a: it has run a times, has an attempt left
\* and no final result.
Ready(t, a) ==
    /\ runs[t] = a
    /\ a <= MaxRetries[t]
    /\ status[t] \in {"PENDING", "RETRY"}

QueueReady == \A i \in 1..Len(queue) : Ready(queue[i], 0)
RetryReady(w) == \A i \in cursor[w]..Len(retryq[w]) :
    Ready(retryq[w][i].id, retryq[w][i].attempt)
StillReady(w) == \A i \in 1..Len(still[w]) : Ready(still[w][i].id, still[w][i].attempt)

\* The results a task may have while an executor is at a label.
ResultAt(label) ==
    {"PENDING"} \cup
    CASE label = "retry" -> {"RETRY"}
      [] label = "postrun" -> {"SUCCESS"}
      [] OTHER -> {"STARTED"}

\* The executor e at label with job j: before the function is entered the
\* attempt is still to be counted, afterwards it has been.
Fits(e, label, j) ==
    \/ /\ label = "begin"
       /\ Ready(j.id, j.attempt)
       /\ j.attempt = 0 \/ j.id \in Registry[ProcessOf(e)]
    \/ /\ label # "begin"
       /\ runs[j.id] = j.attempt + 1
       /\ j.attempt <= MaxRetries[j.id]
       /\ label = "retry" => j.attempt < MaxRetries[j.id]
       /\ status[j.id] \in ResultAt(label)

HandFits(e) == job[e] # NoJob => Fits(e, pc[e], job[e])

Untouched == \A t \in Tasks \ submitted : runs[t] = 0 /\ status[t] = "PENDING"

AttemptInv ==
    /\ AttemptsBounded
    /\ FailedMeansExhausted
    /\ Untouched
    /\ QueueReady
    /\ \A w \in Workers : RetryReady(w) /\ StillReady(w)
    /\ \A e \in Executors : HandFits(e)

\* A step of e that changes the result and the count of its own task m only.
LEMMA OthersReady ==
    ASSUME TypeInv, Exclusion, AttemptInv, NEW e \in Executors, NEW m \in Tasks,
           InHand(e, m), UNCHANGED <<submitted, queue, retryq, cursor, still>>,
           \A t \in Tasks : t # m => status'[t] = status[t] /\ runs'[t] = runs[t]
    PROVE  /\ Untouched'
           /\ QueueReady'
           /\ \A w \in Workers : RetryReady(w)' /\ StillReady(w)'
           /\ \A f \in Executors :
                f # e /\ job'[f] = job[f] /\ pc'[f] = pc[f] => HandFits(f)'
<1> USE DEF TypeInv
<1>0. /\ m \in submitted /\ ~ InQueue(m)
      /\ \A w \in Workers : ~ InRetry(w, m) /\ ~ InStill(w, m)
      /\ \A f \in Executors : f # e => ~ InHand(f, m)
  BY DEF Exclusion, OnePlace
<1>1. \A t \in Tasks, a \in Nat : t # m /\ Ready(t, a) => Ready(t, a)'
  BY DEF Ready
<1>2. Untouched'
  BY <1>0 DEF Untouched, AttemptInv
<1>3. QueueReady'
  <2> SUFFICES ASSUME NEW i \in 1..Len(queue) PROVE Ready(queue[i], 0)'
    BY DEF QueueReady
  <2>1. PICK t \in Tasks : t = queue[i]
    BY DEF TypeOK
  <2>2. t # m /\ Ready(t, 0)
    BY <1>0, <2>1 DEF InQueue, AttemptInv, QueueReady
  <2> QED
    BY <1>1, <2>1, <2>2
<1>4. ASSUME NEW w \in Workers PROVE RetryReady(w)'
  <2>0. w \in Processes /\ cursor[w] \in Nat \ {0} /\ retryq[w] \in Seq(Jobs)
    BY ProcessAssumption DEF TypeOK
  <2> SUFFICES ASSUME NEW i \in cursor[w]..Len(retryq[w])
               PROVE  Ready(retryq[w][i].id, retryq[w][i].attempt)'
    BY DEF RetryReady
  <2>1. PICK j \in Jobs : j = retryq[w][i]
    BY <2>0
  <2>2. j.id \in Tasks /\ j.attempt \in Nat
    BY DEF Jobs
  <2>3. j.id # m /\ Ready(j.id, j.attempt)
    BY <1>0, <2>1 DEF InRetry, AttemptInv, RetryReady
  <2> QED
    BY <1>1, <2>1, <2>2, <2>3
<1>5. ASSUME NEW w \in Workers PROVE StillReady(w)'
  <2>0. still[w] \in Seq(Jobs)
    BY DEF TypeOK
  <2> SUFFICES ASSUME NEW i \in 1..Len(still[w])
               PROVE  Ready(still[w][i].id, still[w][i].attempt)'
    BY DEF StillReady
  <2>1. PICK j \in Jobs : j = still[w][i]
    BY <2>0
  <2>2. j.id \in Tasks /\ j.attempt \in Nat
    BY DEF Jobs
  <2>3. j.id # m /\ Ready(j.id, j.attempt)
    BY <1>0, <2>1 DEF InStill, AttemptInv, StillReady
  <2> QED
    BY <1>1, <2>1, <2>2, <2>3
<1>6. ASSUME NEW f \in Executors, f # e, job'[f] = job[f], pc'[f] = pc[f], job[f] # NoJob
      PROVE  Fits(f, pc[f], job[f])'
  <2>1. PICK j \in Jobs : j = job[f]
    BY <1>6 DEF TypeOK
  <2>2. j.id \in Tasks /\ j.attempt \in Nat
    BY DEF Jobs
  <2>3. j.id # m
    BY <1>0, <1>6, <2>1 DEF InHand
  <2>4. Fits(f, pc[f], j)
    BY <1>6, <2>1 DEF AttemptInv, HandFits
  <2>5. PICK label \in PCs : label = pc[f]
    BY DEF TypeOK
  <2>6. Fits(f, label, j)'
    BY <1>1, <2>2, <2>3, <2>4, <2>5 DEF Fits
  <2> QED
    BY <1>6, <2>1, <2>5, <2>6
<1> QED
  BY <1>2, <1>3, <1>4, <1>5, <1>6 DEF HandFits

\* A step that changes no result and no count: what stays where it was, and
\* every hand the step does not touch, still fits.
LEMMA SameResults ==
    ASSUME TypeInv, AttemptInv, UNCHANGED <<status, runs>>, submitted \subseteq submitted'
    PROVE  /\ AttemptsBounded' /\ FailedMeansExhausted' /\ Untouched'
           /\ \A t \in Tasks, a \in Nat : Ready(t, a) => Ready(t, a)'
           /\ queue' = queue => QueueReady'
           /\ \A w \in Workers : retryq'[w] = retryq[w] /\ cursor'[w] = cursor[w] => RetryReady(w)'
           /\ \A w \in Workers : still'[w] = still[w] => StillReady(w)'
           /\ \A e \in Executors : job'[e] = NoJob => HandFits(e)'
           /\ \A e \in Executors : job'[e] = job[e] /\ pc'[e] = pc[e] => HandFits(e)'
<1>1. AttemptsBounded' /\ FailedMeansExhausted' /\ Untouched'
  BY DEF AttemptInv, AttemptsBounded, FailedMeansExhausted, Untouched
<1>2. \A t \in Tasks, a \in Nat : Ready(t, a) => Ready(t, a)'
  BY DEF Ready
<1>3. queue' = queue => QueueReady'
  BY DEF AttemptInv, QueueReady, Ready
<1>4. \A w \in Workers : retryq'[w] = retryq[w] /\ cursor'[w] = cursor[w] => RetryReady(w)'
  BY DEF AttemptInv, RetryReady, Ready
<1>5. \A w \in Workers : still'[w] = still[w] => StillReady(w)'
  BY DEF AttemptInv, StillReady, Ready
<1>6. \A e \in Executors : job'[e] = NoJob => HandFits(e)'
  BY DEF HandFits
<1>7. \A e \in Executors : job'[e] = job[e] /\ pc'[e] = pc[e] => HandFits(e)'
  BY DEF AttemptInv, HandFits, Fits, Ready
<1> QED
  BY <1>1, <1>2, <1>3, <1>4, <1>5, <1>6, <1>7

\* A hand that takes the job j fits if j is ready for it.
LEMMA TakenFits ==
    ASSUME TypeInv, AttemptInv, UNCHANGED <<status, runs>>, NEW e \in Executors,
           NEW j \in Jobs, NEW label, Enter(e, j, label), Ready(j.id, j.attempt),
           j.attempt = 0 \/ j.id \in Registry[ProcessOf(e)]
    PROVE  \A f \in Executors : HandFits(f)'
<1> SUFFICES ASSUME NEW f \in Executors PROVE HandFits(f)'
  OBVIOUS
<1>1. CASE f # e
  <2>1. job'[f] = job[f] /\ pc'[f] = pc[f]
    BY <1>1 DEF TypeInv, TypeOK, Enter, Goto
  <2> QED
    BY <2>1, SameResults DEF AttemptInv, HandFits, Fits, Ready
<1>2. CASE f = e
  <2>1. job'[f] = j /\ pc'[f] = "begin"
    BY <1>2 DEF TypeInv, TypeOK, Enter, Goto
  <2> QED
    BY <1>2, <2>1 DEF HandFits, Fits, Ready
<1> QED
  BY <1>1, <1>2

\* A step of execute_task counts its attempt correctly.
LEMMA ExecuteAttempts ==
    ASSUME TypeInv, Exclusion, AttemptInv, NEW e \in Executors, Execute(e)
    PROVE  AttemptInv'
<1> USE DEF taskVars, passVars, resultVars, Goto, Store
<1>0. pc[e] \in Executing
  BY DEF Execute, ExecuteUnknown, ExecuteStart, ExecuteFunction, ExecuteRetry, ScheduleRetry,
         ExecuteFailed, ExecuteSuccess, ExecutePostrun, Executing
<1>1. PICK j \in Jobs : j = job[e]
  BY <1>0 DEF TypeInv, TypeOK, HandsOK
<1>2. PICK m \in Tasks : m = j.id
  BY DEF Jobs
<1>3. j.attempt \in Nat /\ InHand(e, m) /\ job[e] # NoJob
  BY <1>0, <1>1, <1>2 DEF Jobs, InHand, TypeInv, HandsOK
<1>4. Fits(e, pc[e], j)
  BY <1>1, <1>3 DEF AttemptInv, HandFits
<1>5. /\ MaxRetries[m] \in Nat /\ runs \in [Tasks -> Nat] /\ status \in [Tasks -> Statuses]
      /\ pc \in [Executors -> PCs] /\ job \in [Executors -> Jobs \cup {NoJob}]
      /\ ProcessOf(e) \in Processes
  BY RetryAssumption, ProcessOfType DEF TypeInv, TypeOK
\* What every step of e leaves to be shown.
<1>6. ASSUME UNCHANGED <<submitted, queue, retryq, cursor, still>>,
             \A t \in Tasks : t # m => status'[t] = status[t] /\ runs'[t] = runs[t],
             \A f \in Executors : f # e => job'[f] = job[f] /\ pc'[f] = pc[f],
             HandFits(e)',
             runs'[m] <= MaxRetries[m] + 1,
             status'[m] = "FAILED" =>
                \/ runs'[m] = MaxRetries[m] + 1
                \/ runs'[m] = 0 /\ \E p \in Processes : m \notin Registry[p]
      PROVE  AttemptInv'
  <2>1. /\ Untouched' /\ QueueReady'
        /\ \A w \in Workers : RetryReady(w)' /\ StillReady(w)'
        /\ \A f \in Executors : f # e /\ job'[f] = job[f] /\ pc'[f] = pc[f] => HandFits(f)'
    BY <1>3, <1>6, OthersReady
  <2>2. \A f \in Executors : HandFits(f)'
    BY <1>6, <2>1
  <2>3. AttemptsBounded'
    BY <1>6 DEF AttemptInv, AttemptsBounded
  <2>4. FailedMeansExhausted'
    BY <1>6 DEF AttemptInv, FailedMeansExhausted
  <2> QED
    BY <2>1, <2>2, <2>3, <2>4 DEF AttemptInv
<1>7. runs[m] <= MaxRetries[m] + 1
  BY DEF AttemptInv, AttemptsBounded
<1>8. CASE ExecuteUnknown(e)
  <2>1. /\ pc[e] = "begin" /\ m \notin Registry[ProcessOf(e)]
        /\ status' = [status EXCEPT ![m] = "FAILED"] /\ runs' = runs
        /\ job'[e] = NoJob
        /\ \A f \in Executors : f # e => job'[f] = job[f] /\ pc'[f] = pc[f]
        /\ UNCHANGED <<submitted, queue, retryq, cursor, still>>
    BY <1>1, <1>2, <1>5, <1>8 DEF ExecuteUnknown, Raise
  <2>2. runs[m] = 0
    BY <1>2, <1>4, <2>1 DEF Fits, Ready
  <2>3. HandFits(e)'
    BY <2>1 DEF HandFits
  <2> QED
    BY <1>5, <1>6, <1>7, <2>1, <2>2, <2>3
<1>9. CASE ExecuteStart(e)
  <2>1. /\ pc[e] = "begin" /\ job' = job /\ pc'[e] = "func"
        /\ status' = [status EXCEPT ![m] = "STARTED"]
        /\ runs' = [runs EXCEPT ![m] = @ + 1]
        /\ \A f \in Executors : f # e => job'[f] = job[f] /\ pc'[f] = pc[f]
        /\ UNCHANGED <<submitted, queue, retryq, cursor, still>>
    BY <1>1, <1>2, <1>5, <1>9 DEF ExecuteStart
  <2>2. runs[m] = j.attempt /\ j.attempt <= MaxRetries[m]
    BY <1>2, <1>4, <2>1 DEF Fits, Ready
  <2>3. /\ runs'[m] = j.attempt + 1 /\ status'[m] = "STARTED"
        /\ \A t \in Tasks : t # m => status'[t] = status[t] /\ runs'[t] = runs[t]
    BY <1>5, <2>1, <2>2
  <2>4. HandFits(e)'
    BY <1>1, <1>2, <2>1, <2>2, <2>3 DEF HandFits, Fits, ResultAt
  <2>5. runs'[m] <= MaxRetries[m] + 1
    BY <1>3, <1>5, <2>2, <2>3
  <2> QED
    BY <1>6, <2>1, <2>3, <2>4, <2>5
<1>10. CASE ExecuteFunction(e)
  <2>1. /\ pc[e] = "func" /\ job' = job /\ pc'[e] \in {"succeeded", "failed"}
        /\ UNCHANGED <<status, runs, submitted, queue, retryq, cursor, still>>
        /\ \A f \in Executors : f # e => job'[f] = job[f] /\ pc'[f] = pc[f]
    BY <1>5, <1>10 DEF ExecuteFunction
  <2>2. HandFits(e)'
    BY <1>1, <1>2, <1>4, <2>1 DEF HandFits, Fits, ResultAt
  <2> QED
    BY <1>6, <1>7, <2>1, <2>2 DEF AttemptInv, FailedMeansExhausted
<1>11. CASE ExecuteRetry(e)
  <2>1. /\ pc[e] = "failed" /\ job' = job /\ pc'[e] = "retry"
        /\ status' = [status EXCEPT ![m] = "RETRY"] /\ runs' = runs
        /\ j.attempt < MaxRetries[m]
        /\ UNCHANGED <<submitted, queue, retryq, cursor, still>>
        /\ \A f \in Executors : f # e => job'[f] = job[f] /\ pc'[f] = pc[f]
    BY <1>1, <1>2, <1>5, <1>11 DEF ExecuteRetry
  <2>2. HandFits(e)'
    BY <1>1, <1>2, <1>3, <1>4, <1>5, <2>1 DEF HandFits, Fits, ResultAt
  <2>3. status'[m] = "RETRY" /\ \A t \in Tasks : t # m => status'[t] = status[t]
    BY <1>5, <2>1
  <2> QED
    BY <1>6, <1>7, <2>1, <2>2, <2>3
<1>12. CASE ScheduleRetry(e)
  <2>1. /\ pc[e] = "retry" /\ job'[e] = NoJob
        /\ \A f \in Executors : f # e => job'[f] = job[f] /\ pc'[f] = pc[f]
        /\ UNCHANGED <<status, runs, submitted, queue, cursor, still>>
        /\ retryq' = [retryq EXCEPT ![ProcessOf(e)] =
                        Append(@, [id |-> m, attempt |-> j.attempt + 1])]
    BY <1>1, <1>2, <1>5, <1>12 DEF ScheduleRetry, Return
  <2>2. runs[m] = j.attempt + 1 /\ j.attempt + 1 <= MaxRetries[m] /\ status[m] \in {"PENDING", "RETRY"}
    BY <1>2, <1>3, <1>4, <1>5, <2>1 DEF Fits, ResultAt
  <2>3. Ready(m, j.attempt + 1)'
    BY <2>1, <2>2 DEF Ready
  <2>4. ASSUME NEW w \in Workers PROVE RetryReady(w)'
    <3>0. w \in Processes /\ cursor[w] \in Nat \ {0} /\ retryq[w] \in Seq(Jobs) /\ cursor' = cursor
      BY <2>1, ProcessAssumption DEF TypeInv, TypeOK
    <3>1. CASE w # ProcessOf(e)
      BY <2>1, <3>0, <3>1, SameResults DEF TypeInv, TypeOK
    <3>2. CASE w = ProcessOf(e)
      <4>1. \A i \in 1..Len(retryq'[w]) :
                \/ i \in 1..Len(retryq[w]) /\ retryq'[w][i] = retryq[w][i]
                \/ retryq'[w][i] = [id |-> m, attempt |-> j.attempt + 1]
        BY <2>1, <3>0, <3>2 DEF TypeInv, TypeOK
      <4>2. \A i \in cursor[w]..Len(retryq'[w]) : i \in 1..Len(retryq'[w])
        <5>1. Len(retryq'[w]) \in Nat
          BY <2>1, <3>0, <3>2 DEF TypeInv, TypeOK
        <5> QED
          BY <3>0, <5>1
      <4>3. \A i \in cursor[w]..Len(retryq[w]) : Ready(retryq[w][i].id, retryq[w][i].attempt)
        BY DEF AttemptInv, RetryReady
      <4> QED
        BY <2>1, <2>3, <3>0, <4>1, <4>2, <4>3 DEF RetryReady, Ready
    <3> QED
      BY <3>1, <3>2
  <2>5. \A f \in Executors : HandFits(f)'
    BY <2>1, SameResults
  <2> QED
    BY <2>1, <2>4, <2>5, SameResults DEF AttemptInv
<1>13. CASE ExecuteFailed(e)
  <2>1. /\ pc[e] = "failed" /\ j.attempt >= MaxRetries[m]
        /\ status' = [status EXCEPT ![m] = "FAILED"] /\ runs' = runs
        /\ job'[e] = NoJob
        /\ \A f \in Executors : f # e => job'[f] = job[f] /\ pc'[f] = pc[f]
        /\ UNCHANGED <<submitted, queue, retryq, cursor, still>>
    BY <1>1, <1>2, <1>5, <1>13 DEF ExecuteFailed, Return
  <2>2. runs[m] = MaxRetries[m] + 1
    BY <1>2, <1>3, <1>4, <1>5, <2>1 DEF Fits
  <2>3. HandFits(e)'
    BY <2>1 DEF HandFits
  <2>4. \A t \in Tasks : t # m => status'[t] = status[t]
    BY <1>5, <2>1
  <2> QED
    BY <1>6, <1>7, <2>1, <2>2, <2>3, <2>4
<1>14. CASE ExecuteSuccess(e)
  <2>1. /\ pc[e] = "succeeded" /\ job' = job /\ pc'[e] = "postrun"
        /\ status' = [status EXCEPT ![m] = "SUCCESS"] /\ runs' = runs
        /\ UNCHANGED <<submitted, queue, retryq, cursor, still>>
        /\ \A f \in Executors : f # e => job'[f] = job[f] /\ pc'[f] = pc[f]
    BY <1>1, <1>2, <1>5, <1>14 DEF ExecuteSuccess
  <2>2. status'[m] = "SUCCESS" /\ \A t \in Tasks : t # m => status'[t] = status[t]
    BY <1>5, <2>1
  <2>3. HandFits(e)'
    BY <1>1, <1>2, <1>4, <2>1, <2>2 DEF HandFits, Fits, ResultAt
  <2> QED
    BY <1>6, <1>7, <2>1, <2>2, <2>3
<1>15. CASE ExecutePostrun(e)
  <2>1. /\ job'[e] = NoJob
        /\ \A f \in Executors : f # e => job'[f] = job[f] /\ pc'[f] = pc[f]
        /\ UNCHANGED <<status, runs, submitted, queue, retryq, cursor, still>>
    BY <1>5, <1>15 DEF ExecutePostrun, Return
  <2> QED
    BY <2>1, SameResults DEF AttemptInv
<1> QED
  BY <1>8, <1>9, <1>10, <1>11, <1>12, <1>13, <1>14, <1>15 DEF Execute

\* Attempts are counted correctly wherever a task waits or runs.
THEOREM AttemptInvariant == Spec => []AttemptInv
<1>1. Init => AttemptInv
  <2> SUFFICES ASSUME Init PROVE AttemptInv
    OBVIOUS
  <2>1. /\ \A t \in Tasks : runs[t] = 0 /\ status[t] = "PENDING" /\ MaxRetries[t] \in Nat
        /\ queue = <<>>
        /\ \A w \in Workers : retryq[w] = <<>> /\ still[w] = <<>> /\ cursor[w] = 1
        /\ \A e \in Executors : job[e] = NoJob
    BY ProcessAssumption, RetryAssumption DEF Init
  <2>2. AttemptsBounded /\ FailedMeansExhausted /\ Untouched /\ QueueReady
    BY <2>1 DEF AttemptsBounded, FailedMeansExhausted, Untouched, QueueReady
  <2>3. \A w \in Workers : RetryReady(w) /\ StillReady(w)
    BY <2>1 DEF RetryReady, StillReady
  <2> QED
    BY <2>1, <2>2, <2>3 DEF AttemptInv, HandFits
<1>2. TypeInv /\ Exclusion /\ AttemptInv /\ [Next]_vars => AttemptInv'
  <2> SUFFICES ASSUME TypeInv, Exclusion, AttemptInv, [Next]_vars PROVE AttemptInv'
    OBVIOUS
  <2>0. Pool \subseteq Executors /\ Workers \subseteq Executors /\ Workers \subseteq Processes
    BY ProcessAssumption DEF Executors
  <2>1. ASSUME NEW t \in Tasks, Enqueue(t) PROVE AttemptInv'
    <3>1. /\ UNCHANGED <<status, runs, retryq, pc, job, cursor, still>>
          /\ submitted \subseteq submitted'
      BY <2>1 DEF Enqueue, passVars
    <3>2. /\ Len(queue) \in Nat /\ Len(queue') = Len(queue) + 1
          /\ \A i \in 1..Len(queue) : queue'[i] = queue[i]
          /\ queue'[Len(queue) + 1] = t
      BY <2>1 DEF Enqueue, TypeInv, TypeOK
    <3>3. Ready(t, 0)
      BY <2>1, RetryAssumption DEF Enqueue, Ready, AttemptInv, Untouched
    <3>4. QueueReady'
      BY <3>1, <3>2, <3>3 DEF QueueReady, Ready, AttemptInv
    <3> QED
      BY <3>1, <3>4, SameResults DEF AttemptInv
  <2>2. ASSUME NEW t \in Tasks, Expire(t) PROVE AttemptInv'
    <3>1. /\ UNCHANGED <<submitted, queue, runs, retryq, pc, job, cursor, still>>
          /\ \A u \in Tasks : status'[u] \in {status[u], "PENDING"}
      BY <2>2 DEF Expire, Store, passVars, taskVars, TypeInv, TypeOK
    <3>2. \A u \in Tasks, a \in Nat : Ready(u, a) => Ready(u, a)'
      BY <3>1 DEF Ready
    <3>3. QueueReady'
      <4>1. \A i \in 1..Len(queue) : queue[i] \in Tasks
        BY DEF TypeInv, TypeOK
      <4> QED
        BY <3>1, <4>1 DEF QueueReady, Ready, AttemptInv
    <3>4. ASSUME NEW w \in Workers PROVE RetryReady(w)' /\ StillReady(w)'
      <4>0. retryq[w] \in Seq(Jobs) /\ still[w] \in Seq(Jobs) /\ cursor[w] \in Nat \ {0}
        BY <2>0 DEF TypeInv, TypeOK
      <4>1. \A i \in cursor[w]..Len(retryq[w]) : retryq[w][i].id \in Tasks
        BY <4>0, JobFields
      <4>2. \A i \in 1..Len(still[w]) : still[w][i].id \in Tasks
        BY <4>0, JobFields
      <4> QED
        BY <3>1, <4>1, <4>2 DEF RetryReady, StillReady, Ready, AttemptInv
    <3>5. ASSUME NEW e \in Executors PROVE HandFits(e)'
      <4> SUFFICES ASSUME job[e] # NoJob PROVE Fits(e, pc[e], job[e])'
        BY <3>1 DEF HandFits
      <4>1. job[e].id \in Tasks
        BY DEF TypeInv, TypeOK, Jobs
      <4>2. Fits(e, pc[e], job[e])
        BY DEF AttemptInv, HandFits
      <4> QED
        BY <3>1, <4>1, <4>2 DEF Fits, Ready, ResultAt
    <3> QED
      BY <3>1, <3>3, <3>4, <3>5
      DEF AttemptInv, AttemptsBounded, FailedMeansExhausted, Untouched
  <2>3. ASSUME NEW e \in Executors, NEW label, queue # <<>>, queue' = Tail(queue),
               Enter(e, [id |-> Head(queue), attempt |-> 0], label),
               UNCHANGED <<submitted, status, runs, retryq, passVars>>
        PROVE  AttemptInv'
    <3>1. /\ Len(queue) \in Nat /\ Len(queue) > 0
          /\ Len(queue') = Len(queue) - 1
          /\ \A i \in 1..Len(queue') : queue'[i] = queue[i + 1] /\ i + 1 \in 1..Len(queue)
          /\ Head(queue) = queue[1] /\ Head(queue) \in Tasks
      BY <2>3 DEF TypeInv, TypeOK
    <3>2. QueueReady'
      BY <2>3, <3>1 DEF QueueReady, Ready, AttemptInv
    <3>3. PICK j \in Jobs : j = [id |-> Head(queue), attempt |-> 0]
      BY <3>1 DEF Jobs
    <3>4. Ready(j.id, j.attempt)
      BY <3>1, <3>3 DEF QueueReady, AttemptInv
    <3>5. \A f \in Executors : HandFits(f)'
      BY <2>3, <3>3, <3>4, TakenFits
    <3> QED
      BY <2>3, <3>2, <3>5, SameResults DEF AttemptInv, passVars
  <2>4. ASSUME NEW e \in Pool, PoolTake(e) PROVE AttemptInv'
    BY <2>0, <2>3, <2>4 DEF PoolTake
  <2>5. ASSUME NEW e \in Pool, NEW t \in Tasks, Call(e, t) PROVE AttemptInv'
    <3>1. PICK j \in Jobs : j = [id |-> t, attempt |-> 0]
      BY DEF Jobs
    <3>2. Ready(j.id, j.attempt)
      BY <2>5, <3>1, RetryAssumption DEF Call, Ready, AttemptInv, Untouched
    <3>3. /\ UNCHANGED <<status, runs, queue, retryq, cursor, still>>
          /\ submitted \subseteq submitted' /\ e \in Executors
      BY <2>0, <2>5 DEF Call, passVars
    <3>4. \A f \in Executors : HandFits(f)'
      BY <2>5, <3>1, <3>2, <3>3, TakenFits DEF Call
    <3> QED
      BY <3>3, <3>4, SameResults DEF AttemptInv
  <2>6. ASSUME NEW e \in Executors, Execute(e) PROVE AttemptInv'
    BY <2>6, ExecuteAttempts
  <2>7. ASSUME NEW e \in Executors, ExecuteRaises(e) PROVE AttemptInv'
    <3>1. /\ UNCHANGED <<submitted, queue, status, runs, retryq, cursor, still>>
          /\ job'[e] = NoJob
          /\ \A f \in Executors : f # e => job'[f] = job[f] /\ pc'[f] = pc[f]
      BY <2>7 DEF ExecuteRaises, Raise, Goto, taskVars, resultVars, passVars, TypeInv, TypeOK
    <3>2. \A f \in Executors : HandFits(f)'
      BY <3>1, SameResults
    <3> QED
      BY <3>1, <3>2, SameResults DEF AttemptInv
  <2>8. ASSUME NEW w \in Workers, Loop(w) PROVE AttemptInv'
    <3>0. /\ w \in Executors /\ w \in Processes /\ ProcessOf(w) = w
          /\ retryq[w] \in Seq(Jobs) /\ still[w] \in Seq(Jobs) /\ cursor[w] \in Nat \ {0}
      BY <2>0 DEF ProcessOf, TypeInv, TypeOK
    <3> USE DEF taskVars, resultVars, passVars
    <3>1. ASSUME UNCHANGED <<submitted, queue, status, runs, retryq, job, cursor, still>>,
                 Goto(w, "pass") \/ Goto(w, "down") \/ Goto(w, "passEnd") \/ Goto(w, "idle"),
                 pc[w] \notin Executing
          PROVE  AttemptInv'
      <4>1. job'[w] = NoJob /\ \A f \in Executors : f # w => job'[f] = job[f] /\ pc'[f] = pc[f]
        BY <3>0, <3>1 DEF Goto, TypeInv, TypeOK, HandsOK
      <4> QED
        BY <3>1, <4>1, SameResults DEF AttemptInv
    <3>2. CASE LoopStart(w) \/ LoopEnd(w) \/ PassDone(w) \/ DequeueEmpty(w)
      <4>1. CASE LoopStart(w)
        BY <3>1, <4>1 DEF LoopStart, Executing
      <4>2. CASE LoopEnd(w)
        BY <3>1, <4>2 DEF LoopEnd, Executing
      <4>3. CASE PassDone(w)
        BY <3>1, <4>3 DEF PassDone, Executing
      <4>4. CASE DequeueEmpty(w)
        BY <3>1, <4>4 DEF DequeueEmpty, Executing
      <4> QED
        BY <3>2, <4>1, <4>2, <4>3, <4>4
    <3>3. CASE PassTake(w)
      <4>0. /\ cursor[w] <= Len(retryq[w]) /\ Len(retryq[w]) \in Nat
            /\ retryq[w][cursor[w]].id \in Registry[w]
        BY <3>0, <3>3 DEF PassTake
      <4>1. PICK j \in Jobs : j = retryq[w][cursor[w]]
        BY <3>0, <4>0
      <4>2. Ready(j.id, j.attempt) /\ j.id \in Registry[w]
        BY <3>0, <4>0, <4>1 DEF AttemptInv, RetryReady
      <4>3. \A f \in Executors : HandFits(f)'
        BY <3>0, <3>3, <4>1, <4>2, TakenFits DEF PassTake
      <4>4. ASSUME NEW v \in Workers PROVE RetryReady(v)'
        <5>1. cursor'[v] \in {cursor[v], cursor[v] + 1} /\ cursor[v] \in Nat
          BY <3>3 DEF PassTake, TypeInv, TypeOK
        <5> QED
          BY <3>3, <5>1 DEF PassTake, RetryReady, Ready, AttemptInv
      <4> QED
        BY <3>3, <4>3, <4>4, SameResults DEF AttemptInv, PassTake
    <3>4. CASE PassSkip(w)
      <4>1. PICK j \in Jobs : j = retryq[w][cursor[w]]
        BY <3>0, <3>4 DEF PassSkip
      <4>2. Ready(j.id, j.attempt)
        BY <3>0, <3>4, <4>1 DEF PassSkip, AttemptInv, RetryReady
      <4>3. ASSUME NEW v \in Workers PROVE RetryReady(v)'
        <5>1. cursor'[v] \in {cursor[v], cursor[v] + 1} /\ cursor[v] \in Nat
          BY <3>4 DEF PassSkip, TypeInv, TypeOK
        <5> QED
          BY <3>4, <5>1 DEF PassSkip, RetryReady, Ready, AttemptInv
      <4>4. ASSUME NEW v \in Workers PROVE StillReady(v)'
        <5>1. CASE v # w
          BY <3>4, <5>1, SameResults DEF PassSkip, TypeInv, TypeOK
        <5>2. CASE v = w
          <6>1. \A i \in 1..Len(still'[w]) :
                    \/ i \in 1..Len(still[w]) /\ still'[w][i] = still[w][i]
                    \/ still'[w][i] = j
            <7>1. still[w] \in Seq(Jobs) /\ still' = [still EXCEPT ![w] = Append(@, j)]
              BY <3>0, <3>4, <4>1 DEF PassSkip, TypeInv, TypeOK
            <7>2. still'[w] = Append(still[w], j)
              BY <7>1 DEF TypeInv, TypeOK
            <7>3. Len(still[w]) \in Nat /\ Len(Append(still[w], j)) = Len(still[w]) + 1
              BY <7>1
            <7> QED
              BY <7>1, <7>2, <7>3
          <6> QED
            BY <3>4, <4>2, <5>2, <6>1 DEF PassSkip, StillReady, Ready, AttemptInv
        <5> QED
          BY <5>1, <5>2
      <4> QED
        BY <3>4, <4>3, <4>4, SameResults DEF AttemptInv, PassSkip
    <3>5. CASE PassAssign(w)
      <4>1. /\ UNCHANGED <<submitted, queue, status, runs, job>>
            /\ retryq'[w] = still[w] /\ still'[w] = <<>> /\ cursor'[w] = 1
            /\ \A v \in Workers : v # w =>
                retryq'[v] = retryq[v] /\ still'[v] = still[v] /\ cursor'[v] = cursor[v]
            /\ \A f \in Executors : f # w => pc'[f] = pc[f]
        BY <2>0, <3>0, <3>5 DEF PassAssign, Goto, TypeInv, TypeOK
      <4>2. RetryReady(w)' /\ StillReady(w)'
        BY <4>1 DEF RetryReady, StillReady, Ready, AttemptInv
      <4>3. job[w] = NoJob
        BY <3>0, <3>5 DEF PassAssign, TypeInv, HandsOK, Executing
      <4> QED
        BY <4>1, <4>2, <4>3, SameResults DEF AttemptInv
    <3>6. CASE Dequeue(w)
      BY <2>0, <2>3, <3>6 DEF Dequeue
    <3> QED
      BY <2>8, <3>2, <3>3, <3>4, <3>5, <3>6 DEF Loop
  <2>9. ASSUME NEW w \in Workers, Stop(w) PROVE AttemptInv'
    BY <2>9, SameResults DEF Stop, AttemptInv, taskVars, resultVars, passVars
  <2>10. ASSUME NEW p \in Processes, NEW label, LoseMemory(p, label),
                UNCHANGED <<submitted, status, runs>>
         PROVE  AttemptInv'
    <3>1. ASSUME NEW w \in Workers PROVE RetryReady(w)' /\ StillReady(w)'
      <4>1. CASE w = p
        <5>1. retryq'[w] = <<>> /\ still'[w] = <<>> /\ cursor'[w] = 1
          BY <2>0, <2>10, <4>1 DEF LoseMemory, TypeInv, TypeOK
        <5> QED
          BY <5>1 DEF RetryReady, StillReady
      <4>2. CASE w # p
        <5>1. retryq'[w] = retryq[w] /\ still'[w] = still[w] /\ cursor'[w] = cursor[w]
          BY <2>0, <2>10, <4>2 DEF LoseMemory, TypeInv, TypeOK
        <5> QED
          BY <2>10, <5>1, SameResults
      <4> QED
        BY <4>1, <4>2
    <3>2. QueueReady'
      <4>1. queue' = <<>> \/ queue' = queue
        BY <2>10 DEF LoseMemory
      <4> QED
        BY <2>10, <4>1, SameResults DEF QueueReady
    <3>3. ASSUME NEW e \in Executors PROVE HandFits(e)'
      <4>1. CASE e \in ExecutorsOf(p)
        BY <2>10, <4>1, SameResults DEF LoseMemory
      <4>2. CASE e \notin ExecutorsOf(p)
        <5>1. e # p
          BY <4>2, ProcessAssumption DEF ExecutorsOf, ProcessOf, Executors
        <5>2. job'[e] = job[e] /\ pc'[e] = pc[e]
          BY <2>10, <4>2, <5>1 DEF LoseMemory
        <5> QED
          BY <2>10, <5>2, SameResults
      <4> QED
        BY <4>1, <4>2
    <3> QED
      BY <2>10, <3>1, <3>2, <3>3, SameResults DEF AttemptInv
  <2>11. ASSUME NEW w \in Workers, Restart(w) PROVE AttemptInv'
    BY <2>0, <2>10, <2>11 DEF Restart, resultVars
  <2>12. ASSUME NEW p \in Processes, Crash(p) PROVE AttemptInv'
    BY <2>10, <2>12 DEF Crash, resultVars
  <2>13. CASE UNCHANGED vars
    BY <2>13, SameResults DEF vars, AttemptInv
  <2> QED
    BY <2>1, <2>2, <2>4, <2>5, <2>6, <2>7, <2>8, <2>9, <2>11, <2>12, <2>13 DEF Next
<1> QED
  BY <1>1, <1>2, TypeInvariant, ExclusionInvariant, PTL DEF Spec

\* No task runs more often than it has attempts, under every fault.
THEOREM AttemptsBoundedHolds == Spec => []AttemptsBounded
<1>1. AttemptInv => AttemptsBounded
  BY DEF AttemptInv
<1> QED
  BY <1>1, AttemptInvariant, PTL

\* FAILED always means that the attempts are used up or the name is unknown.
THEOREM FailedMeansExhaustedHolds == Spec => []FailedMeansExhausted
<1>1. AttemptInv => FailedMeansExhausted
  BY DEF AttemptInv
<1> QED
  BY <1>1, AttemptInvariant, PTL

\* A final result stands until it expires and the task is not run again: the
\* executor that writes a result or enters a function always does so for a
\* task without a final result.
THEOREM FinalIsFinalHolds == Spec => FinalIsFinal
<1> DEFINE Stands == \A t \in Tasks : status[t] \in Final =>
                        status'[t] \in {status[t], "PENDING"} /\ runs'[t] = runs[t]
<1>1. TypeInv /\ AttemptInv /\ [Next]_vars => [Stands]_vars
  <2> SUFFICES ASSUME TypeInv, AttemptInv, Next PROVE Stands
    OBVIOUS
  <2>1. ASSUME UNCHANGED <<status, runs>> PROVE Stands
    BY <2>1
  <2>2. ASSUME NEW t \in Tasks, Enqueue(t) \/ Expire(t) PROVE Stands
    BY <2>2 DEF Enqueue, Expire, Store, TypeInv, TypeOK
  <2>3. ASSUME NEW e \in Pool, NEW t \in Tasks, Call(e, t) PROVE Stands
    BY <2>3 DEF Call
  <2>4. ASSUME NEW e \in Pool, PoolTake(e) PROVE Stands
    BY <2>4 DEF PoolTake
  <2>5. ASSUME NEW e \in Executors, Execute(e) PROVE Stands
    <3>1. pc[e] \in Executing
      BY <2>5 DEF Execute, ExecuteUnknown, ExecuteStart, ExecuteFunction, ExecuteRetry,
                  ScheduleRetry, ExecuteFailed, ExecuteSuccess, ExecutePostrun, Executing
    <3>2. PICK j \in Jobs : j = job[e]
      BY <3>1 DEF TypeInv, TypeOK, HandsOK
    <3>3. Fits(e, pc[e], j) /\ j.id \in Tasks
      BY <3>1, <3>2 DEF TypeInv, HandsOK, AttemptInv, HandFits, Jobs
    <3>4. CASE pc[e] \in {"begin", "func", "failed", "succeeded"}
      <4>1. status[j.id] \notin Final
        BY <3>3, <3>4 DEF Fits, Ready, ResultAt, Final
      <4>2. \A t \in Tasks : t # j.id => status'[t] = status[t] /\ runs'[t] = runs[t]
        BY <2>5, <3>2, <3>3
        DEF Execute, ExecuteUnknown, ExecuteStart, ExecuteFunction, ExecuteRetry, ScheduleRetry,
            ExecuteFailed, ExecuteSuccess, ExecutePostrun, Store, resultVars, TypeInv, TypeOK
      <4> QED
        BY <4>1, <4>2
    <3>5. CASE pc[e] \in {"retry", "postrun"}
      BY <2>1, <2>5, <3>5
      DEF Execute, ExecuteUnknown, ExecuteStart, ExecuteFunction, ExecuteRetry, ScheduleRetry,
          ExecuteFailed, ExecuteSuccess, ExecutePostrun, resultVars
    <3> QED
      BY <3>1, <3>4, <3>5 DEF Executing
  <2>6. ASSUME NEW e \in Executors, ExecuteRaises(e) PROVE Stands
    BY <2>1, <2>6 DEF ExecuteRaises, resultVars
  <2>7. ASSUME NEW w \in Workers, Loop(w) \/ Stop(w) \/ Restart(w) PROVE Stands
    BY <2>1, <2>7
    DEF Loop, LoopStart, LoopEnd, PassTake, PassSkip, PassDone, PassAssign, Dequeue,
        DequeueEmpty, Stop, Restart, resultVars
  <2>8. ASSUME NEW p \in Processes, Crash(p) PROVE Stands
    BY <2>1, <2>8 DEF Crash, resultVars
  <2> HIDE DEF Stands
  <2> QED
    BY <2>2, <2>3, <2>4, <2>5, <2>6, <2>7, <2>8 DEF Next
<1> QED
  BY <1>1, TypeInvariant, AttemptInvariant, PTL DEF Spec, FinalIsFinal

-----------------------------------------------------------------------------
\* The implementation of TaskLife

\* As long as results do not expire: an attempt under way is STARTED, and RETRY
\* is stored only after an attempt.
ResultKept(e) ==
    job[e] # NoJob /\ pc[e] \in {"func", "failed", "succeeded"} => status[job[e].id] = "STARTED"
Unexpired ==
    /\ \A e \in Executors : ResultKept(e)
    /\ \A t \in Tasks : status[t] = "RETRY" => runs[t] > 0

\* A step that changes no result, and leaves each hand as it is, empties it or
\* puts it before an attempt.
LEMMA HandsUntouched ==
    ASSUME TypeInv, Unexpired, UNCHANGED <<status, runs>>,
           \A e \in Executors :
                \/ job'[e] = job[e] /\ pc'[e] = pc[e]
                \/ job'[e] = NoJob
                \/ pc'[e] = "begin"
    PROVE  Unexpired'
BY DEF Unexpired, ResultKept

\* What e has in hand, and what a step of e leaves alone.
LEMMA HandOf ==
    ASSUME TypeInv, Exclusion, AttemptInv, NEW e \in Executors, pc[e] \in Executing
    PROVE  /\ job[e] \in Jobs /\ job[e] # NoJob /\ job[e].id \in Tasks /\ job[e].attempt \in Nat
           /\ Fits(e, pc[e], job[e])
           /\ \A f \in Executors : f # e /\ job[f] # NoJob => job[f].id # job[e].id
<1>1. job[e] # NoJob /\ job[e] \in Jobs
  BY DEF TypeInv, TypeOK, HandsOK
<1>2. job[e].id \in Tasks /\ job[e].attempt \in Nat
  BY <1>1 DEF Jobs
<1>3. Fits(e, pc[e], job[e])
  BY <1>1 DEF AttemptInv, HandFits
<1>4. \A f \in Executors : f # e /\ job[f] # NoJob => job[f].id # job[e].id
  BY <1>1, <1>2 DEF Exclusion, OnePlace, InHand
<1> QED
  BY <1>1, <1>2, <1>3, <1>4

\* A step of execute_task is a step of the lifecycle or leaves it alone.
LEMMA ExecuteLives ==
    ASSUME TypeInv, Exclusion, AttemptInv, Unexpired, NEW e \in Executors, Execute(e)
    PROVE  Unexpired' /\ [Life!Next]_<<status, runs>>
<1> USE DEF taskVars, passVars, resultVars, Goto, Store
<1>0. pc[e] \in Executing
  BY DEF Execute, ExecuteUnknown, ExecuteStart, ExecuteFunction, ExecuteRetry, ScheduleRetry,
         ExecuteFailed, ExecuteSuccess, ExecutePostrun, Executing
<1>1. PICK m \in Tasks : m = job[e].id
  BY <1>0, HandOf
<1>2. PICK a \in Nat : a = job[e].attempt
  BY <1>0, HandOf
<1>3. /\ MaxRetries[m] \in Nat /\ runs \in [Tasks -> Nat] /\ status \in [Tasks -> Statuses]
      /\ pc \in [Executors -> PCs] /\ job \in [Executors -> Jobs \cup {NoJob}]
      /\ job[e] # NoJob
      /\ \A f \in Executors : f # e /\ job[f] # NoJob => job[f].id \in Tasks /\ job[f].id # m
  BY <1>0, <1>1, RetryAssumption, HandOf DEF TypeInv, TypeOK, Jobs
<1>4. /\ pc[e] = "begin" => runs[m] = a /\ a <= MaxRetries[m] /\ status[m] \in {"PENDING", "RETRY"}
      /\ pc[e] = "begin" => a = 0 \/ m \in Registry[ProcessOf(e)]
      /\ pc[e] # "begin" => runs[m] = a + 1 /\ a <= MaxRetries[m]
  BY <1>0, <1>1, <1>2, HandOf DEF Fits, Ready
<1>5. pc[e] \in {"func", "failed", "succeeded"} => status[m] = "STARTED"
  BY <1>1, <1>3 DEF Unexpired, ResultKept
<1>6. \A f \in Executors : f # e => ResultKept(f)
  BY DEF Unexpired
\* What every step of e leaves to be shown.
<1>7. ASSUME \A t \in Tasks : t # m => status'[t] = status[t] /\ runs'[t] = runs[t],
             \A f \in Executors : f # e => job'[f] = job[f] /\ pc'[f] = pc[f],
             ResultKept(e)', status'[m] = "RETRY" => runs'[m] > 0
      PROVE  Unexpired'
  <2>1. ASSUME NEW f \in Executors, f # e PROVE ResultKept(f)'
    BY <1>3, <1>6, <1>7, <2>1 DEF ResultKept
  <2> QED
    BY <1>7, <2>1 DEF Unexpired
<1>8. CASE ExecuteUnknown(e)
  <2>1. /\ pc[e] = "begin" /\ m \notin Registry[ProcessOf(e)]
        /\ status' = [status EXCEPT ![m] = "FAILED"] /\ runs' = runs
        /\ job'[e] = NoJob
        /\ \A f \in Executors : f # e => job'[f] = job[f] /\ pc'[f] = pc[f]
    BY <1>1, <1>3, <1>8 DEF ExecuteUnknown, Raise
  <2>2. runs[m] = 0
    BY <1>4, <2>1
  <2>3. status[m] = "PENDING"
    BY <1>4, <2>1, <2>2 DEF Unexpired
  <2>4. Life!Reject(m)
    BY <2>1, <2>2, <2>3 DEF Life!Reject
  <2> QED
    BY <1>3, <1>7, <2>1, <2>4 DEF Life!Next, ResultKept
<1>9. CASE ExecuteStart(e)
  <2>1. /\ pc[e] = "begin" /\ job' = job /\ pc'[e] = "func"
        /\ status' = [status EXCEPT ![m] = "STARTED"]
        /\ runs' = [runs EXCEPT ![m] = @ + 1]
        /\ \A f \in Executors : f # e => job'[f] = job[f] /\ pc'[f] = pc[f]
    BY <1>1, <1>3, <1>9 DEF ExecuteStart
  <2>2. Life!Start(m)
    BY <1>4, <2>1 DEF Life!Start
  <2>3. ResultKept(e)'
    BY <1>1, <1>3, <2>1 DEF ResultKept
  <2> QED
    BY <1>3, <1>7, <2>1, <2>2, <2>3 DEF Life!Next
<1>10. CASE ExecuteFunction(e)
  <2>1. /\ pc[e] = "func" /\ job' = job /\ UNCHANGED <<status, runs>>
        /\ \A f \in Executors : f # e => job'[f] = job[f] /\ pc'[f] = pc[f]
    BY <1>3, <1>10 DEF ExecuteFunction
  <2>2. ResultKept(e)'
    BY <1>1, <1>5, <2>1 DEF ResultKept
  <2> QED
    BY <1>7, <2>1, <2>2 DEF Unexpired
<1>11. CASE ExecuteRetry(e)
  <2>1. /\ pc[e] = "failed" /\ a < MaxRetries[m] /\ job' = job /\ pc'[e] = "retry"
        /\ status' = [status EXCEPT ![m] = "RETRY"] /\ runs' = runs
        /\ \A f \in Executors : f # e => job'[f] = job[f] /\ pc'[f] = pc[f]
    BY <1>1, <1>2, <1>3, <1>11 DEF ExecuteRetry
  <2>2. runs[m] = a + 1 /\ status[m] = "STARTED"
    BY <1>4, <1>5, <2>1
  <2>3. Life!Finish(m, "RETRY")
    BY <1>2, <1>3, <2>1, <2>2 DEF Life!Finish
  <2>4. ResultKept(e)'
    BY <2>1 DEF ResultKept
  <2> QED
    BY <1>2, <1>3, <1>7, <2>1, <2>2, <2>3, <2>4 DEF Life!Next
<1>12. CASE ScheduleRetry(e) \/ ExecutePostrun(e)
  <2>1. /\ UNCHANGED <<status, runs>> /\ job'[e] = NoJob
        /\ \A f \in Executors : f # e => job'[f] = job[f] /\ pc'[f] = pc[f]
    BY <1>3, <1>12 DEF ScheduleRetry, ExecutePostrun, Return
  <2> QED
    BY <1>7, <2>1 DEF Unexpired, ResultKept
<1>13. CASE ExecuteFailed(e)
  <2>1. /\ pc[e] = "failed" /\ a >= MaxRetries[m] /\ job'[e] = NoJob
        /\ status' = [status EXCEPT ![m] = "FAILED"] /\ runs' = runs
        /\ \A f \in Executors : f # e => job'[f] = job[f] /\ pc'[f] = pc[f]
    BY <1>1, <1>2, <1>3, <1>13 DEF ExecuteFailed, Return
  <2>2. runs[m] = MaxRetries[m] + 1 /\ status[m] = "STARTED"
    BY <1>2, <1>3, <1>4, <1>5, <2>1
  <2>3. Life!Finish(m, "FAILED")
    BY <2>1, <2>2 DEF Life!Finish
  <2> QED
    BY <1>3, <1>7, <2>1, <2>3 DEF Life!Next, ResultKept
<1>14. CASE ExecuteSuccess(e)
  <2>1. /\ pc[e] = "succeeded" /\ job' = job /\ pc'[e] = "postrun"
        /\ status' = [status EXCEPT ![m] = "SUCCESS"] /\ runs' = runs
        /\ \A f \in Executors : f # e => job'[f] = job[f] /\ pc'[f] = pc[f]
    BY <1>1, <1>3, <1>14 DEF ExecuteSuccess
  <2>2. Life!Finish(m, "SUCCESS")
    BY <1>5, <2>1 DEF Life!Finish
  <2> QED
    BY <1>3, <1>7, <2>1, <2>2 DEF Life!Next, ResultKept
<1> QED
  BY <1>8, <1>9, <1>10, <1>11, <1>12, <1>13, <1>14 DEF Execute

\* Unless results expire, the processes, brokers and retry queues together give
\* a result the lifecycle of TaskLife, whatever raises, crashes or is stopped.
THEOREM TasksImplementTaskLife == "expire" \notin Faults => (Spec => Lifecycle)
<1> SUFFICES ASSUME "expire" \notin Faults PROVE Spec => Life!Spec
  BY DEF Lifecycle
<1>1. Init => Life!Init /\ Unexpired
  BY DEF Init, Life!Init, Unexpired, ResultKept
<1>2. /\ TypeInv /\ Exclusion /\ AttemptInv /\ Unexpired /\ [Next]_vars
      => Unexpired' /\ [Life!Next]_<<status, runs>>
  <2> SUFFICES ASSUME TypeInv, Exclusion, AttemptInv, Unexpired, [Next]_vars
               PROVE  Unexpired' /\ [Life!Next]_<<status, runs>>
    OBVIOUS
  <2> USE DEF taskVars, resultVars, passVars
  <2>0. /\ Pool \subseteq Executors /\ Workers \subseteq Executors
        /\ pc \in [Executors -> PCs] /\ job \in [Executors -> Jobs \cup {NoJob}]
    BY DEF Executors, TypeInv, TypeOK
  <2>1. ASSUME NEW t \in Tasks, Enqueue(t) \/ Expire(t) PROVE Unexpired' /\ UNCHANGED <<status, runs>>
    BY <2>1, HandsUntouched DEF Enqueue, Expire
  <2>2. ASSUME NEW e \in Pool, PoolTake(e) PROVE Unexpired' /\ UNCHANGED <<status, runs>>
    BY <2>0, <2>2, HandsUntouched DEF PoolTake, Enter, Goto
  <2>3. ASSUME NEW e \in Pool, NEW t \in Tasks, Call(e, t)
        PROVE  Unexpired' /\ UNCHANGED <<status, runs>>
    BY <2>0, <2>3, HandsUntouched DEF Call, Enter, Goto
  <2>4. ASSUME NEW e \in Executors, Execute(e) PROVE Unexpired' /\ [Life!Next]_<<status, runs>>
    BY <2>4, ExecuteLives
  <2>5. ASSUME NEW e \in Executors, ExecuteRaises(e) PROVE Unexpired' /\ UNCHANGED <<status, runs>>
    BY <2>0, <2>5, HandsUntouched DEF ExecuteRaises, Raise, Goto
  <2>6. ASSUME NEW w \in Workers, Loop(w) PROVE Unexpired' /\ UNCHANGED <<status, runs>>
    <3>1. CASE PassTake(w) \/ Dequeue(w)
      BY <2>0, <3>1, HandsUntouched DEF PassTake, Dequeue, Enter, Goto
    <3>2. CASE PassSkip(w)
      BY <3>2, HandsUntouched DEF PassSkip
    <3>3. CASE LoopStart(w) \/ LoopEnd(w) \/ PassDone(w) \/ PassAssign(w) \/ DequeueEmpty(w)
      <4>1. job[w] = NoJob
        BY <2>0, <3>3
        DEF LoopStart, LoopEnd, PassDone, PassAssign, DequeueEmpty, TypeInv, HandsOK, Executing
      <4> QED
        BY <2>0, <3>3, <4>1, HandsUntouched
        DEF LoopStart, LoopEnd, PassDone, PassAssign, DequeueEmpty, Goto
    <3> QED
      BY <2>6, <3>1, <3>2, <3>3 DEF Loop
  <2>7. ASSUME NEW w \in Workers, Stop(w) PROVE Unexpired' /\ UNCHANGED <<status, runs>>
    BY <2>7, HandsUntouched DEF Stop
  <2>8. ASSUME NEW p \in Processes, NEW label, LoseMemory(p, label), UNCHANGED <<status, runs>>
        PROVE  Unexpired'
    <3>1. ASSUME NEW e \in Executors
          PROVE  (job'[e] = job[e] /\ pc'[e] = pc[e]) \/ job'[e] = NoJob
      <4>1. e = p => e \in ExecutorsOf(p)
        BY ProcessAssumption DEF ExecutorsOf, Executors, ProcessOf
      <4> QED
        BY <2>8, <4>1 DEF LoseMemory
    <3> QED
      BY <2>8, <3>1, HandsUntouched
  <2>9. ASSUME NEW w \in Workers, Restart(w) PROVE Unexpired' /\ UNCHANGED <<status, runs>>
    BY <2>8, <2>9, ProcessAssumption DEF Restart
  <2>10. ASSUME NEW p \in Processes, Crash(p) PROVE Unexpired' /\ UNCHANGED <<status, runs>>
    BY <2>8, <2>10 DEF Crash
  <2>11. CASE UNCHANGED vars
    BY <2>11, HandsUntouched DEF vars
  <2> QED
    BY <2>1, <2>2, <2>3, <2>4, <2>5, <2>6, <2>7, <2>9, <2>10, <2>11 DEF Next
<1> QED
  BY <1>1, <1>2, TypeInvariant, ExclusionInvariant, AttemptInvariant, PTL DEF Spec, Life!Spec
=============================================================================
