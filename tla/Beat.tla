-------------------------------- MODULE Beat --------------------------------
(***************************************************************************)
(* The periodic scheduler of tasks/beat.py: Beat.run calls tick, which     *)
(* goes over TASKS_SCHEDULE, hands the due entries to the broker and       *)
(* remembers when each is due next, in the memory of the process only.     *)
(*                                                                         *)
(* Time is kept as what is left until _next_run, so that behaviours need   *)
(* no end.  Inside a tick it is relative to the `now` the tick has read.   *)
(***************************************************************************)
EXTENDS Integers, Sequences

CONSTANTS
    Schedule,   \* TASKS_SCHEDULE, as the sequence of its entries
    Every,      \* Every[e]: its interval, at most 0 when it is disabled
    MaxLag      \* bound: the time that one tick takes

Entries == {Schedule[i] : i \in DOMAIN Schedule}
ASSUME BeatAssumption ==
    /\ Schedule \in Seq(Entries)
    /\ \A i, j \in DOMAIN Schedule : Schedule[i] = Schedule[j] => i = j
    /\ Every \in [Entries -> Int]
    /\ MaxLag \in Nat

VARIABLES
    mode,      \* "off" before Beat(), "sleep" between ticks, "tick", "ended"
    cursor,    \* the index of the entry that tick looks at
    wait,      \* wait[e]: the time until _next_run[e], 0 when it is due
    lag,       \* the time since the tick read the clock
    halted,    \* Beat._stop
    broker,    \* whether the broker takes messages: "up" or "down"
    gap,       \* history: gap[e], the time since e was last handed over, or -1
    fired      \* history: fired[e], the parity of how often it was handed over

beatVars == <<mode, cursor, wait, lag, halted, broker, gap, fired>>

Enabled == {e \in Entries : Every[e] > 0}
\* Beyond this value gap no longer counts.
Long(e) == Every[e] + 1

BeatTypeOK ==
    /\ mode \in {"off", "sleep", "tick", "ended"}
    /\ cursor \in 1..(Len(Schedule) + 1)
    /\ wait \in [Entries -> Nat]
    /\ \A e \in Enabled : wait[e] <= Every[e]
    /\ lag \in 0..MaxLag
    /\ halted \in BOOLEAN
    /\ broker \in {"up", "down"}
    /\ gap \in [Entries -> Int]
    /\ fired \in [Entries -> BOOLEAN]

BeatInit ==
    /\ mode = "off"
    /\ cursor = 1
    /\ wait = [e \in Entries |-> 0]
    /\ lag = 0
    /\ halted = FALSE
    /\ broker = "up"
    /\ gap = [e \in Entries |-> -1]
    /\ fired = [e \in Entries |-> FALSE]

\* Mutant: what is overdue counts further.
LeftBelowZero(time, passed) == time - passed

Left(time, passed) == IF time > passed THEN time - passed ELSE 0

\* Beat() in a process that has just started: nothing is remembered.
BeatStart ==
    /\ mode = "off"
    /\ mode' = "sleep"
    /\ UNCHANGED <<cursor, wait, lag, halted, broker, gap, fired>>

\* while not self._stop: tick reads the clock.
TickStart ==
    /\ mode = "sleep"
    /\ ~ halted
    /\ mode' = "tick"
    /\ UNCHANGED <<cursor, wait, lag, halted, broker, gap, fired>>

\* The loop sees the stop flag.
BeatEnds ==
    /\ mode = "sleep"
    /\ halted
    /\ mode' = "ended"
    /\ UNCHANGED <<cursor, wait, lag, halted, broker, gap, fired>>

Due(e) == Every[e] > 0 /\ wait[e] = 0
AtEntry == mode = "tick" /\ cursor <= Len(Schedule)

\* An entry that is disabled or not due.
TickPasses ==
    /\ AtEntry
    /\ ~ Due(Schedule[cursor])
    /\ cursor' = cursor + 1
    /\ UNCHANGED <<mode, wait, lag, halted, broker, gap, fired>>

\* A due entry whose task the process has not registered is passed over in
\* silence, until its next interval.
TickSkips(registered) ==
    /\ AtEntry
    /\ Due(Schedule[cursor])
    /\ Schedule[cursor] \notin registered
    /\ wait' = [wait EXCEPT ![Schedule[cursor]] = Every[Schedule[cursor]]]
    /\ cursor' = cursor + 1
    /\ UNCHANGED <<mode, lag, halted, broker, gap, fired>>

\* Mutant: the next run is left as it was.
TickFiresAgain(registered) ==
    /\ AtEntry
    /\ broker = "up"
    /\ LET e == Schedule[cursor] IN
        /\ Due(e) /\ e \in registered
        /\ gap' = [gap EXCEPT ![e] = 0]
        /\ fired' = [fired EXCEPT ![e] = ~ @]
    /\ cursor' = cursor + 1
    /\ UNCHANGED <<mode, wait, lag, halted, broker>>

\* A due entry: its next run counts from this tick, and it is handed over.
TickFires(registered) ==
    /\ AtEntry
    /\ broker = "up"
    /\ LET e == Schedule[cursor] IN
        /\ Due(e) /\ e \in registered
        /\ wait' = [wait EXCEPT ![e] = Every[e]]
        /\ gap' = [gap EXCEPT ![e] = 0]
        /\ fired' = [fired EXCEPT ![e] = ~ @]
    /\ cursor' = cursor + 1
    /\ UNCHANGED <<mode, lag, halted, broker>>

\* delay raises: so does run, and the process ends.  One that starts in its
\* place remembers nothing.
TickRaises(registered) ==
    /\ AtEntry
    /\ broker = "down"
    /\ Due(Schedule[cursor]) /\ Schedule[cursor] \in registered
    /\ mode' = "off"
    /\ cursor' = 1
    /\ wait' = [e \in Entries |-> 0]
    /\ lag' = 0
    /\ halted' = FALSE
    /\ gap' = [e \in Entries |-> -1]
    /\ UNCHANGED <<broker, fired>>

\* Mutant: the entries are gone over from where the last tick stopped.
TickEndsOff ==
    /\ mode = "tick"
    /\ cursor > Len(Schedule)
    /\ mode' = "sleep"
    /\ wait' = [e \in Entries |-> Left(wait[e], lag)]
    /\ lag' = 0
    /\ UNCHANGED <<cursor, halted, broker, gap, fired>>

\* tick returns and the loop sleeps.
TickEnds ==
    /\ mode = "tick"
    /\ cursor > Len(Schedule)
    /\ mode' = "sleep"
    /\ cursor' = 1
    /\ wait' = [e \in Entries |-> Left(wait[e], lag)]
    /\ lag' = 0
    /\ UNCHANGED <<halted, broker, gap, fired>>

\* Time passes, outside ticks as long as it likes.
TimePasses ==
    /\ mode \in {"sleep", "tick"}
    /\ IF mode = "tick"
         THEN lag < MaxLag /\ lag' = lag + 1 /\ UNCHANGED wait
         ELSE wait' = [e \in Entries |-> Left(wait[e], 1)] /\ UNCHANGED lag
    /\ gap' = [e \in Entries |->
                IF gap[e] = -1 \/ gap[e] >= Long(e) THEN gap[e] ELSE gap[e] + 1]
    /\ UNCHANGED <<mode, cursor, halted, broker, fired>>

\* SIGTERM or SIGINT.
BeatStop ==
    /\ mode \in {"sleep", "tick"}
    /\ ~ halted
    /\ halted' = TRUE
    /\ UNCHANGED <<mode, cursor, wait, lag, broker, gap, fired>>

\* The broker fails or comes back.
BrokerTurns ==
    /\ broker' = IF broker = "up" THEN "down" ELSE "up"
    /\ UNCHANGED <<mode, cursor, wait, lag, halted, gap, fired>>

\* What the process does by itself once it runs.
BeatStep(registered) ==
    \/ TickStart
    \/ BeatEnds
    \/ TickPasses
    \/ TickSkips(registered)
    \/ TickFires(registered)
    \/ TickEnds

BeatEnvironment == TimePasses \/ BeatStop \/ BrokerTurns

BeatSpec(registered) ==
    /\ BeatInit
    /\ [][\/ BeatStart
          \/ BeatStep(registered) \/ TickRaises(registered)
          \/ BeatEnvironment]_beatVars

-----------------------------------------------------------------------------
\* Properties

\* "each due entry once": a process never hands an entry over twice within its
\* interval, less the time that one tick may take before it reaches the entry;
\* after a long pause it hands it over once and not once per missed interval.
IntervalsKept ==
    [][\A e \in Entries :
        fired'[e] # fired[e] => gap[e] = -1 \/ gap[e] >= Every[e] - MaxLag]_beatVars
=============================================================================
