------------------------------ MODULE Process ------------------------------
(***************************************************************************)
(* A process of a ronnie project.  It boots with ronnie.setup(), whose     *)
(* ready() hooks connect receivers and whose imports register tasks, and   *)
(* then does what its command is for:                                      *)
(*   "boot"   several threads boot the process at the same time;           *)
(*   "serve"  the threads of a server use a signal;                        *)
(*   "beat"   the scheduler hands over the tasks that are registered;      *)
(*   "test"   a test overrides a setting that other threads read.          *)
(* A beat process that ends by an error is started again.                  *)
(***************************************************************************)
EXTENDS Signals, Startup, Beat, Settings

CONSTANTS
    Main,      \* the thread that runs the command
    HookOf,    \* HookOf[a]: the receiver that ready() of a connects
    AppOf      \* AppOf[e]: the application with the task of the entry e

ASSUME ProcessAssumption ==
    /\ Main \in Callers
    /\ HookOf \in [Apps -> Receivers]
    /\ DOMAIN AppOf = Entries

VARIABLES
    command,   \* what the process is for
    deployed   \* "broken" while booting may raise, "good" otherwise

processVars == <<signalVars, startupVars, beatVars, settingsVars, command, deployed>>

ProcessTypeOK ==
    /\ command \in {"boot", "serve", "beat", "test"}
    /\ deployed \in {"good", "broken"}
    /\ SignalsTypeOK
    /\ StartupTypeOK
    /\ BeatTypeOK
    /\ SettingsTypeOK

ProcessInit ==
    /\ command \in {"boot", "serve", "beat", "test"}
    /\ deployed = "broken"
    /\ SignalsInit
    /\ StartupInit
    /\ BeatInit
    /\ SettingsInit

\* The tasks that importing the applications has registered.
Registered == {e \in Entries : AppOf[e] \in imported}

\* The command runs: the process is booted, and setup has returned.
Booted == ready /\ boot[Main] = "out"

-----------------------------------------------------------------------------
\* Steps

\* A step of setup.  Its hooks connect their receivers.
BootStep(t) ==
    /\ command = "boot" \/ t = Main
    /\ mode = "off"
    /\ \/ BootProceeds(t) /\ UNCHANGED signalVars
       \/ RunReady(t) /\ Connect(HookOf[configs[entry[t]]])
       \/ deployed = "broken" /\ BootFails(t) /\ UNCHANGED signalVars
    /\ UNCHANGED <<beatVars, settingsVars, command, deployed>>

ServeStep ==
    /\ command = "serve" /\ Booted
    /\ SignalsNext
    /\ UNCHANGED <<startupVars, beatVars, settingsVars, command, deployed>>

TestStep ==
    /\ command = "test" /\ Booted
    /\ SettingsNext
    /\ UNCHANGED <<signalVars, startupVars, beatVars, command, deployed>>

\* ronnie beat: Beat().run()
BeatBegins ==
    /\ command = "beat" /\ Booted
    /\ BeatStart
    /\ UNCHANGED <<signalVars, startupVars, settingsVars, command, deployed>>

BeatRuns ==
    /\ command = "beat"
    /\ BeatStep(Registered)
    /\ UNCHANGED <<signalVars, startupVars, settingsVars, command, deployed>>

TimeGoesOn ==
    /\ command = "beat"
    /\ TimePasses
    /\ UNCHANGED <<signalVars, startupVars, settingsVars, command, deployed>>

\* What setup had put into the memory of the process is gone.
NewProcess ==
    /\ connected' = {}
    /\ wanted' = [u \in Uids |-> Nobody]
    /\ contested' = {}
    /\ configured' = FALSE
    /\ configs' = <<>>
    /\ appsReady' = FALSE
    /\ modelsReady' = FALSE
    /\ ready' = FALSE
    /\ imported' = {}
    /\ hooked' = [a \in Apps |-> 0]
    /\ failed' = FALSE
    /\ UNCHANGED <<alive, phase, kind, targets, dead, heard, due, boot, entry, raced>>

\* The broker refuses a task: the process ends, and another begins.
BeatCrashes ==
    /\ command = "beat"
    /\ TickRaises(Registered)
    /\ NewProcess
    /\ UNCHANGED <<settingsVars, command, deployed>>

\* setup has raised: the command ends, and is started again.
Restart ==
    /\ command = "beat" /\ failed /\ boot[Main] = "out"
    /\ NewProcess
    /\ UNCHANGED <<beatVars, settingsVars, command, deployed>>

\* The operator of a beat process: signals, the broker, a release.
Operate ==
    /\ command = "beat"
    /\ BeatStop \/ BrokerTurns
    /\ UNCHANGED <<signalVars, startupVars, settingsVars, command, deployed>>

Deploy ==
    /\ command = "beat"
    /\ deployed' = IF deployed = "good" THEN "broken" ELSE "good"
    /\ UNCHANGED <<signalVars, startupVars, beatVars, settingsVars, command>>

ProcessNext ==
    \/ \E t \in Callers : BootStep(t)
    \/ ServeStep
    \/ TestStep
    \/ BeatBegins
    \/ BeatRuns
    \/ TimeGoesOn
    \/ BeatCrashes
    \/ Restart
    \/ Operate
    \/ Deploy

\* A process that is running goes on, time passes, and the command does not
\* call setup for ever when it has failed.
ProcessFairness ==
    /\ WF_processVars(BootStep(Main))
    /\ SF_processVars(Restart)
    /\ WF_processVars(BeatBegins)
    /\ WF_processVars(BeatRuns)
    /\ WF_processVars(BeatCrashes)
    /\ WF_processVars(TimeGoesOn)

ProcessSpec == ProcessInit /\ [][ProcessNext]_processVars
FairProcessSpec == ProcessSpec /\ ProcessFairness

-----------------------------------------------------------------------------
\* Properties

\* The registrations of a signal are those the program asked for, whether a
\* hook or a request made them, and whichever threads dispatched, dropped and
\* pruned meanwhile: none is there that was replaced, and none of a live
\* receiver is missing, under a key whose earlier receivers have died neither.
\* Pruning (Signal._live_receivers) may remove a live receiver in one case: it
\* was connected after a send had copied the list with an earlier receiver of
\* its key, and before that send pruned.
RegistrationsKept == OnlyWantedConnected /\ WantedStaysConnected

\* The entries of the schedule that can run.
Runnable == {e \in Enabled : AppOf[e] \in Apps}

\* Every entry whose task an installed application has goes on being handed
\* over, in a process that nobody stops, once the broker stays up and what is
\* deployed boots: whatever ended earlier processes, and however late the
\* ticks come.
BeatGoesOn ==
    [](~ halted) /\ <>[](broker = "up" /\ deployed = "good") /\ [](command = "beat")
        => \A e \in Runnable : []<>(fired[e]) /\ []<>(~ fired[e])
=============================================================================
