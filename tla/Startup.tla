------------------------------ MODULE Startup ------------------------------
(***************************************************************************)
(* ronnie.setup(): the settings are loaded (LazySettings._setup) and the   *)
(* application registry is populated in three phases (Apps.populate), by   *)
(* the thread that boots a command or by any thread that needs the         *)
(* registry (db.collect_tables), in whatever order they come.              *)
(***************************************************************************)
EXTENDS Integers, Sequences

CONSTANTS
    Callers,     \* the threads that call setup
    Installed,   \* INSTALLED_APPS, as a sequence of applications
    BootFaults   \* where booting may raise: see Stages

Stages == {"settings", "create", "import", "ready"}
Apps == {Installed[i] : i \in DOMAIN Installed}

ASSUME StartupAssumption ==
    /\ Installed \in Seq(Apps)
    /\ \A i, j \in DOMAIN Installed : Installed[i] = Installed[j] => i = j
    /\ BootFaults \subseteq Stages

\* Where a thread is: not in setup; about to load the settings, loading them;
\* before an entry of phase 1 and between its label check and its assignment;
\* before an application of phase 2 and of phase 3.
Positions == {"out", "configure", "loading", "create", "assign", "import", "ready"}
Populating == {"create", "assign", "import", "ready"}

VARIABLES
    configured,   \* settings._wrapped is not None
    configs,      \* Apps.app_configs, in the order of insertion
    appsReady,    \* Apps.apps_ready
    modelsReady,  \* Apps.models_ready
    ready,        \* Apps.ready
    boot,         \* boot[t]: where the thread t is in setup
    entry,        \* entry[t]: the index of the application t is at
    imported,     \* the applications whose models and tasks are imported
    hooked,       \* history: hooked[a], how often ready() of a was called
    raced,        \* history: two threads were in phase 1 at the same time
    failed        \* history: populate raised after it had registered something,
                  \* and no other thread was populating

flagVars == <<appsReady, modelsReady, ready>>
startupVars == <<configured, configs, flagVars, boot, entry, imported, hooked, raced, failed>>

StartupTypeOK ==
    /\ configured \in BOOLEAN
    /\ configs \in Seq(Apps)
    /\ {appsReady, modelsReady, ready, raced, failed} \subseteq BOOLEAN
    /\ boot \in [Callers -> Positions]
    /\ entry \in [Callers -> Nat \ {0}]
    /\ imported \subseteq Apps
    /\ hooked \in [Apps -> Nat]

StartupInit ==
    /\ configured = FALSE
    /\ configs = <<>>
    /\ appsReady = FALSE
    /\ modelsReady = FALSE
    /\ ready = FALSE
    /\ boot = [t \in Callers |-> "out"]
    /\ entry = [t \in Callers |-> 1]
    /\ imported = {}
    /\ hooked = [a \in Apps |-> 0]
    /\ raced = FALSE
    /\ failed = FALSE

Labelled(a) == \E i \in DOMAIN configs : configs[i] = a
BootAt(t, where) == boot' = [boot EXCEPT ![t] = where]
EntryAt(t, i) == entry' = [entry EXCEPT ![t] = i]

\* setup raises.
BootRaises(t) ==
    /\ BootAt(t, "out")
    /\ EntryAt(t, 1)
    /\ failed' = (failed \/ /\ ~ ready /\ configs # <<>>
                            /\ \A s \in Callers \ {t} : boot[s] \notin Populating)
    /\ UNCHANGED <<configured, configs, flagVars, imported, hooked, raced>>

-----------------------------------------------------------------------------
\* The settings

\* setup finds no settings.
Setup(t) ==
    /\ boot[t] = "out"
    /\ ~ configured
    /\ BootAt(t, "configure")
    /\ UNCHANGED <<configured, configs, flagVars, entry, imported, hooked, raced, failed>>

\* _setup looks again, and begins to import the settings module.
SetupLoads(t) ==
    /\ boot[t] = "configure"
    /\ ~ configured
    /\ BootAt(t, "loading")
    /\ UNCHANGED <<configured, configs, flagVars, entry, imported, hooked, raced, failed>>

\* Another thread was faster: "Settings already configured."
SetupRefused(t) ==
    /\ boot[t] = "configure"
    /\ configured
    /\ BootRaises(t)

\* populate is entered: it returns at once when everything is ready, and
\* raises when phase 1 was completed before.
EnterPopulate(t) ==
    IF ready \/ appsReady
      THEN BootAt(t, "out") /\ UNCHANGED raced
      ELSE /\ BootAt(t, "create")
           /\ raced' = (raced \/ \E s \in Callers \ {t} : boot[s] \in {"create", "assign"})

\* The settings are in place.
SetupLoaded(t) ==
    /\ boot[t] = "loading"
    /\ configured' = TRUE
    /\ EnterPopulate(t)
    /\ UNCHANGED <<configs, flagVars, entry, imported, hooked, failed>>

\* setup finds the settings configured.
SetupAgain(t) ==
    /\ boot[t] = "out"
    /\ configured
    /\ EnterPopulate(t)
    /\ UNCHANGED <<configured, configs, flagVars, entry, imported, hooked, failed>>

-----------------------------------------------------------------------------
\* populate

\* Phase 1: the next entry has a configuration whose label is not taken.
CreateConfig(t) ==
    /\ boot[t] = "create"
    /\ entry[t] <= Len(Installed)
    /\ ~ Labelled(Installed[entry[t]])
    /\ BootAt(t, "assign")
    /\ UNCHANGED <<configured, configs, flagVars, entry, imported, hooked, raced, failed>>

\* Mutant: an entry that is there already is passed over.
CreateSkips(t) ==
    /\ boot[t] = "create"
    /\ entry[t] <= Len(Installed)
    /\ Labelled(Installed[entry[t]])
    /\ EntryAt(t, entry[t] + 1)
    /\ UNCHANGED <<configured, configs, flagVars, boot, imported, hooked, raced, failed>>

\* The label is taken, by an earlier call of populate that failed or by that
\* of another thread.
CreateDuplicate(t) ==
    /\ boot[t] = "create"
    /\ entry[t] <= Len(Installed)
    /\ Labelled(Installed[entry[t]])
    /\ BootRaises(t)

\* self.app_configs[config.label] = config
AssignConfig(t) ==
    /\ boot[t] = "assign"
    /\ LET a == Installed[entry[t]] IN
        configs' = IF Labelled(a) THEN configs ELSE Append(configs, a)
    /\ BootAt(t, "create")
    /\ EntryAt(t, entry[t] + 1)
    /\ UNCHANGED <<configured, flagVars, imported, hooked, raced, failed>>

\* Phase 1 is complete.
CreateDone(t) ==
    /\ boot[t] = "create"
    /\ entry[t] > Len(Installed)
    /\ appsReady' = TRUE
    /\ BootAt(t, "import")
    /\ EntryAt(t, 1)
    /\ UNCHANGED <<configured, configs, modelsReady, ready, imported, hooked, raced, failed>>

\* Phase 2: the models and tasks of the next configuration are imported.
ImportModules(t) ==
    /\ boot[t] = "import"
    /\ entry[t] <= Len(configs)
    /\ imported' = imported \cup {configs[entry[t]]}
    /\ EntryAt(t, entry[t] + 1)
    /\ UNCHANGED <<configured, configs, flagVars, boot, hooked, raced, failed>>

\* Mutant: phase 3 begins before all modules are imported.
ImportDoneEarly(t) ==
    /\ boot[t] = "import"
    /\ modelsReady' = TRUE
    /\ BootAt(t, "ready")
    /\ EntryAt(t, 1)
    /\ UNCHANGED <<configured, configs, appsReady, ready, imported, hooked, raced, failed>>

ImportDone(t) ==
    /\ boot[t] = "import"
    /\ entry[t] > Len(configs)
    /\ modelsReady' = TRUE
    /\ BootAt(t, "ready")
    /\ EntryAt(t, 1)
    /\ UNCHANGED <<configured, configs, appsReady, ready, imported, hooked, raced, failed>>

\* Phase 3: ready() of the next configuration.
RunReady(t) ==
    /\ boot[t] = "ready"
    /\ entry[t] <= Len(configs)
    /\ hooked' = [hooked EXCEPT ![configs[entry[t]]] = @ + 1]
    /\ EntryAt(t, entry[t] + 1)
    /\ UNCHANGED <<configured, configs, flagVars, boot, imported, raced, failed>>

\* Mutant: the registry is ready before the hooks have run.
ReadyBeforeHooks(t) ==
    /\ boot[t] = "ready"
    /\ ready' = TRUE
    /\ BootAt(t, "out")
    /\ EntryAt(t, 1)
    /\ UNCHANGED <<configured, configs, appsReady, modelsReady, imported, hooked, raced, failed>>

ReadyDone(t) ==
    /\ boot[t] = "ready"
    /\ entry[t] > Len(configs)
    /\ ready' = TRUE
    /\ BootAt(t, "out")
    /\ EntryAt(t, 1)
    /\ UNCHANGED <<configured, configs, appsReady, modelsReady, imported, hooked, raced, failed>>

\* The settings module, an entry, a models or tasks module or a ready() hook
\* raises, and so does setup; nothing is taken back.
BootFails(t) ==
    /\ boot[t] \in Populating \cup {"loading"}
    /\ (IF boot[t] = "loading" THEN "settings" ELSE boot[t]) \in BootFaults
    /\ entry[t] <= Len(Installed)
    /\ BootRaises(t)

\* What neither calls a hook nor raises an error of an application.
BootProceeds(t) ==
    \/ Setup(t)
    \/ SetupLoads(t)
    \/ SetupRefused(t)
    \/ SetupLoaded(t)
    \/ SetupAgain(t)
    \/ CreateConfig(t)
    \/ CreateDuplicate(t)
    \/ AssignConfig(t)
    \/ CreateDone(t)
    \/ ImportModules(t)
    \/ ImportDone(t)
    \/ ReadyDone(t)

StartupStep(t) == BootProceeds(t) \/ RunReady(t) \/ BootFails(t)

StartupNext == \E t \in Callers : StartupStep(t)
StartupSpec == StartupInit /\ [][StartupNext]_startupVars

-----------------------------------------------------------------------------
\* Properties

\* "ready exactly after a complete population": when ready is set, every
\* entry has its configuration, its models and tasks are imported and its
\* hook has run, whatever failed before and however many threads took part.
ReadyMeansComplete ==
    ready => \A a \in Apps : Labelled(a) /\ a \in imported /\ hooked[a] > 0

\* ready() is "called once, after all models load" (apps.py): once, unless two
\* threads were in phase 1 together, where both may pass the check for a taken
\* label; and never before the models and tasks of all applications are there.
HooksOnce ==
    \A a \in Apps :
        /\ hooked[a] > 0 => imported = Apps
        /\ hooked[a] > 1 => raced

\* A process whose populate failed half-way, with no other under way, never
\* becomes ready: every later call of setup fails too, with another error (a
\* duplicate label, or populate not being reentrant), though setup is "safe to
\* call multiple times".
FailedStaysFailed == failed => ~ ready
=============================================================================
