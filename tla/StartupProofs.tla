--------------------------- MODULE StartupProofs ---------------------------
(***************************************************************************)
(* Proofs about Startup: what setup leaves behind, for any list of         *)
(* applications, any number of threads, and errors in any phase.           *)
(***************************************************************************)
EXTENDS Startup, TLAPS

\* Outside of populate the index is the first.
IndexReset == \A t \in Callers : boot[t] \notin Populating => entry[t] = 1

\* Phase 1 has labelled the entries it has passed ...
PassedLabelled ==
    \A t \in Callers :
        boot[t] \in {"create", "assign"} =>
            \A i \in DOMAIN Installed : i < entry[t] => Labelled(Installed[i])

AssignsEntry == \A t \in Callers : boot[t] = "assign" => entry[t] <= Len(Installed)

\* ... and then all of them.
AllLabelled ==
    \A t \in Callers :
        boot[t] \in {"import", "ready"} => appsReady /\ \A a \in Apps : Labelled(a)

\* A label is taken once, and the first entry is the first to take one.
LabelsOnce == \A i, j \in DOMAIN configs : configs[i] = configs[j] => i = j
FirstLabelled == configs # <<>> => Len(Installed) > 0 /\ Labelled(Installed[1])

\* Phase 2 has imported the configurations it has passed, phase 3 finds all
\* imported and has called the hooks it has passed.
PassedImported ==
    \A t \in Callers :
        boot[t] = "import" =>
            \A i \in DOMAIN configs : i < entry[t] => configs[i] \in imported
PassedHooked ==
    \A t \in Callers :
        boot[t] = "ready" =>
            /\ imported = Apps
            /\ \A i \in DOMAIN configs : i < entry[t] => hooked[configs[i]] > 0
HookedLate == \A a \in Apps : hooked[a] > 0 => imported = Apps

Complete ==
    ready => /\ appsReady
             /\ \A a \in Apps : Labelled(a) /\ a \in imported /\ hooked[a] > 0

\* After a failure everything that may still enter populate meets the label of
\* the first entry.
Failure ==
    failed =>
        /\ ~ ready
        /\ configs # <<>>
        /\ \A t \in Callers : boot[t] \notin {"assign", "import", "ready"}
        /\ \A t \in Callers : boot[t] = "create" => entry[t] = 1

\* Without a race one thread populates at a time, and finds nothing hooked
\* before it begins phase 3.
Alone ==
    ~ raced =>
        /\ \A s, t \in Callers : boot[s] \in Populating /\ boot[t] \in Populating => s = t
        /\ \A t \in Callers : boot[t] \in {"create", "assign"} => ~ appsReady
        /\ ~ appsReady => \A a \in Apps : hooked[a] = 0
        /\ \A t \in Callers : boot[t] = "import" => \A a \in Apps : hooked[a] = 0
        /\ \A t \in Callers :
            boot[t] = "ready" =>
                \A i \in DOMAIN configs : i >= entry[t] => hooked[configs[i]] = 0
        /\ \A a \in Apps : hooked[a] <= 1

StartupInv ==
    /\ StartupTypeOK
    /\ IndexReset
    /\ PassedLabelled
    /\ AssignsEntry
    /\ AllLabelled
    /\ LabelsOnce
    /\ FirstLabelled
    /\ PassedImported
    /\ PassedHooked
    /\ HookedLate
    /\ Complete
    /\ Failure
    /\ Alone
-----------------------------------------------------------------------------
\* Steps

\* setup finds no settings.
LEMMA SetupKeeps ==
    ASSUME StartupInv, NEW t \in Callers, Setup(t)
    PROVE  StartupInv'
<1>1. StartupTypeOK'
  BY StartupAssumption DEF StartupInv, StartupTypeOK, Setup, BootAt, Populating, Positions, flagVars, Labelled
<1>2. IndexReset'
  BY StartupAssumption DEF StartupInv, StartupTypeOK, IndexReset, Setup, BootAt, Populating, flagVars, Labelled
<1>3. PassedLabelled'
  BY StartupAssumption DEF StartupInv, StartupTypeOK, PassedLabelled, Setup, BootAt, Populating, flagVars,
        Labelled
<1>4. AssignsEntry'
  BY StartupAssumption DEF StartupInv, StartupTypeOK, AssignsEntry, Setup, BootAt, Populating, flagVars,
        Labelled
<1>5. AllLabelled'
  BY StartupAssumption DEF StartupInv, StartupTypeOK, AllLabelled, Setup, BootAt, Populating, flagVars, Labelled
<1>6. LabelsOnce'
  BY StartupAssumption DEF StartupInv, StartupTypeOK, LabelsOnce, Setup, BootAt, Populating, flagVars, Labelled
<1>7. FirstLabelled'
  BY StartupAssumption DEF StartupInv, StartupTypeOK, FirstLabelled, Setup, BootAt, Populating, flagVars,
        Labelled
<1>8. PassedImported'
  BY StartupAssumption DEF StartupInv, StartupTypeOK, PassedImported, Setup, BootAt, Populating, flagVars,
        Labelled
<1>9. PassedHooked'
  BY StartupAssumption DEF StartupInv, StartupTypeOK, PassedHooked, Setup, BootAt, Populating, flagVars,
        Labelled
<1>10. HookedLate'
  BY StartupAssumption DEF StartupInv, StartupTypeOK, HookedLate, Setup, BootAt, Populating, flagVars, Labelled
<1>11. Complete'
  BY StartupAssumption DEF StartupInv, StartupTypeOK, Complete, Setup, BootAt, Populating, flagVars, Labelled
<1>12. Failure'
  BY StartupAssumption DEF StartupInv, StartupTypeOK, Failure, Setup, BootAt, Populating, flagVars, Labelled
<1>13. Alone'
  BY StartupAssumption DEF StartupInv, StartupTypeOK, Alone, Setup, BootAt, Populating, flagVars, Labelled
<1>. QED BY <1>1, <1>2, <1>3, <1>4, <1>5, <1>6, <1>7, <1>8, <1>9, <1>10, <1>11, <1>12, <1>13 DEF StartupInv

\* _setup begins.
LEMMA SetupLoadsKeeps ==
    ASSUME StartupInv, NEW t \in Callers, SetupLoads(t)
    PROVE  StartupInv'
<1>1. StartupTypeOK'
  BY StartupAssumption DEF StartupInv, StartupTypeOK, SetupLoads, BootAt, Populating, Positions, flagVars,
        Labelled
<1>2. IndexReset'
  BY StartupAssumption DEF StartupInv, StartupTypeOK, IndexReset, SetupLoads, BootAt, Populating, flagVars,
        Labelled
<1>3. PassedLabelled'
  BY StartupAssumption DEF StartupInv, StartupTypeOK, PassedLabelled, SetupLoads, BootAt, Populating,
        flagVars, Labelled
<1>4. AssignsEntry'
  BY StartupAssumption DEF StartupInv, StartupTypeOK, AssignsEntry, SetupLoads, BootAt, Populating,
        flagVars, Labelled
<1>5. AllLabelled'
  BY StartupAssumption DEF StartupInv, StartupTypeOK, AllLabelled, SetupLoads, BootAt, Populating, flagVars,
        Labelled
<1>6. LabelsOnce'
  BY StartupAssumption DEF StartupInv, StartupTypeOK, LabelsOnce, SetupLoads, BootAt, Populating, flagVars,
        Labelled
<1>7. FirstLabelled'
  BY StartupAssumption DEF StartupInv, StartupTypeOK, FirstLabelled, SetupLoads, BootAt, Populating,
        flagVars, Labelled
<1>8. PassedImported'
  BY StartupAssumption DEF StartupInv, StartupTypeOK, PassedImported, SetupLoads, BootAt, Populating,
        flagVars, Labelled
<1>9. PassedHooked'
  BY StartupAssumption DEF StartupInv, StartupTypeOK, PassedHooked, SetupLoads, BootAt, Populating,
        flagVars, Labelled
<1>10. HookedLate'
  BY StartupAssumption DEF StartupInv, StartupTypeOK, HookedLate, SetupLoads, BootAt, Populating, flagVars,
        Labelled
<1>11. Complete'
  BY StartupAssumption DEF StartupInv, StartupTypeOK, Complete, SetupLoads, BootAt, Populating, flagVars,
        Labelled
<1>12. Failure'
  BY StartupAssumption DEF StartupInv, StartupTypeOK, Failure, SetupLoads, BootAt, Populating, flagVars,
        Labelled
<1>13. Alone'
  BY StartupAssumption DEF StartupInv, StartupTypeOK, Alone, SetupLoads, BootAt, Populating, flagVars, Labelled
<1>. QED BY <1>1, <1>2, <1>3, <1>4, <1>5, <1>6, <1>7, <1>8, <1>9, <1>10, <1>11, <1>12, <1>13 DEF StartupInv

\* Another thread was faster.
LEMMA SetupRefusedKeeps ==
    ASSUME StartupInv, NEW t \in Callers, SetupRefused(t)
    PROVE  StartupInv'
<1>1. StartupTypeOK'
  BY StartupAssumption DEF StartupInv, StartupTypeOK, SetupRefused, BootRaises, BootAt, EntryAt, Populating,
        Positions, flagVars, Labelled
<1>2. IndexReset'
  BY StartupAssumption DEF StartupInv, StartupTypeOK, IndexReset, SetupRefused, BootRaises, BootAt, EntryAt,
        Populating, flagVars, Labelled
<1>3. PassedLabelled'
  BY StartupAssumption DEF StartupInv, StartupTypeOK, PassedLabelled, SetupRefused, BootRaises, BootAt,
        EntryAt, Populating, flagVars, Labelled
<1>4. AssignsEntry'
  BY StartupAssumption DEF StartupInv, StartupTypeOK, AssignsEntry, SetupRefused, BootRaises, BootAt,
        EntryAt, Populating, flagVars, Labelled
<1>5. AllLabelled'
  BY StartupAssumption DEF StartupInv, StartupTypeOK, AllLabelled, SetupRefused, BootRaises, BootAt,
        EntryAt, Populating, flagVars, Labelled
<1>6. LabelsOnce'
  BY StartupAssumption DEF StartupInv, StartupTypeOK, LabelsOnce, SetupRefused, BootRaises, BootAt, EntryAt,
        Populating, flagVars, Labelled
<1>7. FirstLabelled'
  BY StartupAssumption DEF StartupInv, StartupTypeOK, FirstLabelled, SetupRefused, BootRaises, BootAt,
        EntryAt, Populating, flagVars, Labelled
<1>8. PassedImported'
  BY StartupAssumption DEF StartupInv, StartupTypeOK, PassedImported, SetupRefused, BootRaises, BootAt,
        EntryAt, Populating, flagVars, Labelled
<1>9. PassedHooked'
  BY StartupAssumption DEF StartupInv, StartupTypeOK, PassedHooked, SetupRefused, BootRaises, BootAt,
        EntryAt, Populating, flagVars, Labelled
<1>10. HookedLate'
  BY StartupAssumption DEF StartupInv, StartupTypeOK, HookedLate, SetupRefused, BootRaises, BootAt, EntryAt,
        Populating, flagVars, Labelled
<1>11. Complete'
  BY StartupAssumption DEF StartupInv, StartupTypeOK, Complete, SetupRefused, BootRaises, BootAt, EntryAt,
        Populating, flagVars, Labelled
<1>12. Failure'
  BY StartupAssumption DEF StartupInv, StartupTypeOK, Failure, SetupRefused, BootRaises, BootAt, EntryAt,
        Populating, flagVars, Labelled
<1>13. Alone'
  BY StartupAssumption DEF StartupInv, StartupTypeOK, Alone, SetupRefused, BootRaises, BootAt, EntryAt,
        Populating, flagVars, Labelled
<1>. QED BY <1>1, <1>2, <1>3, <1>4, <1>5, <1>6, <1>7, <1>8, <1>9, <1>10, <1>11, <1>12, <1>13 DEF StartupInv

\* populate is entered, or not.
LEMMA SetupLoadedKeeps ==
    ASSUME StartupInv, NEW t \in Callers, SetupLoaded(t)
    PROVE  StartupInv'
<1>1. StartupTypeOK'
  BY StartupAssumption DEF StartupInv, StartupTypeOK, SetupLoaded, EnterPopulate, BootAt, Populating,
        Positions, flagVars, Labelled
<1>2. IndexReset'
  BY StartupAssumption DEF StartupInv, StartupTypeOK, IndexReset, SetupLoaded, EnterPopulate, BootAt,
        Populating, flagVars, Labelled
<1>3. PassedLabelled'
  <2>. SUFFICES ASSUME NEW s \in Callers, (boot[s] \in {"create", "assign"})',
                       NEW i \in DOMAIN Installed, i < entry'[s]
                PROVE  Labelled(Installed[i])'
    BY DEF PassedLabelled
  <2>1. configs' = configs /\ entry' = entry
    BY DEF SetupLoaded
  <2>2. s # t
    BY StartupAssumption, <2>1 DEF StartupInv, IndexReset, SetupLoaded, Populating
  <2>3. boot'[s] = boot[s]
    BY <2>2 DEF StartupInv, StartupTypeOK, SetupLoaded, EnterPopulate, BootAt
  <2>. QED BY <2>1, <2>3 DEF StartupInv, PassedLabelled, Labelled
<1>4. AssignsEntry'
  BY StartupAssumption DEF StartupInv, StartupTypeOK, AssignsEntry, SetupLoaded, EnterPopulate, BootAt,
        Populating, flagVars, Labelled
<1>5. AllLabelled'
  BY StartupAssumption DEF StartupInv, StartupTypeOK, AllLabelled, SetupLoaded, EnterPopulate, BootAt,
        Populating, flagVars, Labelled
<1>6. LabelsOnce'
  BY StartupAssumption DEF StartupInv, StartupTypeOK, LabelsOnce, SetupLoaded, EnterPopulate, BootAt,
        Populating, flagVars, Labelled
<1>7. FirstLabelled'
  BY StartupAssumption DEF StartupInv, StartupTypeOK, FirstLabelled, SetupLoaded, EnterPopulate, BootAt,
        Populating, flagVars, Labelled
<1>8. PassedImported'
  BY StartupAssumption DEF StartupInv, StartupTypeOK, PassedImported, SetupLoaded, EnterPopulate, BootAt,
        Populating, flagVars, Labelled
<1>9. PassedHooked'
  BY StartupAssumption DEF StartupInv, StartupTypeOK, PassedHooked, SetupLoaded, EnterPopulate, BootAt,
        Populating, flagVars, Labelled
<1>10. HookedLate'
  BY StartupAssumption DEF StartupInv, StartupTypeOK, HookedLate, SetupLoaded, EnterPopulate, BootAt,
        Populating, flagVars, Labelled
<1>11. Complete'
  BY StartupAssumption DEF StartupInv, StartupTypeOK, Complete, SetupLoaded, EnterPopulate, BootAt,
        Populating, flagVars, Labelled
<1>12. Failure'
  BY StartupAssumption DEF StartupInv, StartupTypeOK, Failure, IndexReset, AllLabelled, SetupLoaded,
        EnterPopulate, BootAt, Populating, flagVars, Labelled
<1>13. Alone'
  <2>1. UNCHANGED <<configs, appsReady, entry, hooked>> /\ boot[t] \notin Populating
    BY DEF SetupLoaded, flagVars, Populating
  <2>2. CASE ready \/ appsReady
    <3>1. raced' = raced /\ \A s \in Callers : boot'[s] # "out" => boot'[s] = boot[s]
      BY <2>2 DEF StartupInv, StartupTypeOK, SetupLoaded, EnterPopulate, BootAt
    <3>. QED BY <2>1, <3>1 DEF StartupInv, Alone, Populating
  <2>3. CASE ~ (ready \/ appsReady)
    <3>1. SUFFICES ASSUME ~ raced' PROVE Alone'
      BY DEF Alone
    <3>2. ~ raced /\ \A s \in Callers \ {t} : boot[s] \notin {"create", "assign"}
      BY <2>3, <3>1 DEF SetupLoaded, EnterPopulate
    <3>3. \A s \in Callers \ {t} : boot[s] \notin Populating
      BY <2>3, <3>2 DEF StartupInv, AllLabelled, Populating
    <3>4. boot' = [boot EXCEPT ![t] = "create"]
      BY <2>3 DEF SetupLoaded, EnterPopulate, BootAt
    <3>. QED BY <2>1, <2>3, <3>2, <3>3, <3>4 DEF StartupInv, StartupTypeOK, Alone, Populating
  <2>. QED BY <2>2, <2>3
<1>. QED BY <1>1, <1>2, <1>3, <1>4, <1>5, <1>6, <1>7, <1>8, <1>9, <1>10, <1>11, <1>12, <1>13 DEF StartupInv

\* populate is entered, or not.
LEMMA SetupAgainKeeps ==
    ASSUME StartupInv, NEW t \in Callers, SetupAgain(t)
    PROVE  StartupInv'
<1>1. StartupTypeOK'
  BY StartupAssumption DEF StartupInv, StartupTypeOK, SetupAgain, EnterPopulate, BootAt, Populating,
        Positions, flagVars, Labelled
<1>2. IndexReset'
  BY StartupAssumption DEF StartupInv, StartupTypeOK, IndexReset, SetupAgain, EnterPopulate, BootAt,
        Populating, flagVars, Labelled
<1>3. PassedLabelled'
  <2>. SUFFICES ASSUME NEW s \in Callers, (boot[s] \in {"create", "assign"})',
                       NEW i \in DOMAIN Installed, i < entry'[s]
                PROVE  Labelled(Installed[i])'
    BY DEF PassedLabelled
  <2>1. configs' = configs /\ entry' = entry
    BY DEF SetupAgain
  <2>2. s # t
    BY StartupAssumption, <2>1 DEF StartupInv, IndexReset, SetupAgain, Populating
  <2>3. boot'[s] = boot[s]
    BY <2>2 DEF StartupInv, StartupTypeOK, SetupAgain, EnterPopulate, BootAt
  <2>. QED BY <2>1, <2>3 DEF StartupInv, PassedLabelled, Labelled
<1>4. AssignsEntry'
  BY StartupAssumption DEF StartupInv, StartupTypeOK, AssignsEntry, SetupAgain, EnterPopulate, BootAt,
        Populating, flagVars, Labelled
<1>5. AllLabelled'
  BY StartupAssumption DEF StartupInv, StartupTypeOK, AllLabelled, SetupAgain, EnterPopulate, BootAt,
        Populating, flagVars, Labelled
<1>6. LabelsOnce'
  BY StartupAssumption DEF StartupInv, StartupTypeOK, LabelsOnce, SetupAgain, EnterPopulate, BootAt,
        Populating, flagVars, Labelled
<1>7. FirstLabelled'
  BY StartupAssumption DEF StartupInv, StartupTypeOK, FirstLabelled, SetupAgain, EnterPopulate, BootAt,
        Populating, flagVars, Labelled
<1>8. PassedImported'
  BY StartupAssumption DEF StartupInv, StartupTypeOK, PassedImported, SetupAgain, EnterPopulate, BootAt,
        Populating, flagVars, Labelled
<1>9. PassedHooked'
  BY StartupAssumption DEF StartupInv, StartupTypeOK, PassedHooked, SetupAgain, EnterPopulate, BootAt,
        Populating, flagVars, Labelled
<1>10. HookedLate'
  BY StartupAssumption DEF StartupInv, StartupTypeOK, HookedLate, SetupAgain, EnterPopulate, BootAt,
        Populating, flagVars, Labelled
<1>11. Complete'
  BY StartupAssumption DEF StartupInv, StartupTypeOK, Complete, SetupAgain, EnterPopulate, BootAt,
        Populating, flagVars, Labelled
<1>12. Failure'
  BY StartupAssumption DEF StartupInv, StartupTypeOK, Failure, IndexReset, AllLabelled, SetupAgain,
        EnterPopulate, BootAt, Populating, flagVars, Labelled
<1>13. Alone'
  <2>1. UNCHANGED <<configs, appsReady, entry, hooked>> /\ boot[t] \notin Populating
    BY DEF SetupAgain, flagVars, Populating
  <2>2. CASE ready \/ appsReady
    <3>1. raced' = raced /\ \A s \in Callers : boot'[s] # "out" => boot'[s] = boot[s]
      BY <2>2 DEF StartupInv, StartupTypeOK, SetupAgain, EnterPopulate, BootAt
    <3>. QED BY <2>1, <3>1 DEF StartupInv, Alone, Populating
  <2>3. CASE ~ (ready \/ appsReady)
    <3>1. SUFFICES ASSUME ~ raced' PROVE Alone'
      BY DEF Alone
    <3>2. ~ raced /\ \A s \in Callers \ {t} : boot[s] \notin {"create", "assign"}
      BY <2>3, <3>1 DEF SetupAgain, EnterPopulate
    <3>3. \A s \in Callers \ {t} : boot[s] \notin Populating
      BY <2>3, <3>2 DEF StartupInv, AllLabelled, Populating
    <3>4. boot' = [boot EXCEPT ![t] = "create"]
      BY <2>3 DEF SetupAgain, EnterPopulate, BootAt
    <3>. QED BY <2>1, <2>3, <3>2, <3>3, <3>4 DEF StartupInv, StartupTypeOK, Alone, Populating
  <2>. QED BY <2>2, <2>3
<1>. QED BY <1>1, <1>2, <1>3, <1>4, <1>5, <1>6, <1>7, <1>8, <1>9, <1>10, <1>11, <1>12, <1>13 DEF StartupInv

\* After a failure no label is free for the first entry.
LEMMA CreateConfigKeeps ==
    ASSUME StartupInv, NEW t \in Callers, CreateConfig(t)
    PROVE  StartupInv'
<1>1. StartupTypeOK'
  BY StartupAssumption DEF StartupInv, StartupTypeOK, CreateConfig, BootAt, Populating, Positions, flagVars,
        Labelled
<1>2. IndexReset'
  BY StartupAssumption DEF StartupInv, StartupTypeOK, IndexReset, CreateConfig, BootAt, Populating,
        flagVars, Labelled
<1>3. PassedLabelled'
  BY StartupAssumption DEF StartupInv, StartupTypeOK, PassedLabelled, CreateConfig, BootAt, Populating,
        flagVars, Labelled
<1>4. AssignsEntry'
  BY StartupAssumption DEF StartupInv, StartupTypeOK, AssignsEntry, CreateConfig, BootAt, Populating,
        flagVars, Labelled
<1>5. AllLabelled'
  BY StartupAssumption DEF StartupInv, StartupTypeOK, AllLabelled, CreateConfig, BootAt, Populating,
        flagVars, Labelled
<1>6. LabelsOnce'
  BY StartupAssumption DEF StartupInv, StartupTypeOK, LabelsOnce, CreateConfig, BootAt, Populating,
        flagVars, Labelled
<1>7. FirstLabelled'
  BY StartupAssumption DEF StartupInv, StartupTypeOK, FirstLabelled, CreateConfig, BootAt, Populating,
        flagVars, Labelled
<1>8. PassedImported'
  BY StartupAssumption DEF StartupInv, StartupTypeOK, PassedImported, CreateConfig, BootAt, Populating,
        flagVars, Labelled
<1>9. PassedHooked'
  BY StartupAssumption DEF StartupInv, StartupTypeOK, PassedHooked, CreateConfig, BootAt, Populating,
        flagVars, Labelled
<1>10. HookedLate'
  BY StartupAssumption DEF StartupInv, StartupTypeOK, HookedLate, CreateConfig, BootAt, Populating,
        flagVars, Labelled
<1>11. Complete'
  BY StartupAssumption DEF StartupInv, StartupTypeOK, Complete, CreateConfig, BootAt, Populating, flagVars,
        Labelled
<1>12. Failure'
  BY StartupAssumption DEF StartupInv, StartupTypeOK, Failure, FirstLabelled, CreateConfig, BootAt,
        Populating, flagVars, Labelled
<1>13. Alone'
  BY StartupAssumption DEF StartupInv, StartupTypeOK, Alone, CreateConfig, BootAt, Populating, flagVars,
        Labelled
<1>. QED BY <1>1, <1>2, <1>3, <1>4, <1>5, <1>6, <1>7, <1>8, <1>9, <1>10, <1>11, <1>12, <1>13 DEF StartupInv

\* setup raises.
LEMMA CreateDuplicateKeeps ==
    ASSUME StartupInv, NEW t \in Callers, CreateDuplicate(t)
    PROVE  StartupInv'
<1>1. StartupTypeOK'
  BY StartupAssumption DEF StartupInv, StartupTypeOK, CreateDuplicate, BootRaises, BootAt, EntryAt,
        Populating, Positions, flagVars, Labelled
<1>2. IndexReset'
  BY StartupAssumption DEF StartupInv, StartupTypeOK, IndexReset, CreateDuplicate, BootRaises, BootAt,
        EntryAt, Populating, flagVars, Labelled
<1>3. PassedLabelled'
  BY StartupAssumption DEF StartupInv, StartupTypeOK, PassedLabelled, CreateDuplicate, BootRaises, BootAt,
        EntryAt, Populating, flagVars, Labelled
<1>4. AssignsEntry'
  BY StartupAssumption DEF StartupInv, StartupTypeOK, AssignsEntry, CreateDuplicate, BootRaises, BootAt,
        EntryAt, Populating, flagVars, Labelled
<1>5. AllLabelled'
  BY StartupAssumption DEF StartupInv, StartupTypeOK, AllLabelled, CreateDuplicate, BootRaises, BootAt,
        EntryAt, Populating, flagVars, Labelled
<1>6. LabelsOnce'
  BY StartupAssumption DEF StartupInv, StartupTypeOK, LabelsOnce, CreateDuplicate, BootRaises, BootAt,
        EntryAt, Populating, flagVars, Labelled
<1>7. FirstLabelled'
  BY StartupAssumption DEF StartupInv, StartupTypeOK, FirstLabelled, CreateDuplicate, BootRaises, BootAt,
        EntryAt, Populating, flagVars, Labelled
<1>8. PassedImported'
  BY StartupAssumption DEF StartupInv, StartupTypeOK, PassedImported, CreateDuplicate, BootRaises, BootAt,
        EntryAt, Populating, flagVars, Labelled
<1>9. PassedHooked'
  BY StartupAssumption DEF StartupInv, StartupTypeOK, PassedHooked, CreateDuplicate, BootRaises, BootAt,
        EntryAt, Populating, flagVars, Labelled
<1>10. HookedLate'
  BY StartupAssumption DEF StartupInv, StartupTypeOK, HookedLate, CreateDuplicate, BootRaises, BootAt,
        EntryAt, Populating, flagVars, Labelled
<1>11. Complete'
  BY StartupAssumption DEF StartupInv, StartupTypeOK, Complete, CreateDuplicate, BootRaises, BootAt,
        EntryAt, Populating, flagVars, Labelled
<1>12. Failure'
  BY StartupAssumption DEF StartupInv, StartupTypeOK, Failure, CreateDuplicate, BootRaises, BootAt, EntryAt,
        Populating, flagVars, Labelled
<1>13. Alone'
  BY StartupAssumption DEF StartupInv, StartupTypeOK, Alone, CreateDuplicate, BootRaises, BootAt, EntryAt,
        Populating, flagVars, Labelled
<1>. QED BY <1>1, <1>2, <1>3, <1>4, <1>5, <1>6, <1>7, <1>8, <1>9, <1>10, <1>11, <1>12, <1>13 DEF StartupInv

\* A label is registered, unless it was meanwhile: the registry only grows.
LEMMA AssignConfigKeeps ==
    ASSUME StartupInv, NEW t \in Callers, AssignConfig(t)
    PROVE  StartupInv'
<1>0. entry[t] \in DOMAIN Installed
  BY StartupAssumption DEF StartupInv, StartupTypeOK, AssignsEntry, AssignConfig
<1>a. PICK a \in Apps : a = Installed[entry[t]]
  BY <1>0 DEF Apps
<1>b. /\ configs' \in Seq(Apps)
      /\ Len(configs') >= Len(configs)
      /\ \A i \in DOMAIN configs : i \in DOMAIN configs' /\ configs'[i] = configs[i]
      /\ \A i \in DOMAIN configs' \ DOMAIN configs : configs'[i] = a /\ i = Len(configs) + 1
      /\ Len(configs') >= 1
  BY <1>a DEF StartupInv, StartupTypeOK, AssignConfig, Labelled
<1>c. \A b \in Apps : Labelled(b) => Labelled(b)'
  BY <1>b DEF Labelled
<1>d. Labelled(a)'
  <2>1. CASE Labelled(a)
    BY <2>1, <1>a, <1>c
  <2>2. CASE ~ Labelled(a)
    <3>1. configs' = Append(configs, a)
      BY <1>a, <2>2 DEF AssignConfig
    <3>2. Len(configs) + 1 \in DOMAIN configs' /\ configs'[Len(configs) + 1] = a
      BY <3>1 DEF StartupInv, StartupTypeOK
    <3>. QED BY <3>2 DEF Labelled
  <2>. QED BY <2>1, <2>2
<1>e. (\A b \in Apps : Labelled(b)) => configs' = configs
  BY <1>a DEF AssignConfig
<1>1. StartupTypeOK'
  BY <1>b DEF StartupInv, StartupTypeOK, AssignConfig, BootAt, EntryAt, Positions, flagVars
<1>2. IndexReset'
  BY DEF StartupInv, StartupTypeOK, IndexReset, AssignConfig, BootAt, EntryAt, Populating
<1>3. PassedLabelled'
  <2>1. \A i \in DOMAIN Installed : Installed[i] \in Apps
    BY DEF Apps
  <2>2. \A s \in Callers, i \in DOMAIN Installed :
            (boot[s] \in {"create", "assign"})' /\ i < entry'[s] =>
                \/ boot[s] \in {"create", "assign"} /\ i < entry[s]
                \/ i = entry[t]
    BY StartupAssumption DEF StartupInv, StartupTypeOK, AssignConfig, BootAt, EntryAt
  <2>. QED BY <2>1, <2>2, <1>a, <1>c, <1>d DEF StartupInv, PassedLabelled
<1>4. AssignsEntry'
  BY DEF StartupInv, StartupTypeOK, AssignsEntry, AssignConfig, BootAt, EntryAt
<1>5. AllLabelled'
  BY <1>c DEF StartupInv, StartupTypeOK, AllLabelled, AssignConfig, BootAt, flagVars
<1>6. LabelsOnce'
  <2>1. LabelsOnce
    BY DEF StartupInv
  <2>2. CASE Labelled(a)
    <3>1. configs' = configs
      BY <1>a, <2>2 DEF AssignConfig
    <3>. QED BY <2>1, <3>1 DEF LabelsOnce
  <2>3. CASE ~ Labelled(a)
    <3>1. \A i \in DOMAIN configs : configs[i] # a
      BY <2>3 DEF Labelled
    <3>. QED BY <1>b, <2>1, <3>1 DEF LabelsOnce
  <2>. QED BY <2>2, <2>3
<1>7. FirstLabelled'
  <2>1. Len(Installed) > 0 /\ 1 \in DOMAIN Installed
    BY <1>0, StartupAssumption
  <2>2. Installed[1] \in Apps
    BY <2>1 DEF Apps
  <2>3. CASE entry[t] = 1
    BY <2>1, <2>3, <1>a, <1>d DEF FirstLabelled
  <2>4. CASE entry[t] # 1
    <3>1. Labelled(Installed[1])
      BY <2>1, <2>4 DEF StartupInv, StartupTypeOK, PassedLabelled, AssignConfig
    <3>. QED BY <3>1, <2>1, <2>2, <1>c DEF FirstLabelled
  <2>. QED BY <2>3, <2>4
<1>8. PassedImported'
  <2>. SUFFICES ASSUME NEW s \in Callers, boot'[s] = "import",
                       NEW i \in DOMAIN configs', i < entry'[s]
                PROVE  configs'[i] \in imported'
    BY DEF PassedImported
  <2>1. boot[s] = "import" /\ entry'[s] = entry[s] /\ imported' = imported
    BY DEF StartupInv, StartupTypeOK, AssignConfig, BootAt, EntryAt
  <2>2. configs' = configs
    BY <2>1, <1>e DEF StartupInv, AllLabelled
  <2>. QED BY <2>1, <2>2 DEF StartupInv, PassedImported
<1>9. PassedHooked'
  <2>. SUFFICES ASSUME NEW s \in Callers, boot'[s] = "ready"
                PROVE  /\ imported' = Apps
                       /\ \A i \in DOMAIN configs' : i < entry'[s] => hooked'[configs'[i]] > 0
    BY DEF PassedHooked
  <2>1. boot[s] = "ready" /\ entry'[s] = entry[s] /\ imported' = imported /\ hooked' = hooked
    BY DEF StartupInv, StartupTypeOK, AssignConfig, BootAt, EntryAt
  <2>2. configs' = configs
    BY <2>1, <1>e DEF StartupInv, AllLabelled
  <2>. QED BY <2>1, <2>2 DEF StartupInv, PassedHooked
<1>10. HookedLate'
  BY DEF StartupInv, HookedLate, AssignConfig
<1>11. Complete'
  BY <1>c DEF StartupInv, Complete, AssignConfig, flagVars
<1>12. Failure'
  BY DEF StartupInv, Failure, AssignConfig
<1>13. Alone'
  <2>1. CASE raced
    BY <2>1 DEF Alone, AssignConfig
  <2>2. CASE ~ raced
    <3>1. \A s \in Callers : boot'[s] \in Populating => boot[s] \in Populating /\ s = t
      BY <2>2 DEF StartupInv, StartupTypeOK, Alone, AssignConfig, BootAt, Populating
    <3>2. boot'[t] = "create" /\ boot[t] = "assign"
      BY DEF StartupInv, StartupTypeOK, AssignConfig, BootAt
    <3>3. hooked' = hooked /\ appsReady' = appsReady /\ raced' = raced
      BY DEF AssignConfig, flagVars
    <3>. QED BY <2>2, <3>1, <3>2, <3>3 DEF StartupInv, Alone, Populating
  <2>. QED BY <2>1, <2>2
<1>. QED BY <1>1, <1>2, <1>3, <1>4, <1>5, <1>6, <1>7, <1>8, <1>9, <1>10, <1>11, <1>12, <1>13 DEF StartupInv

\* All entries are passed, and so all labels taken.
LEMMA CreateDoneKeeps ==
    ASSUME StartupInv, NEW t \in Callers, CreateDone(t)
    PROVE  StartupInv'
<1>1. StartupTypeOK'
  BY StartupAssumption DEF StartupInv, StartupTypeOK, CreateDone, BootAt, EntryAt, Populating, Positions,
        flagVars, Labelled
<1>2. IndexReset'
  BY StartupAssumption DEF StartupInv, StartupTypeOK, IndexReset, CreateDone, BootAt, EntryAt, Populating,
        flagVars, Labelled
<1>3. PassedLabelled'
  BY StartupAssumption DEF StartupInv, StartupTypeOK, PassedLabelled, CreateDone, BootAt, EntryAt,
        Populating, flagVars, Labelled
<1>4. AssignsEntry'
  BY StartupAssumption DEF StartupInv, StartupTypeOK, AssignsEntry, CreateDone, BootAt, EntryAt, Populating,
        flagVars, Labelled
<1>5. AllLabelled'
  BY StartupAssumption DEF StartupInv, StartupTypeOK, AllLabelled, PassedLabelled, Apps, CreateDone, BootAt,
        EntryAt, Populating, flagVars, Labelled
<1>6. LabelsOnce'
  BY StartupAssumption DEF StartupInv, StartupTypeOK, LabelsOnce, CreateDone, BootAt, EntryAt, Populating,
        flagVars, Labelled
<1>7. FirstLabelled'
  BY StartupAssumption DEF StartupInv, StartupTypeOK, FirstLabelled, CreateDone, BootAt, EntryAt,
        Populating, flagVars, Labelled
<1>8. PassedImported'
  BY StartupAssumption DEF StartupInv, StartupTypeOK, PassedImported, CreateDone, BootAt, EntryAt,
        Populating, flagVars, Labelled
<1>9. PassedHooked'
  BY StartupAssumption DEF StartupInv, StartupTypeOK, PassedHooked, CreateDone, BootAt, EntryAt, Populating,
        flagVars, Labelled
<1>10. HookedLate'
  BY StartupAssumption DEF StartupInv, StartupTypeOK, HookedLate, CreateDone, BootAt, EntryAt, Populating,
        flagVars, Labelled
<1>11. Complete'
  BY StartupAssumption DEF StartupInv, StartupTypeOK, Complete, CreateDone, BootAt, EntryAt, Populating,
        flagVars, Labelled
<1>12. Failure'
  BY StartupAssumption DEF StartupInv, StartupTypeOK, Failure, FirstLabelled, CreateDone, BootAt, EntryAt,
        Populating, flagVars, Labelled
<1>13. Alone'
  BY StartupAssumption DEF StartupInv, StartupTypeOK, Alone, CreateDone, BootAt, EntryAt, Populating,
        flagVars, Labelled
<1>. QED BY <1>1, <1>2, <1>3, <1>4, <1>5, <1>6, <1>7, <1>8, <1>9, <1>10, <1>11, <1>12, <1>13 DEF StartupInv

\* A configuration is passed in phase 2.
LEMMA ImportModulesKeeps ==
    ASSUME StartupInv, NEW t \in Callers, ImportModules(t)
    PROVE  StartupInv'
<1>1. StartupTypeOK'
  BY StartupAssumption DEF StartupInv, StartupTypeOK, ImportModules, EntryAt, Populating, Positions,
        flagVars, Labelled
<1>2. IndexReset'
  BY StartupAssumption DEF StartupInv, StartupTypeOK, IndexReset, ImportModules, EntryAt, Populating,
        flagVars, Labelled
<1>3. PassedLabelled'
  BY StartupAssumption DEF StartupInv, StartupTypeOK, PassedLabelled, ImportModules, EntryAt, Populating,
        flagVars, Labelled
<1>4. AssignsEntry'
  BY StartupAssumption DEF StartupInv, StartupTypeOK, AssignsEntry, ImportModules, EntryAt, Populating,
        flagVars, Labelled
<1>5. AllLabelled'
  BY StartupAssumption DEF StartupInv, StartupTypeOK, AllLabelled, ImportModules, EntryAt, Populating,
        flagVars, Labelled
<1>6. LabelsOnce'
  BY StartupAssumption DEF StartupInv, StartupTypeOK, LabelsOnce, ImportModules, EntryAt, Populating,
        flagVars, Labelled
<1>7. FirstLabelled'
  BY StartupAssumption DEF StartupInv, StartupTypeOK, FirstLabelled, ImportModules, EntryAt, Populating,
        flagVars, Labelled
<1>8. PassedImported'
  BY StartupAssumption DEF StartupInv, StartupTypeOK, PassedImported, ImportModules, EntryAt, Populating,
        flagVars, Labelled
<1>9. PassedHooked'
  BY StartupAssumption DEF StartupInv, StartupTypeOK, PassedHooked, ImportModules, EntryAt, Populating,
        flagVars, Labelled
<1>10. HookedLate'
  BY StartupAssumption DEF StartupInv, StartupTypeOK, HookedLate, ImportModules, EntryAt, Populating,
        flagVars, Labelled
<1>11. Complete'
  BY StartupAssumption DEF StartupInv, StartupTypeOK, Complete, ImportModules, EntryAt, Populating,
        flagVars, Labelled
<1>12. Failure'
  BY StartupAssumption DEF StartupInv, StartupTypeOK, Failure, ImportModules, EntryAt, Populating, flagVars,
        Labelled
<1>13. Alone'
  BY StartupAssumption DEF StartupInv, StartupTypeOK, Alone, ImportModules, EntryAt, Populating, flagVars,
        Labelled
<1>. QED BY <1>1, <1>2, <1>3, <1>4, <1>5, <1>6, <1>7, <1>8, <1>9, <1>10, <1>11, <1>12, <1>13 DEF StartupInv

\* All configurations are passed, and so all applications imported.
LEMMA ImportDoneKeeps ==
    ASSUME StartupInv, NEW t \in Callers, ImportDone(t)
    PROVE  StartupInv'
<1>1. StartupTypeOK'
  BY StartupAssumption DEF StartupInv, StartupTypeOK, ImportDone, BootAt, EntryAt, Populating, Positions,
        flagVars, Labelled
<1>2. IndexReset'
  BY StartupAssumption DEF StartupInv, StartupTypeOK, IndexReset, ImportDone, BootAt, EntryAt, Populating,
        flagVars, Labelled
<1>3. PassedLabelled'
  BY StartupAssumption DEF StartupInv, StartupTypeOK, PassedLabelled, ImportDone, BootAt, EntryAt,
        Populating, flagVars, Labelled
<1>4. AssignsEntry'
  BY StartupAssumption DEF StartupInv, StartupTypeOK, AssignsEntry, ImportDone, BootAt, EntryAt, Populating,
        flagVars, Labelled
<1>5. AllLabelled'
  BY StartupAssumption DEF StartupInv, StartupTypeOK, AllLabelled, ImportDone, BootAt, EntryAt, Populating,
        flagVars, Labelled
<1>6. LabelsOnce'
  BY StartupAssumption DEF StartupInv, StartupTypeOK, LabelsOnce, ImportDone, BootAt, EntryAt, Populating,
        flagVars, Labelled
<1>7. FirstLabelled'
  BY StartupAssumption DEF StartupInv, StartupTypeOK, FirstLabelled, ImportDone, BootAt, EntryAt,
        Populating, flagVars, Labelled
<1>8. PassedImported'
  BY StartupAssumption DEF StartupInv, StartupTypeOK, PassedImported, ImportDone, BootAt, EntryAt,
        Populating, flagVars, Labelled
<1>9. PassedHooked'
  <2>1. \A b \in Apps : b \in imported
    BY DEF StartupInv, StartupTypeOK, PassedImported, AllLabelled, ImportDone, Labelled
  <2>2. imported = Apps
    BY <2>1 DEF StartupInv, StartupTypeOK
  <2>. QED BY <2>2 DEF StartupInv, StartupTypeOK, PassedHooked, ImportDone, BootAt, EntryAt
<1>10. HookedLate'
  BY StartupAssumption DEF StartupInv, StartupTypeOK, HookedLate, ImportDone, BootAt, EntryAt, Populating,
        flagVars, Labelled
<1>11. Complete'
  BY StartupAssumption DEF StartupInv, StartupTypeOK, Complete, ImportDone, BootAt, EntryAt, Populating,
        flagVars, Labelled
<1>12. Failure'
  BY StartupAssumption DEF StartupInv, StartupTypeOK, Failure, ImportDone, BootAt, EntryAt, Populating,
        flagVars, Labelled
<1>13. Alone'
  BY StartupAssumption DEF StartupInv, StartupTypeOK, Alone, ImportDone, BootAt, EntryAt, Populating,
        flagVars, Labelled
<1>. QED BY <1>1, <1>2, <1>3, <1>4, <1>5, <1>6, <1>7, <1>8, <1>9, <1>10, <1>11, <1>12, <1>13 DEF StartupInv

\* A hook is called, which without a race was not called before.
LEMMA RunReadyKeeps ==
    ASSUME StartupInv, NEW t \in Callers, RunReady(t)
    PROVE  StartupInv'
<1>a. configs[entry[t]] \in Apps /\ entry[t] \in DOMAIN configs
  BY DEF StartupInv, StartupTypeOK, RunReady
<1>1. StartupTypeOK'
  BY <1>a, StartupAssumption DEF StartupInv, StartupTypeOK, RunReady, EntryAt, Populating, Positions,
        flagVars, Labelled
<1>2. IndexReset'
  BY <1>a, StartupAssumption DEF StartupInv, StartupTypeOK, IndexReset, RunReady, EntryAt, Populating,
        flagVars, Labelled
<1>3. PassedLabelled'
  BY <1>a, StartupAssumption DEF StartupInv, StartupTypeOK, PassedLabelled, RunReady, EntryAt, Populating,
        flagVars, Labelled
<1>4. AssignsEntry'
  BY <1>a, StartupAssumption DEF StartupInv, StartupTypeOK, AssignsEntry, RunReady, EntryAt, Populating,
        flagVars, Labelled
<1>5. AllLabelled'
  BY <1>a, StartupAssumption DEF StartupInv, StartupTypeOK, AllLabelled, RunReady, EntryAt, Populating,
        flagVars, Labelled
<1>6. LabelsOnce'
  BY <1>a, StartupAssumption DEF StartupInv, StartupTypeOK, LabelsOnce, RunReady, EntryAt, Populating,
        flagVars, Labelled
<1>7. FirstLabelled'
  BY <1>a, StartupAssumption DEF StartupInv, StartupTypeOK, FirstLabelled, RunReady, EntryAt, Populating,
        flagVars, Labelled
<1>8. PassedImported'
  BY <1>a, StartupAssumption DEF StartupInv, StartupTypeOK, PassedImported, RunReady, EntryAt, Populating,
        flagVars, Labelled
<1>9. PassedHooked'
  BY <1>a, StartupAssumption DEF StartupInv, StartupTypeOK, PassedHooked, RunReady, EntryAt, Populating,
        flagVars, Labelled
<1>10. HookedLate'
  BY <1>a, StartupAssumption DEF StartupInv, StartupTypeOK, HookedLate, PassedHooked, RunReady, EntryAt,
        Populating, flagVars, Labelled
<1>11. Complete'
  BY <1>a, StartupAssumption DEF StartupInv, StartupTypeOK, Complete, PassedHooked, RunReady, EntryAt,
        Populating, flagVars, Labelled
<1>12. Failure'
  BY <1>a, StartupAssumption DEF StartupInv, StartupTypeOK, Failure, RunReady, EntryAt, Populating,
        flagVars, Labelled
<1>13. Alone'
  <2>. SUFFICES ASSUME ~ raced PROVE Alone'
    BY DEF Alone, RunReady
  <2>1. UNCHANGED <<configs, appsReady, boot, raced>> /\ boot[t] = "ready"
    BY DEF RunReady, flagVars
  <2>2. appsReady /\ \A s \in Callers : boot[s] \in Populating => s = t
    BY <2>1 DEF StartupInv, Alone, AllLabelled, Populating
  <2>3. hooked[configs[entry[t]]] = 0
    BY <1>a, <2>1 DEF StartupInv, StartupTypeOK, Alone
  <2>4. \A b \in Apps : hooked'[b] = IF b = configs[entry[t]] THEN 1 ELSE hooked[b]
    BY <1>a, <2>3 DEF StartupInv, StartupTypeOK, RunReady
  <2>5. \A i \in DOMAIN configs : i >= entry'[t] => hooked'[configs[i]] = 0
    <3>. SUFFICES ASSUME NEW i \in DOMAIN configs, i >= entry[t] + 1 PROVE hooked'[configs[i]] = 0
      BY DEF StartupInv, StartupTypeOK, RunReady, EntryAt
    <3>1. configs[i] # configs[entry[t]] /\ configs[i] \in Apps
      BY <1>a DEF StartupInv, StartupTypeOK, LabelsOnce
    <3>. QED BY <2>1, <2>4, <3>1 DEF StartupInv, StartupTypeOK, Alone
  <2>6. \A b \in Apps : hooked'[b] <= 1
    BY <2>4 DEF StartupInv, StartupTypeOK, Alone
  <2>. QED BY <2>1, <2>2, <2>5, <2>6 DEF StartupInv, Alone, Populating
<1>. QED BY <1>1, <1>2, <1>3, <1>4, <1>5, <1>6, <1>7, <1>8, <1>9, <1>10, <1>11, <1>12, <1>13 DEF StartupInv

\* All hooks are passed.
LEMMA ReadyDoneKeeps ==
    ASSUME StartupInv, NEW t \in Callers, ReadyDone(t)
    PROVE  StartupInv'
<1>1. StartupTypeOK'
  BY StartupAssumption DEF StartupInv, StartupTypeOK, ReadyDone, BootAt, EntryAt, Populating, Positions,
        flagVars, Labelled
<1>2. IndexReset'
  BY StartupAssumption DEF StartupInv, StartupTypeOK, IndexReset, ReadyDone, BootAt, EntryAt, Populating,
        flagVars, Labelled
<1>3. PassedLabelled'
  BY StartupAssumption DEF StartupInv, StartupTypeOK, PassedLabelled, ReadyDone, BootAt, EntryAt,
        Populating, flagVars, Labelled
<1>4. AssignsEntry'
  BY StartupAssumption DEF StartupInv, StartupTypeOK, AssignsEntry, ReadyDone, BootAt, EntryAt, Populating,
        flagVars, Labelled
<1>5. AllLabelled'
  BY StartupAssumption DEF StartupInv, StartupTypeOK, AllLabelled, ReadyDone, BootAt, EntryAt, Populating,
        flagVars, Labelled
<1>6. LabelsOnce'
  BY StartupAssumption DEF StartupInv, StartupTypeOK, LabelsOnce, ReadyDone, BootAt, EntryAt, Populating,
        flagVars, Labelled
<1>7. FirstLabelled'
  BY StartupAssumption DEF StartupInv, StartupTypeOK, FirstLabelled, ReadyDone, BootAt, EntryAt, Populating,
        flagVars, Labelled
<1>8. PassedImported'
  BY StartupAssumption DEF StartupInv, StartupTypeOK, PassedImported, ReadyDone, BootAt, EntryAt,
        Populating, flagVars, Labelled
<1>9. PassedHooked'
  BY StartupAssumption DEF StartupInv, StartupTypeOK, PassedHooked, ReadyDone, BootAt, EntryAt, Populating,
        flagVars, Labelled
<1>10. HookedLate'
  BY StartupAssumption DEF StartupInv, StartupTypeOK, HookedLate, ReadyDone, BootAt, EntryAt, Populating,
        flagVars, Labelled
<1>11. Complete'
  BY StartupAssumption DEF StartupInv, StartupTypeOK, Complete, PassedHooked, AllLabelled, ReadyDone,
        BootAt, EntryAt, Populating, flagVars, Labelled
<1>12. Failure'
  BY StartupAssumption DEF StartupInv, StartupTypeOK, Failure, ReadyDone, BootAt, EntryAt, Populating,
        flagVars, Labelled
<1>13. Alone'
  BY StartupAssumption DEF StartupInv, StartupTypeOK, Alone, ReadyDone, BootAt, EntryAt, Populating,
        flagVars, Labelled
<1>. QED BY <1>1, <1>2, <1>3, <1>4, <1>5, <1>6, <1>7, <1>8, <1>9, <1>10, <1>11, <1>12, <1>13 DEF StartupInv

\* setup raises.
LEMMA BootFailsKeeps ==
    ASSUME StartupInv, NEW t \in Callers, BootFails(t)
    PROVE  StartupInv'
<1>1. StartupTypeOK'
  BY StartupAssumption DEF StartupInv, StartupTypeOK, BootFails, BootRaises, BootAt, EntryAt, Populating,
        Positions, flagVars, Labelled
<1>2. IndexReset'
  BY StartupAssumption DEF StartupInv, StartupTypeOK, IndexReset, BootFails, BootRaises, BootAt, EntryAt,
        Populating, flagVars, Labelled
<1>3. PassedLabelled'
  BY StartupAssumption DEF StartupInv, StartupTypeOK, PassedLabelled, BootFails, BootRaises, BootAt,
        EntryAt, Populating, flagVars, Labelled
<1>4. AssignsEntry'
  BY StartupAssumption DEF StartupInv, StartupTypeOK, AssignsEntry, BootFails, BootRaises, BootAt, EntryAt,
        Populating, flagVars, Labelled
<1>5. AllLabelled'
  BY StartupAssumption DEF StartupInv, StartupTypeOK, AllLabelled, BootFails, BootRaises, BootAt, EntryAt,
        Populating, flagVars, Labelled
<1>6. LabelsOnce'
  BY StartupAssumption DEF StartupInv, StartupTypeOK, LabelsOnce, BootFails, BootRaises, BootAt, EntryAt,
        Populating, flagVars, Labelled
<1>7. FirstLabelled'
  BY StartupAssumption DEF StartupInv, StartupTypeOK, FirstLabelled, BootFails, BootRaises, BootAt, EntryAt,
        Populating, flagVars, Labelled
<1>8. PassedImported'
  BY StartupAssumption DEF StartupInv, StartupTypeOK, PassedImported, BootFails, BootRaises, BootAt,
        EntryAt, Populating, flagVars, Labelled
<1>9. PassedHooked'
  BY StartupAssumption DEF StartupInv, StartupTypeOK, PassedHooked, BootFails, BootRaises, BootAt, EntryAt,
        Populating, flagVars, Labelled
<1>10. HookedLate'
  BY StartupAssumption DEF StartupInv, StartupTypeOK, HookedLate, BootFails, BootRaises, BootAt, EntryAt,
        Populating, flagVars, Labelled
<1>11. Complete'
  BY StartupAssumption DEF StartupInv, StartupTypeOK, Complete, BootFails, BootRaises, BootAt, EntryAt,
        Populating, flagVars, Labelled
<1>12. Failure'
  BY StartupAssumption DEF StartupInv, StartupTypeOK, Failure, BootFails, BootRaises, BootAt, EntryAt,
        Populating, flagVars, Labelled
<1>13. Alone'
  BY StartupAssumption DEF StartupInv, StartupTypeOK, Alone, BootFails, BootRaises, BootAt, EntryAt,
        Populating, flagVars, Labelled
<1>. QED BY <1>1, <1>2, <1>3, <1>4, <1>5, <1>6, <1>7, <1>8, <1>9, <1>10, <1>11, <1>12, <1>13 DEF StartupInv

\* Nothing has begun.
LEMMA StartsStartup == ASSUME StartupInit PROVE StartupInv
<1>1. StartupTypeOK
  <2>1. <<>> \in Seq(Apps)
    OBVIOUS
  <2>2. hooked \in [Apps -> Nat]
    BY DEF StartupInit
  <2>3. boot \in [Callers -> Positions] /\ entry \in [Callers -> Nat \ {0}]
    BY DEF StartupInit, Positions
  <2>4. {appsReady, modelsReady, ready, raced, failed} \subseteq BOOLEAN
    BY DEF StartupInit
  <2>5. configured \in BOOLEAN /\ configs \in Seq(Apps) /\ imported \subseteq Apps
    BY <2>1 DEF StartupInit
  <2>. QED BY <2>2, <2>3, <2>4, <2>5 DEF StartupTypeOK
<1>2. /\ configs = <<>> /\ ~ ready /\ ~ appsReady /\ ~ failed
      /\ \A a \in Apps : hooked[a] = 0
      /\ \A t \in Callers : boot[t] \notin Populating /\ entry[t] = 1
  BY DEF StartupInit, Populating
<1>3. \A t \in Callers : boot[t] \notin {"create", "assign", "import", "ready"}
  BY <1>2 DEF Populating
<1>4. IndexReset /\ PassedLabelled /\ AssignsEntry /\ AllLabelled /\ PassedImported /\ PassedHooked
  BY <1>2, <1>3 DEF IndexReset, PassedLabelled, AssignsEntry, AllLabelled, PassedImported, PassedHooked
<1>5. LabelsOnce /\ FirstLabelled /\ HookedLate /\ Complete /\ Failure
  BY <1>2 DEF LabelsOnce, FirstLabelled, HookedLate, Complete, Failure
<1>6. Alone
  BY <1>2, <1>3 DEF Alone
<1>. QED BY <1>1, <1>4, <1>5, <1>6 DEF StartupInv

\* Steps of the rest of the process.
LEMMA StartupStays == ASSUME StartupInv, UNCHANGED startupVars PROVE StartupInv'
BY DEF startupVars, flagVars, StartupInv, StartupTypeOK, IndexReset, PassedLabelled, AssignsEntry,
    AllLabelled, LabelsOnce, FirstLabelled, PassedImported, PassedHooked, HookedLate, Complete, Failure,
    Alone, Labelled

\* Every step of setup keeps the invariant.
LEMMA StartupStepKeeps == ASSUME StartupInv, NEW t \in Callers, StartupStep(t) PROVE StartupInv'
BY SetupKeeps, SetupLoadsKeeps, SetupRefusedKeeps, SetupLoadedKeeps, SetupAgainKeeps, CreateConfigKeeps,
    CreateDuplicateKeeps, AssignConfigKeeps, CreateDoneKeeps, ImportModulesKeeps, ImportDoneKeeps,
    RunReadyKeeps, ReadyDoneKeeps, BootFailsKeeps DEF StartupStep, BootProceeds

\* The invariant says what the runs check.
LEMMA StartupInvImplies == ASSUME StartupInv PROVE ReadyMeansComplete /\ HooksOnce /\ FailedStaysFailed
<1>1. ReadyMeansComplete
  BY DEF StartupInv, Complete, ReadyMeansComplete
<1>2. HooksOnce
  BY DEF StartupInv, StartupTypeOK, HookedLate, Alone, HooksOnce
<1>3. FailedStaysFailed
  BY DEF StartupInv, Failure, FailedStaysFailed
<1>. QED BY <1>1, <1>2, <1>3
=============================================================================
