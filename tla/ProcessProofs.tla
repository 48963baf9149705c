--------------------------- MODULE ProcessProofs ---------------------------
(***************************************************************************)
(* Proofs about Process: its safety properties, from the invariants of its *)
(* four parts.  Those of Startup have a module of their own, those of      *)
(* Signals, Beat and Settings come first here.                             *)
(***************************************************************************)
EXTENDS Process, StartupProofs, SequenceTheorems

-----------------------------------------------------------------------------
\* Signals, for any number of threads, receivers and keys

\* Only a thread that is about to prune has found receivers dead.
DeadPruned == \A t \in Threads : phase[t] # "prune" => dead[t] = {}

\* A receiver whose key is not contested is connected while it is alive, and no
\* send may be about to prune it.
WantedSafe ==
    \A u \in Uids : \A r \in alive :
        wanted[u] = r /\ u \notin contested => r \in connected /\ \A t \in Threads : ~ Threatens(t, r)

\* Who is connected all the while is in the list of the send, or was called.
DueCovered ==
    \A t \in Threads :
        /\ phase[t] = "resolve" => due[t] \subseteq targets[t]
        /\ phase[t] \in {"prune", "call"} => due[t] \cap alive \subseteq targets[t] \cup heard[t]

\* A receiver is wanted under its own key.
WantedKeyed == \A u \in Uids : wanted[u] # Nobody => UidOf[wanted[u]] = u

SignalsInv ==
    /\ SignalsTypeOK
    /\ OnlyWantedConnected
    /\ WantedSafe
    /\ DeadPruned
    /\ DueCovered
    /\ WantedKeyed

\* A receiver takes the place of those with its key.
LEMMA ConnectKeeps ==
    ASSUME SignalsInv, NEW r \in Receivers, Connect(r)
    PROVE  SignalsInv'
<1>1. SignalsTypeOK'
  BY SignalAssumption DEF SignalsInv, SignalsTypeOK, Connect, Under, KeepDue
<1>2. OnlyWantedConnected'
  BY SignalAssumption DEF SignalsInv, SignalsTypeOK, OnlyWantedConnected, Connect, Under, KeepDue
<1>3. WantedSafe'
  BY SignalAssumption DEF SignalsInv, SignalsTypeOK, WantedSafe, WantedKeyed, Threatens, Under, Connect,
        Under, KeepDue
<1>4. DeadPruned'
  BY SignalAssumption DEF SignalsInv, SignalsTypeOK, DeadPruned, Connect, Under, KeepDue
<1>5. DueCovered'
  BY SignalAssumption DEF SignalsInv, SignalsTypeOK, DueCovered, Connect, Under, KeepDue
<1>6. WantedKeyed'
  BY SignalAssumption DEF SignalsInv, SignalsTypeOK, WantedKeyed, Connect, Under, KeepDue
<1>. QED BY <1>1, <1>2, <1>3, <1>4, <1>5, <1>6 DEF SignalsInv

\* Keys of the dead stay keys of the dead.
LEMMA DropKeeps ==
    ASSUME SignalsInv, NEW r \in Receivers, Drop(r)
    PROVE  SignalsInv'
<1>1. SignalsTypeOK'
  BY SignalAssumption DEF SignalsInv, SignalsTypeOK, Drop
<1>2. OnlyWantedConnected'
  BY SignalAssumption DEF SignalsInv, SignalsTypeOK, OnlyWantedConnected, Drop
<1>3. WantedSafe'
  BY SignalAssumption DEF SignalsInv, SignalsTypeOK, WantedSafe, WantedKeyed, Threatens, Under, Drop
<1>4. DeadPruned'
  BY SignalAssumption DEF SignalsInv, SignalsTypeOK, DeadPruned, Drop
<1>5. DueCovered'
  BY SignalAssumption DEF SignalsInv, SignalsTypeOK, DueCovered, Drop
<1>6. WantedKeyed'
  BY SignalAssumption DEF SignalsInv, SignalsTypeOK, WantedKeyed, Drop
<1>. QED BY <1>1, <1>2, <1>3, <1>4, <1>5, <1>6 DEF SignalsInv

\* A key is left free.
LEMMA DisconnectKeeps ==
    ASSUME SignalsInv, NEW u \in Uids, Disconnect(u)
    PROVE  SignalsInv'
<1>1. SignalsTypeOK'
  BY SignalAssumption DEF SignalsInv, SignalsTypeOK, Disconnect, Under, KeepDue
<1>2. OnlyWantedConnected'
  BY SignalAssumption DEF SignalsInv, SignalsTypeOK, OnlyWantedConnected, Disconnect, Under, KeepDue
<1>3. WantedSafe'
  BY SignalAssumption DEF SignalsInv, SignalsTypeOK, WantedSafe, WantedKeyed, Threatens, Under, Disconnect,
        Under, KeepDue
<1>4. DeadPruned'
  BY SignalAssumption DEF SignalsInv, SignalsTypeOK, DeadPruned, Disconnect, Under, KeepDue
<1>5. DueCovered'
  BY SignalAssumption DEF SignalsInv, SignalsTypeOK, DueCovered, Disconnect, Under, KeepDue
<1>6. WantedKeyed'
  BY SignalAssumption DEF SignalsInv, SignalsTypeOK, WantedKeyed, Disconnect, Under, KeepDue
<1>. QED BY <1>1, <1>2, <1>3, <1>4, <1>5, <1>6 DEF SignalsInv

\* All that are due are in the snapshot.
LEMMA SnapshotKeeps ==
    ASSUME SignalsInv, NEW t \in Threads, NEW what \in Sends, Snapshot(t, what)
    PROVE  SignalsInv'
<1>1. SignalsTypeOK'
  BY SignalAssumption DEF SignalsInv, SignalsTypeOK, Snapshot, Sends
<1>2. OnlyWantedConnected'
  BY SignalAssumption DEF SignalsInv, SignalsTypeOK, OnlyWantedConnected, Snapshot
<1>3. WantedSafe'
  <2> SUFFICES ASSUME NEW u \in Uids, NEW r \in alive, wanted[u] = r, u \notin contested
               PROVE  r \in connected /\ \A s \in Threads : ~ Threatens(s, r)'
    BY DEF WantedSafe, Snapshot
  <2>1. r \in connected /\ \A s \in Threads : ~ Threatens(s, r)
    BY DEF SignalsInv, WantedSafe
  <2>2. UidOf[r] = u /\ dead[t] = {}
    BY SignalAssumption DEF SignalsInv, SignalsTypeOK, WantedKeyed, DeadPruned, Snapshot
  <2>3. Under(connected \ {r}, {u}) = {}
    BY DEF SignalsInv, OnlyWantedConnected, Under
  <2>4. targets' = [targets EXCEPT ![t] = connected] /\ phase' = [phase EXCEPT ![t] = "resolve"] /\ dead' = dead
    BY DEF Snapshot
  <2>5. ASSUME NEW s \in Threads PROVE ~ Threatens(s, r)'
    <3>1. CASE s = t
      <4>1. targets'[t] = connected /\ dead'[t] = {}
        BY <2>2, <2>4 DEF SignalsInv, SignalsTypeOK
      <4>. QED BY <2>2, <2>3, <3>1, <4>1 DEF Threatens
    <3>2. CASE s # t
      <4>1. targets'[s] = targets[s] /\ phase'[s] = phase[s] /\ dead'[s] = dead[s]
        BY <2>4, <3>2 DEF SignalsInv, SignalsTypeOK
      <4>. QED BY <2>1, <4>1 DEF Threatens, Under
    <3>. QED BY <3>1, <3>2
  <2>. QED BY <2>1, <2>5
<1>4. DeadPruned'
  BY SignalAssumption DEF SignalsInv, SignalsTypeOK, DeadPruned, Snapshot
<1>5. DueCovered'
  BY SignalAssumption DEF SignalsInv, SignalsTypeOK, DueCovered, Snapshot
<1>6. WantedKeyed'
  BY SignalAssumption DEF SignalsInv, SignalsTypeOK, WantedKeyed, Snapshot
<1>. QED BY <1>1, <1>2, <1>3, <1>4, <1>5, <1>6 DEF SignalsInv

\* The live ones of the snapshot stay in the list, the keys of the others are dead.
LEMMA ResolveKeeps ==
    ASSUME SignalsInv, NEW t \in Threads, Resolve(t)
    PROVE  SignalsInv'
<1>1. SignalsTypeOK'
  BY SignalAssumption DEF SignalsInv, SignalsTypeOK, Resolve
<1>2. OnlyWantedConnected'
  BY SignalAssumption DEF SignalsInv, SignalsTypeOK, OnlyWantedConnected, Resolve
<1>3. WantedSafe'
  BY SignalAssumption DEF SignalsInv, SignalsTypeOK, WantedSafe, WantedKeyed, Threatens, Under, Resolve
<1>4. DeadPruned'
  BY SignalAssumption DEF SignalsInv, SignalsTypeOK, DeadPruned, Resolve
<1>5. DueCovered'
  BY SignalAssumption DEF SignalsInv, SignalsTypeOK, DueCovered, Resolve
<1>6. WantedKeyed'
  BY SignalAssumption DEF SignalsInv, SignalsTypeOK, WantedKeyed, Resolve
<1>. QED BY <1>1, <1>2, <1>3, <1>4, <1>5, <1>6 DEF SignalsInv

\* What was connected since the snapshot is removed only where it is contested.
LEMMA PruneKeeps ==
    ASSUME SignalsInv, NEW t \in Threads, Prune(t)
    PROVE  SignalsInv'
<1>1. SignalsTypeOK'
  BY SignalAssumption DEF SignalsInv, SignalsTypeOK, Prune, Under, KeepDue
<1>2. OnlyWantedConnected'
  BY SignalAssumption DEF SignalsInv, SignalsTypeOK, OnlyWantedConnected, Prune, Under, KeepDue
<1>3. WantedSafe'
  BY SignalAssumption DEF SignalsInv, SignalsTypeOK, WantedSafe, WantedKeyed, Threatens,
        Prune, Under, KeepDue
<1>4. DeadPruned'
  BY SignalAssumption DEF SignalsInv, SignalsTypeOK, DeadPruned, Prune, Under, KeepDue
<1>5. DueCovered'
  BY SignalAssumption DEF SignalsInv, SignalsTypeOK, DueCovered, Prune, Under, KeepDue
<1>6. WantedKeyed'
  BY SignalAssumption DEF SignalsInv, SignalsTypeOK, WantedKeyed, Prune, Under, KeepDue
<1>. QED BY <1>1, <1>2, <1>3, <1>4, <1>5, <1>6 DEF SignalsInv

\* A receiver goes from the list to those called.
LEMMA CallReceiverKeeps ==
    ASSUME SignalsInv, NEW t \in Threads, CallReceiver(t)
    PROVE  SignalsInv'
<1>1. SignalsTypeOK'
  BY SignalAssumption DEF SignalsInv, SignalsTypeOK, CallReceiver
<1>2. OnlyWantedConnected'
  BY SignalAssumption DEF SignalsInv, SignalsTypeOK, OnlyWantedConnected, CallReceiver
<1>3. WantedSafe'
  BY SignalAssumption DEF SignalsInv, SignalsTypeOK, WantedSafe, WantedKeyed, Threatens, Under, CallReceiver
<1>4. DeadPruned'
  BY SignalAssumption DEF SignalsInv, SignalsTypeOK, DeadPruned, CallReceiver
<1>5. DueCovered'
  BY SignalAssumption DEF SignalsInv, SignalsTypeOK, DueCovered, CallReceiver
<1>6. WantedKeyed'
  BY SignalAssumption DEF SignalsInv, SignalsTypeOK, WantedKeyed, CallReceiver
<1>. QED BY <1>1, <1>2, <1>3, <1>4, <1>5, <1>6 DEF SignalsInv

\* A send is over.
LEMMA SendRaisesKeeps ==
    ASSUME SignalsInv, NEW t \in Threads, SendRaises(t)
    PROVE  SignalsInv'
<1>1. SignalsTypeOK'
  BY SignalAssumption DEF SignalsInv, SignalsTypeOK, SendRaises, LeaveSend, Sends
<1>2. OnlyWantedConnected'
  BY SignalAssumption DEF SignalsInv, SignalsTypeOK, OnlyWantedConnected, SendRaises, LeaveSend
<1>3. WantedSafe'
  BY SignalAssumption DEF SignalsInv, SignalsTypeOK, WantedSafe, WantedKeyed, Threatens, Under, SendRaises,
        LeaveSend
<1>4. DeadPruned'
  BY SignalAssumption DEF SignalsInv, SignalsTypeOK, DeadPruned, SendRaises, LeaveSend
<1>5. DueCovered'
  BY SignalAssumption DEF SignalsInv, SignalsTypeOK, DueCovered, SendRaises, LeaveSend
<1>6. WantedKeyed'
  BY SignalAssumption DEF SignalsInv, SignalsTypeOK, WantedKeyed, SendRaises, LeaveSend
<1>. QED BY <1>1, <1>2, <1>3, <1>4, <1>5, <1>6 DEF SignalsInv

\* A send is over.
LEMMA SendReturnsKeeps ==
    ASSUME SignalsInv, NEW t \in Threads, SendReturns(t)
    PROVE  SignalsInv'
<1>1. SignalsTypeOK'
  BY SignalAssumption DEF SignalsInv, SignalsTypeOK, SendReturns, LeaveSend, Sends
<1>2. OnlyWantedConnected'
  BY SignalAssumption DEF SignalsInv, SignalsTypeOK, OnlyWantedConnected, SendReturns, LeaveSend
<1>3. WantedSafe'
  BY SignalAssumption DEF SignalsInv, SignalsTypeOK, WantedSafe, WantedKeyed, Threatens, Under, SendReturns,
        LeaveSend
<1>4. DeadPruned'
  BY SignalAssumption DEF SignalsInv, SignalsTypeOK, DeadPruned, SendReturns, LeaveSend
<1>5. DueCovered'
  BY SignalAssumption DEF SignalsInv, SignalsTypeOK, DueCovered, SendReturns, LeaveSend
<1>6. WantedKeyed'
  BY SignalAssumption DEF SignalsInv, SignalsTypeOK, WantedKeyed, SendReturns, LeaveSend
<1>. QED BY <1>1, <1>2, <1>3, <1>4, <1>5, <1>6 DEF SignalsInv

\* Nothing is connected at first.
LEMMA StartsSignals == ASSUME SignalsInit PROVE SignalsInv
<1>1. SignalsTypeOK
  BY DEF SignalsInit, SignalsTypeOK, Sends
<1>2. WantedSafe
  BY SignalAssumption DEF SignalsInit, WantedSafe
<1>. QED BY <1>1, <1>2 DEF SignalsInit, SignalsInv, OnlyWantedConnected, DeadPruned, DueCovered, WantedKeyed

\* Steps of the rest of the process.
LEMMA SignalsStay == ASSUME SignalsInv, UNCHANGED signalVars PROVE SignalsInv'
BY DEF signalVars, SignalsInv, SignalsTypeOK, OnlyWantedConnected, WantedSafe, DeadPruned,
    Threatens, Under, DueCovered, WantedKeyed

\* Every step of a thread keeps the invariant.
LEMMA SignalsStepKeeps == ASSUME SignalsInv, SignalsNext PROVE SignalsInv'
BY ConnectKeeps, DropKeeps, DisconnectKeeps, SnapshotKeeps, ResolveKeeps, PruneKeeps, CallReceiverKeeps,
    SendRaisesKeeps, SendReturnsKeeps DEF SignalsNext, Dispatch

\* A send that is over has called all that were due, unless it raised.
LEMMA SignalsStepHears ==
    ASSUME SignalsInv, SignalsNext \/ UNCHANGED signalVars, NEW t \in Threads,
           phase[t] = "call", phase'[t] = "out", kind[t] # "has_listeners"
    PROVE  \/ kind[t] = "send" /\ targets[t] # {}
           \/ due[t] \cap alive \subseteq heard[t]
<1>1. phase'[t] # phase[t]
  OBVIOUS
<1>2. \A s \in Threads : (\A what \in Sends : ~ Snapshot(s, what)) /\ ~ Resolve(s) /\ ~ Prune(s) /\ ~ CallReceiver(s)
  BY <1>1 DEF SignalsInv, SignalsTypeOK, Snapshot, Resolve, Prune, CallReceiver
<1>3. PICK s \in Threads : Dispatch(s)
  BY <1>1 DEF SignalsNext, signalVars, Connect, Drop, Disconnect
<1>4. SendRaises(s) \/ SendReturns(s)
  BY <1>2, <1>3 DEF Dispatch
<1>5. s = t
  BY <1>1, <1>4 DEF SignalsInv, SignalsTypeOK, SendRaises, SendReturns, LeaveSend
<1>. QED BY <1>4, <1>5 DEF SendRaises, SendReturns, SignalsInv, DueCovered

-----------------------------------------------------------------------------
\* Beat

\* What is left of the interval and what has passed since an entry was handed
\* over make up the interval, but for the time the tick took to reach it.
GapCovered ==
    \A e \in Enabled :
        gap[e] = -1 \/ gap[e] >= Long(e) \/ gap[e] + wait[e] >= Every[e] + lag - MaxLag

GapFrom == \A e \in Entries : gap[e] >= -1

BeatInv == BeatTypeOK /\ GapCovered /\ GapFrom

\* Nothing has been handed over.
LEMMA StartsBeat == ASSUME BeatInit PROVE BeatInv
<1>1. Len(Schedule) \in Nat
  BY BeatAssumption
<1>2. BeatTypeOK
  <2>1. cursor \in 1..(Len(Schedule) + 1) /\ lag \in 0..MaxLag
    BY <1>1, BeatAssumption DEF BeatInit
  <2>2. wait \in [Entries -> Nat] /\ \A f \in Enabled : wait[f] <= Every[f]
    BY BeatAssumption DEF BeatInit, Enabled
  <2>3. gap \in [Entries -> Int] /\ fired \in [Entries -> BOOLEAN]
    BY DEF BeatInit
  <2>. QED BY <2>1, <2>2, <2>3 DEF BeatInit, BeatTypeOK
<1>. QED BY <1>2 DEF BeatInit, BeatInv, GapCovered, GapFrom, Enabled

\* Steps of the rest of the process.
LEMMA BeatStays == ASSUME BeatInv, UNCHANGED beatVars PROVE BeatInv'
BY DEF beatVars, BeatInv, BeatTypeOK, GapCovered, GapFrom, Enabled, Long

\* The loop goes round.
LEMMA LoopKeeps == ASSUME BeatInv, BeatStart \/ TickStart \/ BeatEnds PROVE BeatInv'
BY DEF BeatInv, BeatTypeOK, GapCovered, GapFrom, Enabled, Long, BeatStart, TickStart, BeatEnds

\* The cursor goes to the next entry.
LEMMA PassesKeeps == ASSUME BeatInv, TickPasses PROVE BeatInv'
BY BeatAssumption DEF BeatInv, BeatTypeOK, GapCovered, GapFrom, Enabled, Long, TickPasses, AtEntry

\* The entry under the cursor waits for its whole interval.
LEMMA SkipsKeeps == ASSUME BeatInv, NEW R, TickSkips(R) PROVE BeatInv'
<1>. DEFINE e == Schedule[cursor]
<1>1. e \in Entries /\ e \in Enabled /\ Every[e] \in Nat
  BY BeatAssumption DEF BeatInv, BeatTypeOK, TickSkips, AtEntry, Due, Entries, Enabled
<1>2. cursor' \in 1..(Len(Schedule) + 1)
  BY BeatAssumption DEF BeatInv, BeatTypeOK, TickSkips, AtEntry
<1>3. BeatTypeOK'
  BY <1>1, <1>2 DEF BeatInv, BeatTypeOK, TickSkips, Enabled
<1>4. GapCovered'
  <2> SUFFICES ASSUME NEW f \in Enabled
               PROVE  gap'[f] = -1 \/ gap'[f] >= Long(f) \/ gap'[f] + wait'[f] >= Every[f] + lag' - MaxLag
    BY DEF GapCovered, Enabled, Long
  <2>1. gap' = gap /\ lag' = lag
    BY DEF TickSkips
  <2>2. CASE f # e
    BY <2>1, <2>2 DEF BeatInv, BeatTypeOK, GapCovered, Enabled, TickSkips
  <2>3. CASE f = e
    <3>1. wait'[f] = Every[f]
      BY <1>1, <2>3 DEF BeatInv, BeatTypeOK, TickSkips
    <3>2. lag \in Nat /\ lag <= MaxLag /\ MaxLag \in Nat /\ gap[f] \in Int /\ gap[f] >= -1
      BY <1>1, <2>3, BeatAssumption DEF BeatInv, BeatTypeOK, GapFrom
    <3>. QED BY <1>1, <2>1, <2>3, <3>1, <3>2
  <2>. QED BY <2>2, <2>3
<1>5. GapFrom'
  BY DEF BeatInv, GapFrom, TickSkips
<1>. QED BY <1>3, <1>4, <1>5 DEF BeatInv

\* So does one that is handed over.
LEMMA FiresKeeps == ASSUME BeatInv, NEW R, TickFires(R) PROVE BeatInv'
<1>. DEFINE e == Schedule[cursor]
<1>1. e \in Entries /\ e \in Enabled /\ Every[e] \in Nat
  BY BeatAssumption DEF BeatInv, BeatTypeOK, TickFires, AtEntry, Due, Entries, Enabled
<1>2. cursor' \in 1..(Len(Schedule) + 1)
  BY BeatAssumption DEF BeatInv, BeatTypeOK, TickFires, AtEntry
<1>3. BeatTypeOK'
  BY <1>1, <1>2 DEF BeatInv, BeatTypeOK, TickFires, Enabled
<1>4. GapCovered'
  <2> SUFFICES ASSUME NEW f \in Enabled
               PROVE  gap'[f] = -1 \/ gap'[f] >= Long(f) \/ gap'[f] + wait'[f] >= Every[f] + lag' - MaxLag
    BY DEF GapCovered, Enabled, Long
  <2>1. lag' = lag /\ lag \in Nat /\ lag <= MaxLag /\ MaxLag \in Nat
    BY BeatAssumption DEF BeatInv, BeatTypeOK, TickFires
  <2>2. CASE f # e
    BY <2>1, <2>2 DEF BeatInv, BeatTypeOK, GapCovered, Enabled, TickFires
  <2>3. CASE f = e
    <3>1. wait'[f] = Every[f] /\ gap'[f] = 0
      BY <1>1, <2>3 DEF BeatInv, BeatTypeOK, TickFires
    <3>. QED BY <1>1, <2>1, <2>3, <3>1
  <2>. QED BY <2>2, <2>3
<1>5. GapFrom'
  BY <1>1 DEF BeatInv, BeatTypeOK, GapFrom, TickFires
<1>. QED BY <1>3, <1>4, <1>5 DEF BeatInv

\* The time of the tick is taken off.
LEMMA EndsKeeps == ASSUME BeatInv, TickEnds PROVE BeatInv'
<1>1. BeatTypeOK'
  BY BeatAssumption DEF BeatInv, BeatTypeOK, Enabled, TickEnds, Left
<1>2. GapCovered'
  BY BeatAssumption DEF BeatInv, BeatTypeOK, GapCovered, Enabled, Long, TickEnds, Left
<1>3. GapFrom'
  BY DEF BeatInv, GapFrom, TickEnds
<1>. QED BY <1>1, <1>2, <1>3 DEF BeatInv

\* Time counts for both.
LEMMA TimeKeeps == ASSUME BeatInv, TimePasses PROVE BeatInv'
<1>1. BeatTypeOK'
  <2>1. wait' \in [Entries -> Nat] /\ \A f \in Enabled : wait'[f] <= Every[f]
    <3>1. CASE mode = "tick"
      BY <3>1 DEF BeatInv, BeatTypeOK, TimePasses
    <3>2. CASE mode # "tick"
      <4>1. wait' = [f \in Entries |-> Left(wait[f], 1)]
        BY <3>2 DEF TimePasses
      <4>2. \A f \in Entries : Left(wait[f], 1) \in Nat /\ Left(wait[f], 1) <= wait[f]
        BY DEF BeatInv, BeatTypeOK, Left
      <4>3. wait' \in [Entries -> Nat]
        BY <4>1, <4>2
      <4>4. ASSUME NEW f \in Enabled PROVE wait'[f] <= Every[f]
        BY <4>1, <4>2, BeatAssumption DEF BeatInv, BeatTypeOK, Enabled
      <4>. QED BY <4>3, <4>4
    <3>. QED BY <3>1, <3>2
  <2>2. lag' \in 0..MaxLag
    BY BeatAssumption DEF BeatInv, BeatTypeOK, TimePasses
  <2>3. gap' \in [Entries -> Int]
    BY DEF BeatInv, BeatTypeOK, TimePasses
  <2>. QED BY <2>1, <2>2, <2>3 DEF BeatInv, BeatTypeOK, TimePasses, Enabled
<1>2. ASSUME NEW e \in Enabled
      PROVE  gap'[e] = -1 \/ gap'[e] >= Long(e) \/ gap'[e] + wait'[e] >= Every[e] + lag' - MaxLag
  <2>1. e \in Entries /\ gap[e] \in Int /\ wait[e] \in Nat /\ Every[e] \in Int /\ lag \in Nat /\ MaxLag \in Nat
    BY BeatAssumption DEF BeatInv, BeatTypeOK, Enabled
  <2>2. CASE gap[e] = -1 \/ gap[e] >= Long(e)
    BY <2>1, <2>2 DEF TimePasses
  <2>3. CASE ~ (gap[e] = -1 \/ gap[e] >= Long(e))
    <3>1. gap'[e] = gap[e] + 1
      BY <2>1, <2>3 DEF TimePasses
    <3>2. gap[e] + wait[e] >= Every[e] + lag - MaxLag
      BY <2>3 DEF BeatInv, GapCovered
    <3>3. wait'[e] - lag' >= wait[e] - lag - 1
      BY <2>1 DEF TimePasses, Left
    <3>4. wait'[e] \in Nat /\ lag' \in Nat
      BY <1>1, <2>1 DEF BeatTypeOK
    <3>. QED BY <2>1, <3>1, <3>2, <3>3, <3>4
  <2>. QED BY <2>2, <2>3
<1>3. GapFrom'
  BY DEF BeatInv, BeatTypeOK, GapFrom, TimePasses
<1>. QED BY <1>1, <1>2, <1>3 DEF BeatInv, GapCovered, Enabled, Long

\* Signals, and a broker that comes and goes.
LEMMA OperateKeeps == ASSUME BeatInv, BeatStop \/ BrokerTurns PROVE BeatInv'
BY DEF BeatInv, BeatTypeOK, GapCovered, GapFrom, Enabled, Long, BeatStop, BrokerTurns

\* A new process remembers nothing.
LEMMA RaisesKeeps == ASSUME BeatInv, NEW R, TickRaises(R) PROVE BeatInv'
<1>1. BeatTypeOK'
  <2>1. cursor' \in 1..(Len(Schedule) + 1) /\ lag' \in 0..MaxLag
    BY BeatAssumption DEF TickRaises
  <2>2. wait' \in [Entries -> Nat] /\ \A f \in Enabled : wait'[f] <= Every[f]
    BY BeatAssumption DEF TickRaises, Enabled
  <2>3. gap' \in [Entries -> Int]
    BY DEF TickRaises
  <2>. QED BY <2>1, <2>2, <2>3 DEF BeatInv, BeatTypeOK, TickRaises
<1>2. GapCovered' /\ GapFrom'
  BY DEF GapCovered, GapFrom, Enabled, TickRaises
<1>. QED BY <1>1, <1>2 DEF BeatInv

\* Every step of a running scheduler keeps the invariant.
LEMMA BeatStepKeeps == ASSUME BeatInv, NEW R, BeatStep(R) PROVE BeatInv'
BY LoopKeeps, PassesKeeps, SkipsKeeps, FiresKeeps, EndsKeeps DEF BeatStep

\* An entry is handed over when its interval has passed, but for a tick.
LEMMA FiresInTime ==
    ASSUME BeatInv, NEW R, TickFires(R), NEW e \in Entries, fired'[e] # fired[e]
    PROVE  gap[e] = -1 \/ gap[e] >= Every[e] - MaxLag
<1>1. e = Schedule[cursor] /\ Due(e)
  BY DEF BeatInv, BeatTypeOK, TickFires
<1>2. e \in Enabled /\ wait[e] = 0
  BY <1>1 DEF Due, Enabled
<1>3. Every[e] \in Int /\ gap[e] \in Int /\ lag \in Nat /\ MaxLag \in Nat
  BY BeatAssumption DEF BeatInv, BeatTypeOK
<1>4. gap[e] = -1 \/ gap[e] >= Every[e] + 1 \/ gap[e] + wait[e] >= Every[e] + lag - MaxLag
  BY <1>2 DEF BeatInv, GapCovered, Long
<1>. QED BY <1>2, <1>3, <1>4

-----------------------------------------------------------------------------
\* Settings

\* _wrapped, or what it will be when it is stored.
InForce == IF storing = Nothing THEN wrapped ELSE storing

\* The value in force.
Current == ValueIn(InForce)

\* _wrapped is missing while it is still to be stored.
SwapHalf == wrapped = Nothing <=> storing # Nothing

\* Every block has saved what was in force around it.
SavedNest ==
    \A i \in DOMAIN blocks :
        /\ saved[blocks[i]] = SubSeq(blocks, 1, i - 1)
        /\ \A j \in DOMAIN blocks : blocks[i] = blocks[j] => i = j

\* The override that is being enabled has saved the blocks, and is none of them.
EnteringNests ==
    entering # Nothing =>
        /\ saved[entering] = blocks
        /\ \A i \in DOMAIN blocks : blocks[i] # entering

\* _wrapped is what the blocks say.
WrappedFollows ==
    InForce = IF entering = Nothing \/ entering \in Modifies THEN blocks ELSE Append(blocks, entering)

\* What is memoized, and what is about to be, is the value in force.
ReadsCurrent ==
    /\ memo \in {Nothing, Current}
    /\ \A t \in Readers : held[t] \in {Nothing, Failed, Current}

EnteringSaved == entering # Nothing => saved[entering] # Nothing

SettingsInv ==
    /\ SettingsTypeOK
    /\ EnteringSaved
    /\ SwapHalf
    /\ ~ excused => SavedNest /\ EnteringNests /\ WrappedFollows /\ ReadsCurrent

\* The project's value is in force.
LEMMA StartsSettings == ASSUME SettingsInit PROVE SettingsInv
<1>1. <<>> \in Chains /\ <<>> # Nothing
  <2>1. <<>> \in Seq(Overrides)
    OBVIOUS
  <2>. QED BY <2>1, SettingsAssumption DEF Chains
<1>2. SettingsTypeOK
  BY <1>1 DEF SettingsInit, SettingsTypeOK
<1>3. SavedNest
  BY DEF SettingsInit, SavedNest
<1>4. EnteringNests /\ WrappedFollows /\ ReadsCurrent
  BY DEF SettingsInit, EnteringNests, WrappedFollows, ReadsCurrent, InForce
<1>. QED BY <1>1, <1>2, <1>3, <1>4 DEF SettingsInit, SettingsInv, EnteringSaved, SwapHalf

\* Steps of the rest of the process.
LEMMA SettingsStay == ASSUME SettingsInv, UNCHANGED settingsVars PROVE SettingsInv'
BY DEF settingsVars, SettingsInv, SettingsTypeOK, EnteringSaved, SwapHalf, SavedNest, EnteringNests,
      WrappedFollows, ReadsCurrent, Current, InForce

\* The innermost of some overrides can be set, and the others are overrides.
LEMMA ChainFacts ==
    ASSUME NEW c \in Chains
    PROVE  /\ ValueIn(c) \in Settable
           /\ c # <<>> => Outer(c) \in Chains /\ Len(Outer(c)) = Len(c) - 1 /\ ValueIn(c) = c[Len(c)]
           /\ c # <<>> => \A i \in 1..(Len(c) - 1) : Outer(c)[i] = c[i]
<1>1. Len(c) \in Nat /\ \A i \in 1..Len(c) : c[i] \in Overrides
  BY DEF Chains
<1>2. ValueIn(c) \in Settable
  BY <1>1, EmptySeq DEF Chains, ValueIn, Settable
<1>3. CASE c # <<>>
  <2>1. Len(c) > 0
    BY <1>1, <1>3, EmptySeq DEF Chains
  <2>2. Outer(c) \in Chains /\ Len(Outer(c)) = Len(c) - 1
    <3>1. Len(c) - 1 \in Int /\ \A j \in 1..(Len(c) - 1) : c[j] \in Overrides
      BY <1>1
    <3>2. /\ SubSeq(c, 1, Len(c) - 1) \in Seq(Overrides)
          /\ Len(SubSeq(c, 1, Len(c) - 1)) = IF 1 <= Len(c) - 1 THEN Len(c) - 1 - 1 + 1 ELSE 0
      BY <3>1, SubSeqProperties
    <3>3. (IF 1 <= Len(c) - 1 THEN Len(c) - 1 - 1 + 1 ELSE 0) = Len(c) - 1
      BY <1>1, <2>1
    <3>4. Outer(c) = SubSeq(c, 1, Len(c) - 1)
      BY DEF Outer
    <3>. QED BY <3>2, <3>3, <3>4 DEF Chains
  <2>3. ASSUME NEW i \in 1..(Len(c) - 1) PROVE Outer(c)[i] = c[i]
    <3>1. i \in 1..(Len(c) - 1) - 1 + 1 /\ \A j \in 1..(Len(c) - 1) : c[j] \in Overrides
      BY <1>1, <2>1
    <3>2. SubSeq(c, 1, Len(c) - 1)[i] = c[1 + i - 1]
      BY <1>1, <3>1, SubSeqProperties
    <3>. QED BY <1>1, <3>2 DEF Outer
  <2>. QED BY <1>2, <1>3, <2>2, <2>3 DEF ValueIn
<1>. QED BY <1>2, <1>3

\* Sequences with the same beginning.
LEMMA SubSeqAgree ==
    ASSUME NEW n \in Int, NEW b, NEW c, \A i \in 1..n : b[i] = c[i] /\ c[i] \in Overrides
    PROVE  SubSeq(b, 1, n) = SubSeq(c, 1, n)
<1>. DEFINE B == SubSeq(b, 1, n)
<1>. DEFINE C == SubSeq(c, 1, n)
<1>1. B \in Seq(Overrides) /\ Len(B) = (IF 1 <= n THEN n - 1 + 1 ELSE 0) /\ \A i \in 1..(n - 1 + 1) : B[i] = b[1 + i - 1]
  BY SubSeqProperties
<1>2. C \in Seq(Overrides) /\ Len(C) = (IF 1 <= n THEN n - 1 + 1 ELSE 0) /\ \A i \in 1..(n - 1 + 1) : C[i] = c[1 + i - 1]
  BY SubSeqProperties
<1>3. \A i \in 1..Len(B) : i \in 1..(n - 1 + 1) /\ i \in 1..n /\ 1 + i - 1 = i
  BY <1>1
<1>4. \A i \in 1..Len(B) : B[i] = C[i]
  BY <1>1, <1>2, <1>3
<1>. QED BY <1>1, <1>2, <1>4, SeqEqual

\* A reader reads the value in force, or fails.
LEMMA ReadKeeps ==
    ASSUME SettingsInv, NEW t \in Readers, ReadWrapped(t) \/ Memoize(t) \/ ReadFails(t) \/ ReadRaises(t)
    PROVE  SettingsInv'
<1>1. wrapped # Nothing => ValueIn(wrapped) \in Settable
  BY ChainFacts DEF SettingsInv, SettingsTypeOK
<1>2. UNCHANGED <<wrapped, storing, saved, blocks, entering, excused>>
  BY DEF ReadWrapped, Memoize, ReadFails, ReadRaises
<1>3. SettingsTypeOK'
  <2>1. held' \in [Readers -> Settable \cup {Nothing, Failed}]
    BY <1>1 DEF SettingsInv, SettingsTypeOK, ReadWrapped, Memoize, ReadFails, ReadRaises
  <2>2. memo' \in Settable \cup {Nothing}
    BY DEF SettingsInv, SettingsTypeOK, ReadWrapped, Memoize, ReadFails, ReadRaises
  <2>. QED BY <1>2, <2>1, <2>2 DEF SettingsInv, SettingsTypeOK
<1>4. InForce' = InForce
  BY <1>2 DEF InForce
<1>5. EnteringSaved' /\ SwapHalf' /\ (SavedNest' <=> SavedNest) /\ (EnteringNests' <=> EnteringNests)
  BY <1>2 DEF SettingsInv, EnteringSaved, SwapHalf, SavedNest, EnteringNests
<1>6. WrappedFollows' <=> WrappedFollows
  BY <1>2, <1>4 DEF WrappedFollows
<1>7. ASSUME ReadsCurrent PROVE ReadsCurrent'
  <2>1. Current' = Current
    BY <1>4 DEF Current
  <2>2. CASE ReadWrapped(t)
    <3>1. Current = ValueIn(wrapped) /\ memo' = memo /\ held' = [held EXCEPT ![t] = ValueIn(wrapped)]
      BY <2>2 DEF SettingsInv, SwapHalf, Current, InForce, ReadWrapped
    <3>. QED BY <1>7, <2>1, <3>1 DEF SettingsInv, SettingsTypeOK, ReadsCurrent
  <2>3. CASE Memoize(t)
    <3>1. held[t] = Current
      BY <1>7, <2>3, SettingsAssumption DEF ReadsCurrent, Memoize
    <3>. QED BY <1>7, <2>1, <2>3, <3>1 DEF SettingsInv, SettingsTypeOK, ReadsCurrent, Memoize
  <2>4. CASE ReadFails(t) \/ ReadRaises(t)
    BY <1>7, <2>1, <2>4 DEF SettingsInv, SettingsTypeOK, ReadsCurrent, ReadFails, ReadRaises
  <2>. QED BY <2>2, <2>3, <2>4
<1>. QED BY <1>2, <1>3, <1>5, <1>6, <1>7 DEF SettingsInv

\* What is in force comes to be what _wrapped is.
LEMMA StoreKeeps == ASSUME SettingsInv, Store PROVE SettingsInv'
<1>1. SettingsTypeOK' /\ EnteringSaved' /\ SwapHalf'
  BY DEF SettingsInv, SettingsTypeOK, EnteringSaved, SwapHalf, Store
<1>2. InForce' = InForce
  BY DEF InForce, Store
<1>3. (SavedNest' <=> SavedNest) /\ (EnteringNests' <=> EnteringNests)
  BY DEF SavedNest, EnteringNests, Store
<1>4. (WrappedFollows' <=> WrappedFollows) /\ (ReadsCurrent' <=> ReadsCurrent)
  BY <1>2 DEF WrappedFollows, ReadsCurrent, Current, Store
<1>. QED BY <1>1, <1>3, <1>4 DEF SettingsInv, Store

\* No reader is between its two steps.
LEMMA NoMidRead == ASSUME SettingsInv, ~ MidRead PROVE \A t \in Readers : held[t] \in {Nothing, Failed}
BY DEF SettingsInv, SettingsTypeOK, MidRead

\* What is in force is saved, and the override comes over it.
LEMMA EnableBeginKeeps == ASSUME SettingsInv, NEW o \in Overrides, EnableBegin(o) PROVE SettingsInv'
<1>0. wrapped \in Chains /\ storing = Nothing /\ Append(wrapped, o) \in Chains /\ Append(wrapped, o) # Nothing
  <2>1. wrapped \in Seq(Overrides) /\ storing = Nothing
    BY DEF SettingsInv, SettingsTypeOK, SwapHalf, EnableBegin, Chains
  <2>2. Append(wrapped, o) \in Seq(Overrides)
    BY <2>1, AppendProperties
  <2>. QED BY <2>1, <2>2, SettingsAssumption DEF Chains
<1>1. SettingsTypeOK'
  <2>1. saved' \in [Overrides -> Chains \cup {Nothing}]
    BY DEF SettingsInv, SettingsTypeOK, EnableBegin
  <2>2. wrapped' \in Chains \cup {Nothing} /\ storing' \in Chains \cup {Nothing}
    BY <1>0 DEF SettingsInv, SettingsTypeOK, EnableBegin, Swap
  <2>3. memo' \in Settable \cup {Nothing}
    BY <1>0, ChainFacts DEF SettingsInv, SettingsTypeOK, SwapHalf, EnableBegin, Swap
  <2>. QED BY <2>1, <2>2, <2>3 DEF SettingsInv, SettingsTypeOK, EnableBegin
<1>9. EnteringSaved' /\ SwapHalf'
  BY <1>0, SettingsAssumption DEF SettingsInv, SettingsTypeOK, EnteringSaved, SwapHalf, EnableBegin, Swap
<1>. SUFFICES ASSUME ~ excused' PROVE SavedNest' /\ EnteringNests' /\ WrappedFollows' /\ ReadsCurrent'
  BY <1>1, <1>9 DEF SettingsInv
<1>2. ~ excused /\ saved[o] = Nothing /\ (o \notin Modifies => ~ MidRead)
  BY DEF EnableBegin
<1>3. SavedNest /\ WrappedFollows /\ ReadsCurrent /\ wrapped = blocks
  BY <1>2 DEF SettingsInv, EnableBegin, WrappedFollows, InForce
<1>4. \A i \in DOMAIN blocks : blocks[i] # o /\ blocks[i] \in Overrides
  <2> TAKE i \in DOMAIN blocks
  <2>1. saved[blocks[i]] = SubSeq(blocks, 1, i - 1) /\ blocks[i] \in Overrides
    BY <1>3 DEF SavedNest, SettingsInv, SettingsTypeOK, Chains
  <2>2. saved[blocks[i]] # Nothing
    <3>1. SubSeq(blocks, 1, i - 1) \in Seq(Overrides)
      BY SubSeqProperties DEF SettingsInv, SettingsTypeOK, Chains
    <3>. QED BY <2>1, <3>1, SettingsAssumption
  <2>. QED BY <1>2, <2>1, <2>2
<1>5. SavedNest'
  BY <1>3, <1>4 DEF SavedNest, SettingsInv, SettingsTypeOK, EnableBegin
<1>6. EnteringNests'
  BY <1>3, <1>4 DEF EnteringNests, SettingsInv, SettingsTypeOK, EnableBegin
<1>7. WrappedFollows' /\ ReadsCurrent'
  <2>1. entering' = o /\ blocks' = blocks /\ held' = held /\ o # Nothing
    BY SettingsAssumption DEF EnableBegin, Settable
  <2>2. CASE o \in Modifies
    BY <1>3, <1>0, <2>1, <2>2 DEF EnableBegin, WrappedFollows, ReadsCurrent, Current, InForce
  <2>3. CASE o \notin Modifies
    <3>1. InForce' = Append(blocks, o) /\ memo' = Nothing /\ \A t \in Readers : held[t] \in {Nothing, Failed}
      BY <1>2, <1>3, <1>0, <2>3, NoMidRead DEF EnableBegin, Swap, InForce
    <3>. QED BY <2>1, <2>3, <3>1 DEF WrappedFollows, ReadsCurrent
  <2>. QED BY <2>2, <2>3
<1>. QED BY <1>5, <1>6, <1>7

\* A block is entered.
LEMMA EnableEndsKeeps == ASSUME SettingsInv, EnableEnds PROVE SettingsInv'
<1>1. entering \in Overrides /\ blocks \in Seq(Overrides) /\ entering' = Nothing /\ blocks' = Append(blocks, entering)
  BY DEF SettingsInv, SettingsTypeOK, EnableEnds, Chains
<1>2. /\ blocks' \in Chains
      /\ Len(blocks') = Len(blocks) + 1
      /\ \A i \in 1..Len(blocks) : blocks'[i] = blocks[i]
      /\ blocks'[Len(blocks) + 1] = entering
  BY <1>1, AppendProperties DEF Chains
<1>3. SettingsTypeOK'
  <2>1. saved[entering] \in Chains
    BY <1>1 DEF SettingsInv, SettingsTypeOK, EnteringSaved, EnableEnds
  <2>2. Append(saved[entering], entering) \in Chains
    BY <1>1, <2>1, AppendProperties DEF Chains
  <2>3. /\ wrapped' \in Chains \cup {Nothing} /\ storing' \in Chains \cup {Nothing}
        /\ memo' \in Settable \cup {Nothing}
    BY <2>2 DEF SettingsInv, SettingsTypeOK, EnableEnds, Swap
  <2>4. saved' = saved /\ held' = held /\ excused' \in BOOLEAN
    BY DEF SettingsInv, SettingsTypeOK, EnableEnds
  <2>. QED BY <1>1, <1>2, <2>3, <2>4 DEF SettingsInv, SettingsTypeOK
<1>9. storing = Nothing /\ Append(saved[entering], entering) # Nothing
  <2>1. saved[entering] \in Chains
    BY <1>1 DEF SettingsInv, SettingsTypeOK, EnteringSaved, EnableEnds
  <2>2. Append(saved[entering], entering) \in Seq(Overrides)
    BY <1>1, <2>1, AppendProperties DEF Chains
  <2>. QED BY <2>2, SettingsAssumption DEF EnableEnds
<1>10. SwapHalf'
  BY <1>9 DEF SettingsInv, SwapHalf, EnableEnds, Swap
<1>. SUFFICES ASSUME ~ excused' PROVE SavedNest' /\ EnteringNests' /\ WrappedFollows' /\ ReadsCurrent'
  BY <1>1, <1>3, <1>10 DEF SettingsInv, EnteringSaved
<1>4. ~ excused /\ (entering \in Modifies => ~ MidRead) /\ entering # Nothing
  BY DEF EnableEnds
<1>5. SavedNest /\ EnteringNests /\ WrappedFollows /\ ReadsCurrent
  BY <1>4 DEF SettingsInv
<1>6. SavedNest'
  <2> SUFFICES ASSUME NEW i \in 1..(Len(blocks) + 1)
               PROVE  /\ saved[blocks'[i]] = SubSeq(blocks', 1, i - 1)
                      /\ \A j \in 1..(Len(blocks) + 1) : blocks'[i] = blocks'[j] => i = j
    <3>1. DOMAIN blocks' = 1..(Len(blocks) + 1) /\ saved' = saved
      BY <1>2 DEF Chains, EnableEnds
    <3>. QED BY <3>1 DEF SavedNest
  <2>1. SubSeq(blocks', 1, i - 1) = SubSeq(blocks, 1, i - 1)
    <3>1. i - 1 \in Int /\ \A j \in 1..(i - 1) : j \in 1..Len(blocks)
      BY <1>1
    <3>2. \A j \in 1..(i - 1) : blocks'[j] = blocks[j] /\ blocks[j] \in Overrides
      BY <1>1, <1>2, <3>1
    <3>. QED BY <3>1, <3>2, SubSeqAgree
  <2>2. CASE i \in 1..Len(blocks)
    <3>1. blocks'[i] = blocks[i] /\ blocks[i] # entering /\ saved[blocks[i]] = SubSeq(blocks, 1, i - 1)
      <4>1. i \in DOMAIN blocks /\ blocks'[i] = blocks[i]
        BY <1>1, <1>2, <2>2
      <4>. QED BY <1>4, <1>5, <4>1 DEF SavedNest, EnteringNests
    <3>2. ASSUME NEW j \in 1..(Len(blocks) + 1), blocks'[i] = blocks'[j] PROVE i = j
      <4>1. j # Len(blocks) + 1
        BY <1>2, <3>1, <3>2
      <4>2. j \in 1..Len(blocks) /\ blocks[j] = blocks[i]
        BY <1>1, <1>2, <3>1, <3>2, <4>1
      <4>. QED BY <1>1, <1>5, <2>2, <4>2 DEF SavedNest
    <3>. QED BY <2>1, <3>1, <3>2
  <2>3. CASE i = Len(blocks) + 1
    <3>1. SubSeq(blocks, 1, i - 1) = blocks
      BY <1>1, <2>3, SubSeqFull
    <3>. QED BY <1>1, <1>2, <1>4, <1>5, <2>1, <2>3, <3>1 DEF EnteringNests
  <2>. QED BY <1>1, <2>2, <2>3
<1>7. EnteringNests'
  BY <1>1 DEF EnteringNests
<1>8. WrappedFollows' /\ ReadsCurrent'
  <2>1. CASE entering \in Modifies
    <3>1. /\ InForce' = Append(saved[entering], entering) /\ memo' = Nothing
          /\ \A t \in Readers : held'[t] \in {Nothing, Failed}
      BY <1>4, <1>9, <2>1, NoMidRead DEF EnableEnds, Swap, InForce
    <3>. QED BY <1>1, <1>4, <1>5, <3>1 DEF EnteringNests, WrappedFollows, ReadsCurrent
  <2>2. CASE entering \notin Modifies
    BY <1>1, <1>4, <1>5, <2>2 DEF EnableEnds, WrappedFollows, ReadsCurrent, Current, InForce
  <2>. QED BY <2>1, <2>2
<1>. QED BY <1>6, <1>7, <1>8

\* The block is not entered, and nothing more is promised.
LEMMA EnableRaisesKeeps == ASSUME SettingsInv, EnableRaises PROVE SettingsInv'
BY DEF SettingsInv, SettingsTypeOK, EnteringSaved, SwapHalf, EnableRaises

\* What was in force around the block is in force again.
LEMMA DisableKeeps == ASSUME SettingsInv, Disable PROVE SettingsInv'
<1>. DEFINE o == ValueIn(blocks)
<1>. DEFINE n == Len(blocks)
<1>1. /\ blocks \in Seq(Overrides) /\ blocks # <<>> /\ n \in Nat /\ n > 0
      /\ o = blocks[n] /\ o \in Overrides
      /\ entering = Nothing /\ entering' = Nothing
  BY EmptySeq, ElementOfSeq DEF SettingsInv, SettingsTypeOK, Disable, Chains, ValueIn
<1>2. /\ blocks' \in Chains
      /\ blocks' = SubSeq(blocks, 1, n - 1)
      /\ Len(blocks') = n - 1
      /\ \A i \in 1..(n - 1) : blocks'[i] = blocks[i]
  BY <1>1, ChainFacts DEF Disable, Chains, Outer
<1>3. SettingsTypeOK'
  BY <1>1, <1>2 DEF SettingsInv, SettingsTypeOK, Disable, Swap
<1>10. SwapHalf'
  BY DEF SettingsInv, SwapHalf, Disable, Swap
<1>. SUFFICES ASSUME ~ excused' PROVE SavedNest' /\ EnteringNests' /\ WrappedFollows' /\ ReadsCurrent'
  BY <1>1, <1>3, <1>10 DEF SettingsInv, EnteringSaved
<1>4. ~ excused /\ ~ MidRead
  BY DEF Disable
<1>5. SavedNest /\ WrappedFollows /\ ReadsCurrent
  BY <1>4 DEF SettingsInv
<1>6. saved[o] = SubSeq(blocks, 1, n - 1) /\ saved[o] # Nothing
  <2>1. saved[o] = SubSeq(blocks, 1, n - 1)
    <3>1. n \in DOMAIN blocks
      BY <1>1
    <3>. QED BY <1>1, <1>5, <3>1 DEF SavedNest
  <2>. QED BY <1>2, <2>1, SettingsAssumption DEF Chains
<1>7. InForce' = blocks' /\ memo' = Nothing /\ saved' = [saved EXCEPT ![o] = Nothing] /\ held' = held
  BY <1>2, <1>6 DEF Disable, Swap, InForce
<1>8. SavedNest'
  <2> SUFFICES ASSUME NEW i \in 1..(n - 1)
               PROVE  /\ saved'[blocks'[i]] = SubSeq(blocks', 1, i - 1)
                      /\ \A j \in 1..(n - 1) : blocks'[i] = blocks'[j] => i = j
    <3>1. DOMAIN blocks' = 1..(n - 1)
      BY <1>2, LenProperties DEF Chains
    <3>. QED BY <3>1 DEF SavedNest
  <2>1. i \in 1..n /\ blocks'[i] = blocks[i] /\ blocks[i] # o /\ blocks[i] \in Overrides
    BY <1>1, <1>2, <1>5 DEF SavedNest
  <2>2. saved'[blocks[i]] = saved[blocks[i]]
    BY <1>1, <1>7, <2>1 DEF SettingsInv, SettingsTypeOK
  <2>3. saved[blocks[i]] = SubSeq(blocks, 1, i - 1)
    <3>1. i \in DOMAIN blocks
      BY <1>1, <2>1
    <3>. QED BY <1>5, <3>1 DEF SavedNest
  <2>4. SubSeq(blocks', 1, i - 1) = SubSeq(blocks, 1, i - 1)
    <3>1. i - 1 \in Int /\ \A j \in 1..(i - 1) : j \in 1..(n - 1) /\ j \in 1..n
      BY <1>1
    <3>2. \A j \in 1..(i - 1) : blocks'[j] = blocks[j] /\ blocks[j] \in Overrides
      BY <1>1, <1>2, <3>1
    <3>. QED BY <3>1, <3>2, SubSeqAgree
  <2>. QED BY <1>1, <1>2, <1>5, <2>1, <2>2, <2>3, <2>4 DEF SavedNest
<1>9. EnteringNests' /\ WrappedFollows' /\ ReadsCurrent'
  BY <1>1, <1>4, <1>7, NoMidRead DEF EnteringNests, WrappedFollows, ReadsCurrent
<1>. QED BY <1>8, <1>9

\* Every step of the test and of the readers keeps the invariant.
LEMMA SettingsStepKeeps == ASSUME SettingsInv, SettingsNext PROVE SettingsInv'
BY ReadKeeps, StoreKeeps, EnableBeginKeeps, EnableEndsKeeps, EnableRaisesKeeps, DisableKeeps DEF SettingsNext

\* What is in force inside blocks, and what is read.
LEMMA SettingsInvImplies == ASSUME SettingsInv PROVE OverridesNest
BY DEF SettingsInv, OverridesNest, WrappedFollows, ReadsCurrent, Current, InForce

-----------------------------------------------------------------------------
\* Process

\* Unless it is booted by several threads, only one thread is in setup; and
\* none is when the scheduler runs.
OnlyMain ==
    /\ command # "boot" => ~ raced /\ \A t \in Callers \ {Main} : boot[t] = "out"
    /\ mode # "off" => command = "beat" /\ boot[Main] = "out"

ProcessInv ==
    /\ command \in {"boot", "serve", "beat", "test"}
    /\ deployed \in {"good", "broken"}
    /\ SignalsInv
    /\ StartupInv
    /\ BeatInv
    /\ SettingsInv
    /\ OnlyMain

\* Nothing has been done.
LEMMA StartsProcess == ASSUME ProcessInit PROVE ProcessInv
<1>1. SignalsInv /\ StartupInv /\ BeatInv /\ SettingsInv
  BY StartsSignals, StartsStartup, StartsBeat, StartsSettings DEF ProcessInit
<1>2. OnlyMain
  BY DEF ProcessInit, StartupInit, BeatInit, OnlyMain
<1>. QED BY <1>1, <1>2 DEF ProcessInit, ProcessInv

\* A thread moves in setup alone, and races only with others.
LEMMA OneBoots ==
    ASSUME StartupInv, NEW t \in Callers, StartupStep(t)
    PROVE  /\ \A s \in Callers \ {t} : boot'[s] = boot[s]
           /\ raced' => raced \/ \E s \in Callers \ {t} : boot[s] # "out"
<1>1. boot \in [Callers -> Positions]
  BY DEF StartupInv, StartupTypeOK
<1>2. CASE RunReady(t)
  BY <1>1, <1>2 DEF RunReady
<1>3. CASE BootFails(t)
  BY <1>1, <1>3 DEF BootFails, BootRaises, BootAt
<1>4. CASE BootProceeds(t)
  <2>1. ASSUME NEW where, BootAt(t, where) PROVE \A s \in Callers \ {t} : boot'[s] = boot[s]
    BY <1>1, <2>1 DEF BootAt
  <2>2. \A s \in Callers \ {t} : boot'[s] = boot[s]
    BY <1>4, <2>1 DEF BootProceeds, Setup, SetupLoads, SetupRefused, SetupLoaded, SetupAgain, CreateConfig,
        CreateDuplicate, AssignConfig, CreateDone, ImportModules, ImportDone, ReadyDone, EnterPopulate,
        BootRaises
  <2>3. raced' = raced \/ EnterPopulate(t)
    BY <1>4 DEF BootProceeds, Setup, SetupLoads, SetupRefused, SetupLoaded, SetupAgain, CreateConfig,
        CreateDuplicate, AssignConfig, CreateDone, ImportModules, ImportDone, ReadyDone, BootRaises
  <2>4. EnterPopulate(t) => (raced' => raced \/ \E s \in Callers \ {t} : boot[s] # "out")
    BY DEF EnterPopulate
  <2>. QED BY <2>2, <2>3, <2>4
<1>. QED BY <1>2, <1>3, <1>4 DEF StartupStep

\* A new process is as the first was.
LEMMA StartsStartupAgain == StartupInit' => StartupInv'
<1>1. StartupInit => StartupInv
  BY StartsStartup
<1>. QED BY <1>1, PTL

\* What setup had done is gone.
LEMMA NewProcessKeeps ==
    ASSUME ProcessInv, command = "beat", boot[Main] = "out", NewProcess
    PROVE  SignalsInv' /\ StartupInv' /\ boot' = boot /\ raced' = raced
<1>1. SignalsInv'
  <2>1. SignalsTypeOK' /\ OnlyWantedConnected' /\ WantedKeyed'
    BY DEF NewProcess, ProcessInv, SignalsInv, SignalsTypeOK, OnlyWantedConnected, WantedKeyed
  <2>2. WantedSafe'
    BY SignalAssumption DEF NewProcess, ProcessInv, SignalsInv, SignalsTypeOK, WantedSafe
  <2>3. DeadPruned' /\ DueCovered'
    BY DEF NewProcess, ProcessInv, SignalsInv, DeadPruned, DueCovered
  <2>. QED BY <2>1, <2>2, <2>3 DEF SignalsInv
<1>2. boot = [t \in Callers |-> "out"] /\ ~ raced
  BY DEF ProcessInv, OnlyMain, StartupInv, StartupTypeOK
<1>3. entry = [t \in Callers |-> 1]
  BY <1>2 DEF ProcessInv, StartupInv, StartupTypeOK, IndexReset, Populating
<1>4. raced = FALSE
  BY <1>2 DEF ProcessInv, StartupInv, StartupTypeOK
<1>5. StartupInit'
  BY <1>2, <1>3, <1>4 DEF NewProcess, StartupInit
<1>. QED BY <1>1, <1>5, StartsStartupAgain DEF NewProcess

\* A step of setup.
LEMMA BootKeeps == ASSUME ProcessInv, NEW t \in Callers, BootStep(t) PROVE ProcessInv'
<1>1. StartupStep(t)
  BY DEF BootStep, StartupStep
<1>2. StartupInv' /\ BeatInv' /\ SettingsInv'
  BY <1>1, StartupStepKeeps, BeatStays, SettingsStay DEF BootStep, ProcessInv
<1>3. SignalsInv'
  <2>1. CASE UNCHANGED signalVars
    BY <2>1, SignalsStay DEF ProcessInv
  <2>2. CASE RunReady(t) /\ Connect(HookOf[configs[entry[t]]])
    <3>1. configs[entry[t]] \in Apps
      BY <2>2 DEF ProcessInv, StartupInv, StartupTypeOK, RunReady
    <3>. QED BY <2>2, <3>1, ConnectKeeps, ProcessAssumption DEF ProcessInv
  <2>. QED BY <2>1, <2>2 DEF BootStep
<1>4. OnlyMain'
  BY <1>1, OneBoots DEF BootStep, ProcessInv, OnlyMain, beatVars
<1>. QED BY <1>2, <1>3, <1>4 DEF BootStep, ProcessInv

\* The other steps of the process.
LEMMA CommandKeeps ==
    ASSUME ProcessInv, ServeStep \/ TestStep \/ BeatBegins \/ BeatRuns \/ TimeGoesOn \/ Operate \/ Deploy
    PROVE  ProcessInv'
<1>1. SignalsInv'
  BY SignalsStay, SignalsStepKeeps
    DEF ServeStep, TestStep, BeatBegins, BeatRuns, TimeGoesOn, Operate, Deploy, ProcessInv
<1>2. StartupInv'
  BY StartupStays DEF ServeStep, TestStep, BeatBegins, BeatRuns, TimeGoesOn, Operate, Deploy, ProcessInv
<1>3. BeatInv'
  BY BeatStays, LoopKeeps, BeatStepKeeps, TimeKeeps, OperateKeeps
    DEF ServeStep, TestStep, BeatBegins, BeatRuns, TimeGoesOn, Operate, Deploy, ProcessInv
<1>4. SettingsInv'
  BY SettingsStay, SettingsStepKeeps
    DEF ServeStep, TestStep, BeatBegins, BeatRuns, TimeGoesOn, Operate, Deploy, ProcessInv
<1>5. OnlyMain'
  <2>1. UNCHANGED <<command, raced, boot>>
    BY DEF ServeStep, TestStep, BeatBegins, BeatRuns, TimeGoesOn, Operate, Deploy, startupVars
  <2>2. mode' = mode \/ (command = "beat" /\ boot[Main] = "out")
    <3>1. CASE ServeStep \/ TestStep \/ Deploy
      BY <3>1 DEF ServeStep, TestStep, Deploy, beatVars
    <3>2. CASE BeatBegins \/ TimeGoesOn \/ Operate
      BY <3>2 DEF BeatBegins, Booted, TimeGoesOn, TimePasses, Operate, BeatStop, BrokerTurns
    <3>3. CASE BeatRuns
      <4>1. mode # "off"
        BY <3>3 DEF BeatRuns, BeatStep, TickStart, BeatEnds, TickPasses, TickSkips, TickFires, TickEnds, AtEntry
      <4>. QED BY <4>1 DEF ProcessInv, OnlyMain
    <3>. QED BY <3>1, <3>2, <3>3
  <2>. QED BY <2>1, <2>2 DEF ProcessInv, OnlyMain
<1>6. command' = command /\ deployed' \in {"good", "broken"}
  BY DEF ServeStep, TestStep, BeatBegins, BeatRuns, TimeGoesOn, Operate, Deploy, ProcessInv
<1>. QED BY <1>1, <1>2, <1>3, <1>4, <1>5, <1>6 DEF ProcessInv

\* A process takes the place of one that ended.
LEMMA AgainKeeps == ASSUME ProcessInv, BeatCrashes \/ Restart PROVE ProcessInv'
<1>1. command = "beat" /\ boot[Main] = "out" /\ NewProcess
  BY DEF BeatCrashes, Restart, TickRaises, AtEntry, ProcessInv, OnlyMain
<1>2. SignalsInv' /\ StartupInv' /\ boot' = boot /\ raced' = raced
  BY <1>1, NewProcessKeeps
<1>3. BeatInv' /\ SettingsInv'
  BY BeatStays, RaisesKeeps, SettingsStay DEF BeatCrashes, Restart, ProcessInv
<1>4. OnlyMain'
  BY <1>1, <1>2 DEF ProcessInv, OnlyMain, BeatCrashes, Restart
<1>. QED BY <1>2, <1>3, <1>4 DEF ProcessInv, BeatCrashes, Restart

\* Every step of the process keeps the invariant.
LEMMA ProcessStepKeeps == ProcessInv /\ [ProcessNext]_processVars => ProcessInv'
<1> SUFFICES ASSUME ProcessInv, [ProcessNext]_processVars PROVE ProcessInv'
  OBVIOUS
<1>1. CASE UNCHANGED processVars
  <2>1. SignalsInv' /\ StartupInv' /\ BeatInv' /\ SettingsInv'
    BY <1>1, SignalsStay, StartupStays, BeatStays, SettingsStay DEF processVars, ProcessInv
  <2>. QED BY <1>1, <2>1 DEF processVars, startupVars, beatVars, ProcessInv, OnlyMain
<1>. QED BY <1>1, BootKeeps, CommandKeeps, AgainKeeps DEF ProcessNext

\* The invariant holds in every state of a process.
THEOREM ProcessKeeps == ProcessSpec => []ProcessInv
<1>1. ProcessInit => ProcessInv
  BY StartsProcess
<1>. QED BY <1>1, ProcessStepKeeps, PTL DEF ProcessSpec

\* The state of a process is of the types its parts are declared with.
THEOREM ProcessTyped == ProcessSpec => []ProcessTypeOK
<1>1. ProcessInv => ProcessTypeOK
  BY DEF ProcessInv, ProcessTypeOK, SignalsInv, StartupInv, BeatInv, SettingsInv
<1>. QED BY <1>1, ProcessKeeps, PTL

\* What is connected to a signal is what the program connected last under each
\* key, as long as it lives (Signal.connect, disconnect and the pruning in
\* send), across boots; but for a receiver that was connected between the
\* snapshot and the pruning of a send with an earlier receiver of its key.
THEOREM RegistrationsAreKept == ProcessSpec => []RegistrationsKept
<1>1. ProcessInv => RegistrationsKept
  BY DEF ProcessInv, SignalsInv, SignalsTypeOK, RegistrationsKept, WantedSafe, WantedStaysConnected
<1>. QED BY <1>1, ProcessKeeps, PTL

\* When the registry is ready, all applications are there, imported and hooked
\* (Apps.populate), whatever failed or raced before.
THEOREM BootIsComplete == ProcessSpec => []ReadyMeansComplete
<1>1. ProcessInv => ReadyMeansComplete
  BY StartupInvImplies DEF ProcessInv
<1>. QED BY <1>1, ProcessKeeps, PTL

\* ready() of an application runs once, after all imports, unless two threads
\* boot the process together (Apps.populate).
THEOREM HooksRunOnce == ProcessSpec => []HooksOnce
<1>1. ProcessInv => HooksOnce
  BY StartupInvImplies DEF ProcessInv
<1>. QED BY <1>1, ProcessKeeps, PTL

\* A registry whose population failed half-way is never ready (Apps.populate).
THEOREM FailureIsFinal == ProcessSpec => []FailedStaysFailed
<1>1. ProcessInv => FailedStaysFailed
  BY StartupInvImplies DEF ProcessInv
<1>. QED BY <1>1, ProcessKeeps, PTL

\* The innermost override is what is in force, and what every read gets that
\* gets a value (override_settings, modify_settings, LazySettings); one that
\* finds _wrapped missing half-way of a swap raises.
THEOREM OverridesAreNested == ProcessSpec => []OverridesNest
<1>1. ProcessInv => OverridesNest
  BY SettingsInvImplies DEF ProcessInv
<1>. QED BY <1>1, ProcessKeeps, PTL

\* A send reaches all that stay connected (Signal.send, send_robust).
THEOREM ListenersHear == ProcessSpec => EveryListenerHears
<1>. DEFINE Hears == \A t \in Threads :
              phase[t] = "call" /\ phase'[t] = "out" /\ kind[t] # "has_listeners"
                  => \/ kind[t] = "send" /\ targets[t] # {}
                     \/ due[t] \cap alive \subseteq heard[t]
<1>1. ASSUME ProcessInv, [ProcessNext]_processVars PROVE [Hears]_signalVars
  <2>1. CASE SignalsNext \/ UNCHANGED signalVars
    BY <1>1, <2>1, SignalsStepHears DEF ProcessInv
  <2>2. CASE NewProcess
    BY <2>2 DEF NewProcess
  <2>3. CASE \E t \in Callers : BootStep(t)
    BY <2>3, <2>1 DEF BootStep, Connect, signalVars
  <2>. QED BY <1>1, <2>1, <2>2, <2>3
        DEF ProcessNext, ServeStep, TestStep, BeatBegins, BeatRuns, TimeGoesOn, BeatCrashes, Restart, Operate,
            Deploy, processVars
<1>. QED BY <1>1, ProcessKeeps, PTL DEF ProcessSpec, EveryListenerHears

\* An entry of the schedule is not handed over again before its interval is
\* over, but for the time of a tick (Beat.tick).
THEOREM IntervalsAreKept == ProcessSpec => IntervalsKept
<1>. DEFINE Kept == \A e \in Entries :
              fired'[e] # fired[e] => gap[e] = -1 \/ gap[e] >= Every[e] - MaxLag
<1>1. ASSUME ProcessInv, [ProcessNext]_processVars PROVE [Kept]_beatVars
  <2>1. CASE fired' = fired
    BY <2>1
  <2>2. CASE TickFires(Registered)
    <3>1. ASSUME NEW e \in Entries, fired'[e] # fired[e] PROVE gap[e] = -1 \/ gap[e] >= Every[e] - MaxLag
      BY <1>1, <2>2, <3>1, FiresInTime DEF ProcessInv
    <3>. QED BY <3>1
  <2>. QED BY <1>1, <2>1, <2>2
        DEF ProcessNext, BootStep, ServeStep, TestStep, BeatBegins, BeatStart, BeatRuns, BeatStep, TickStart,
            BeatEnds, TickPasses, TickSkips, TickEnds, TimeGoesOn, TimePasses, BeatCrashes, TickRaises, Restart,
            Operate, BeatStop, BrokerTurns, Deploy, processVars, beatVars
<1>. QED BY <1>1, ProcessKeeps, PTL DEF ProcessSpec, IntervalsKept
=============================================================================
