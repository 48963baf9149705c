------------------------------ MODULE Signals ------------------------------
(***************************************************************************)
(* One Signal of core/signals.py: connect, disconnect, send, send_robust   *)
(* and has_listeners, called by several threads, with weakly referenced    *)
(* receivers that the program may drop at any time.                        *)
(*                                                                         *)
(* _receivers is the set of its (key, receiver) pairs: in which order the  *)
(* pairs are called is left open.                                          *)
(***************************************************************************)
EXTENDS Naturals

CONSTANTS
    Threads,     \* the threads that use the signal
    Receivers,   \* the callables that are ever connected
    Uids,        \* the keys: a dispatch_uid, or the id() of a receiver
    Nobody,      \* no receiver
    UidOf,       \* UidOf[r]: the key under which r is connected
    Weak         \* the receivers connected with weak=True

ASSUME SignalAssumption ==
    /\ UidOf \in [Receivers -> Uids]
    /\ Weak \subseteq Receivers
    /\ Nobody \notin Receivers

\* What a thread does with a signal.
Sends == {"send", "send_robust", "has_listeners"}

VARIABLES
    connected,   \* the receivers in Signal._receivers
    alive,       \* the receivers that have not been garbage collected
    phase,       \* phase[t]: "out", or where t is in _live_receivers and send
    kind,        \* kind[t]: what t called
    targets,     \* targets[t]: the snapshot, then what is still to be called
    dead,        \* dead[t]: the keys whose receivers t found dead
    heard,       \* heard[t]: the receivers t has called
    due,         \* history: due[t], those connected ever since t took its snapshot
    wanted,      \* history: wanted[u], the receiver last connected under u
    contested    \* history: the keys connected while a send held an earlier receiver

signalVars == <<connected, alive, phase, kind, targets, dead, heard, due, wanted,
                contested>>

SignalsTypeOK ==
    /\ connected \subseteq Receivers
    /\ alive \subseteq Receivers
    /\ phase \in [Threads -> {"out", "resolve", "prune", "call"}]
    /\ kind \in [Threads -> Sends]
    /\ targets \in [Threads -> SUBSET Receivers]
    /\ dead \in [Threads -> SUBSET Uids]
    /\ heard \in [Threads -> SUBSET Receivers]
    /\ due \in [Threads -> SUBSET Receivers]
    /\ wanted \in [Uids -> Receivers \cup {Nobody}]
    /\ contested \subseteq Uids

SignalsInit ==
    /\ connected = {}
    /\ alive = Receivers
    /\ phase = [t \in Threads |-> "out"]
    /\ kind = [t \in Threads |-> "send"]
    /\ targets = [t \in Threads |-> {}]
    /\ dead = [t \in Threads |-> {}]
    /\ heard = [t \in Threads |-> {}]
    /\ due = [t \in Threads |-> {}]
    /\ wanted = [u \in Uids |-> Nobody]
    /\ contested = {}

\* Those of a set of receivers that are registered under one of the keys us.
Under(rs, us) == {r \in rs : UidOf[r] \in us}

\* Every send under way keeps track of who stays connected.
KeepDue(now) == due' = [t \in Threads |-> due[t] \cap now]

-----------------------------------------------------------------------------
\* Registration, each under the lock of the signal

\* A send may be about to prune the key of r: it has found an earlier receiver
\* of that key dead, or has one in its snapshot that may be.
Threatens(t, r) ==
    \/ UidOf[r] \in dead[t]
    \/ phase[t] = "resolve" /\ Under(targets[t] \ {r}, {UidOf[r]}) # {}

\* connect(receiver, dispatch_uid)
Connect(r) ==
    /\ r \in alive
    /\ connected' = (connected \ Under(connected, {UidOf[r]})) \cup {r}
    /\ wanted' = [wanted EXCEPT ![UidOf[r]] = r]
    /\ contested' = IF \E t \in Threads : Threatens(t, r) THEN contested \cup {UidOf[r]}
                                                        ELSE contested \ {UidOf[r]}
    /\ KeepDue(connected')
    /\ UNCHANGED <<alive, phase, kind, targets, dead, heard>>

\* disconnect(receiver) or disconnect(dispatch_uid=u)
Disconnect(u) ==
    /\ connected' = connected \ Under(connected, {u})
    /\ wanted' = [wanted EXCEPT ![u] = Nobody]
    /\ contested' = contested \ {u}
    /\ KeepDue(connected')
    /\ UNCHANGED <<alive, phase, kind, targets, dead, heard>>

\* The last reference to r goes: nothing but weak references may be left, and
\* no thread holds it in the list that _live_receivers returned.
Drop(r) ==
    /\ r \in alive
    /\ r \notin Weak => r \notin connected /\ \A t \in Threads : r \notin targets[t]
    /\ \A t \in Threads : phase[t] \in {"prune", "call"} => r \notin targets[t] \cup heard[t]
    /\ alive' = alive \ {r}
    /\ UNCHANGED <<connected, phase, kind, targets, dead, heard, due, wanted, contested>>

-----------------------------------------------------------------------------
\* Dispatch

\* send, send_robust or has_listeners begins: _live_receivers copies the list.
Snapshot(t, what) ==
    /\ phase[t] = "out"
    /\ kind' = [kind EXCEPT ![t] = what]
    /\ targets' = [targets EXCEPT ![t] = connected]
    /\ due' = [due EXCEPT ![t] = connected]
    /\ phase' = [phase EXCEPT ![t] = "resolve"]
    /\ UNCHANGED <<connected, alive, dead, heard, wanted, contested>>

\* The weak references of the snapshot are followed, outside the lock.
Resolve(t) ==
    /\ phase[t] = "resolve"
    /\ targets' = [targets EXCEPT ![t] = @ \cap alive]
    /\ dead' = [dead EXCEPT ![t] = {UidOf[r] : r \in targets[t] \ alive}]
    /\ phase' = [phase EXCEPT ![t] = IF targets[t] \subseteq alive THEN "call" ELSE "prune"]
    /\ UNCHANGED <<connected, alive, kind, heard, due, wanted, contested>>

\* Mutant: the list becomes what the snapshot was, without the dead.
PruneWritesBack(t) ==
    /\ phase[t] = "prune"
    /\ connected' = targets[t]
    /\ dead' = [dead EXCEPT ![t] = {}]
    /\ phase' = [phase EXCEPT ![t] = "call"]
    /\ KeepDue(connected')
    /\ UNCHANGED <<alive, kind, targets, heard, wanted, contested>>

\* Whatever is registered under a key found dead is removed, under the lock.
Prune(t) ==
    /\ phase[t] = "prune"
    /\ connected' = connected \ Under(connected, dead[t])
    /\ dead' = [dead EXCEPT ![t] = {}]
    /\ phase' = [phase EXCEPT ![t] = "call"]
    /\ KeepDue(connected')
    /\ UNCHANGED <<alive, kind, targets, heard, wanted, contested>>

\* The next receiver is called and returns, or raises inside send_robust.
CallReceiver(t) ==
    /\ phase[t] = "call"
    /\ kind[t] # "has_listeners"
    /\ \E r \in targets[t] :
        /\ targets' = [targets EXCEPT ![t] = @ \ {r}]
        /\ heard' = [heard EXCEPT ![t] = @ \cup {r}]
    /\ UNCHANGED <<connected, alive, phase, kind, dead, due, wanted, contested>>

\* The call returns or raises: what it held is released.
LeaveSend(t) ==
    /\ phase' = [phase EXCEPT ![t] = "out"]
    /\ targets' = [targets EXCEPT ![t] = {}]
    /\ heard' = [heard EXCEPT ![t] = {}]
    /\ due' = [due EXCEPT ![t] = {}]
    /\ kind' = [kind EXCEPT ![t] = "send"]
    /\ UNCHANGED <<connected, alive, dead, wanted, contested>>

\* A receiver raises inside send: the others are not called.
SendRaises(t) ==
    /\ phase[t] = "call"
    /\ kind[t] = "send"
    /\ targets[t] # {}
    /\ LeaveSend(t)

\* Mutant: send_robust stops at the first receiver too.
SendReturnsEarly(t) ==
    /\ phase[t] = "call"
    /\ LeaveSend(t)

\* All receivers have been called, or were only asked for.
SendReturns(t) ==
    /\ phase[t] = "call"
    /\ kind[t] # "has_listeners" => targets[t] = {}
    /\ LeaveSend(t)

Dispatch(t) ==
    \/ \E what \in Sends : Snapshot(t, what)
    \/ Resolve(t)
    \/ Prune(t)
    \/ CallReceiver(t)
    \/ SendRaises(t)
    \/ SendReturns(t)

SignalsNext ==
    \/ \E r \in Receivers : Connect(r) \/ Drop(r)
    \/ \E u \in Uids : Disconnect(u)
    \/ \E t \in Threads : Dispatch(t)

SignalsSpec == SignalsInit /\ [][SignalsNext]_signalVars

-----------------------------------------------------------------------------
\* Properties

\* "dispatch_uid de-duplicates registrations" (docs/topics/signals.md), and a
\* receiver that was disconnected or replaced is not called by later sends:
\* what is connected is what was last connected under its key.  Pruning by
\* several threads never brings a registration back.
OnlyWantedConnected == \A r \in connected : wanted[UidOf[r]] = r

\* A live receiver stays connected until it is disconnected or replaced,
\* whatever other receivers of its key died before or after it was connected.
\* The exception is one connected between the snapshot and the pruning of a
\* send that holds an earlier receiver of its key: if that one is found dead,
\* the pruning removes the new one with it.
WantedStaysConnected ==
    \A u \in Uids :
        wanted[u] # Nobody /\ wanted[u] \in alive /\ u \notin contested => wanted[u] \in connected

\* A send that returns, and a send_robust even when receivers raise, has called
\* every receiver that was connected all the while, whatever other threads
\* connected, disconnected, dropped or pruned meanwhile.
EveryListenerHears ==
    [][\A t \in Threads :
        phase[t] = "call" /\ phase'[t] = "out" /\ kind[t] # "has_listeners"
            => \/ kind[t] = "send" /\ targets[t] # {}
               \/ due[t] \cap alive \subseteq heard[t]]_signalVars
=============================================================================
