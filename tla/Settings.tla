------------------------------ MODULE Settings ------------------------------
(***************************************************************************)
(* One setting as it is read through the LazySettings proxy (conf.py), and *)
(* replaced for a while by override_settings and modify_settings           *)
(* (testing/utils.py) in the thread that runs the tests, while threads of  *)
(* the code under test read it.                                            *)
(*                                                                         *)
(* A UserSettingsHolder is what it overrides over another holder, so that  *)
(* _wrapped is the sequence of the overrides in force, and <<>> is the     *)
(* Settings object of the project.                                         *)
(***************************************************************************)
EXTENDS Integers, Sequences

CONSTANTS
    Readers,     \* the threads that read the setting
    Overrides,   \* the override_settings and modify_settings objects
    Modifies,    \* those that are modify_settings
    Project,     \* the value of the project's module
    Nothing,     \* no value, no holder, no override
    Failed,      \* what a read gets that raises
    MaxDepth     \* bound: holders over each other

\* The value of an override is the override itself.
Settable == Overrides \cup {Project}
ASSUME SettingsAssumption ==
    /\ Modifies \subseteq Overrides
    /\ Project \notin Overrides
    /\ Nothing \notin Settable \cup Seq(Overrides)
    /\ Failed \notin Settable \cup {Nothing}

VARIABLES
    wrapped,    \* LazySettings._wrapped, or Nothing while it is not in the __dict__
    storing,    \* the holder that a swap of _wrapped has still to store, or Nothing
    saved,      \* saved[o]: self.wrapped of the override object o
    memo,       \* the setting in the __dict__ of the proxy, or Nothing
    held,       \* held[t]: what a reader took from _wrapped and will memoize, or Failed
    blocks,     \* the with blocks the test is in, innermost last
    entering,   \* the override being enabled, its receivers not yet all called
    excused     \* history: a block was not left in good order, or a swap of
                \* _wrapped met a reader that had read it and not yet memoized

settingsVars == <<wrapped, storing, saved, memo, held, blocks, entering, excused>>

Chains == Seq(Overrides)

SettingsTypeOK ==
    /\ wrapped \in Chains \cup {Nothing}
    /\ storing \in Chains \cup {Nothing}
    /\ saved \in [Overrides -> Chains \cup {Nothing}]
    /\ memo \in Settable \cup {Nothing}
    /\ held \in [Readers -> Settable \cup {Nothing, Failed}]
    /\ blocks \in Chains
    /\ entering \in Overrides \cup {Nothing}
    /\ excused \in BOOLEAN

SettingsInit ==
    /\ wrapped = <<>>
    /\ storing = Nothing
    /\ saved = [o \in Overrides |-> Nothing]
    /\ memo = Nothing
    /\ held = [t \in Readers |-> Nothing]
    /\ blocks = <<>>
    /\ entering = Nothing
    /\ excused = FALSE

ValueIn(chain) == IF chain = <<>> THEN Project ELSE chain[Len(chain)]
Outer(chain) == SubSeq(chain, 1, Len(chain) - 1)
MidRead == \E t \in Readers : held[t] \in Settable

\* settings._wrapped = ...: the proxy forgets all it has, _wrapped included ...
Swap(chain) ==
    /\ wrapped' = Nothing
    /\ memo' = Nothing
    /\ storing' = chain

\* ... and then has _wrapped again.
Store ==
    /\ storing # Nothing
    /\ wrapped' = storing
    /\ storing' = Nothing
    /\ UNCHANGED <<saved, memo, held, blocks, entering, excused>>

-----------------------------------------------------------------------------
\* Reading

\* The proxy has no memo of the setting: it is read from _wrapped ...
ReadWrapped(t) ==
    /\ held[t] = Nothing
    /\ memo = Nothing
    /\ wrapped # Nothing
    /\ held' = [held EXCEPT ![t] = ValueIn(wrapped)]
    /\ UNCHANGED <<wrapped, storing, saved, memo, blocks, entering, excused>>

\* ... and memoized, whatever _wrapped is by now.
Memoize(t) ==
    /\ held[t] \in Settable
    /\ memo' = held[t]
    /\ held' = [held EXCEPT ![t] = Nothing]
    /\ UNCHANGED <<wrapped, storing, saved, blocks, entering, excused>>

\* The proxy has neither a memo nor _wrapped: __getattr__ is called for
\* _wrapped as well, and so on ...
ReadFails(t) ==
    /\ held[t] = Nothing
    /\ memo = Nothing
    /\ wrapped = Nothing
    /\ held' = [held EXCEPT ![t] = Failed]
    /\ UNCHANGED <<wrapped, storing, saved, memo, blocks, entering, excused>>

\* ... until it raises: RecursionError, or AttributeError if _wrapped is
\* there before that.
ReadRaises(t) ==
    /\ held[t] = Failed
    /\ held' = [held EXCEPT ![t] = Nothing]
    /\ UNCHANGED <<wrapped, storing, saved, memo, blocks, entering, excused>>

-----------------------------------------------------------------------------
\* with override_settings(...), with modify_settings(...)

\* enable: override_settings swaps before it sends setting_changed;
\* modify_settings after, and reads the setting through the proxy first.
EnableBegin(o) ==
    /\ entering = Nothing /\ storing = Nothing
    /\ Len(blocks) < MaxDepth /\ Len(wrapped) < MaxDepth
    /\ saved' = [saved EXCEPT ![o] = wrapped]
    /\ entering' = o
    /\ excused' = (excused \/ saved[o] # Nothing \/ (o \notin Modifies /\ MidRead))
    /\ IF o \in Modifies
         THEN memo' = (IF memo = Nothing THEN ValueIn(wrapped) ELSE memo) /\ UNCHANGED <<wrapped, storing>>
         ELSE Swap(Append(wrapped, o))
    /\ UNCHANGED <<held, blocks>>

\* All receivers returned: the block is entered.
EnableEnds ==
    /\ entering # Nothing /\ storing = Nothing
    /\ blocks' = Append(blocks, entering)
    /\ entering' = Nothing
    /\ excused' = (excused \/ (entering \in Modifies /\ MidRead))
    /\ IF entering \in Modifies
         THEN Swap(Append(saved[entering], entering))
         ELSE UNCHANGED <<wrapped, storing, memo>>
    /\ UNCHANGED <<saved, held>>

\* A receiver raises: so does __enter__, and __exit__ is never called.
EnableRaises ==
    /\ entering # Nothing /\ storing = Nothing
    /\ entering' = Nothing
    /\ excused' = TRUE
    /\ UNCHANGED <<wrapped, storing, saved, memo, held, blocks>>

\* Mutant: the outermost holder is restored, not the one that was found.
DisableToProject ==
    /\ blocks # <<>> /\ entering = Nothing /\ storing = Nothing
    /\ LET o == ValueIn(blocks) IN
        /\ Swap(<<>>)
        /\ saved' = [saved EXCEPT ![o] = Nothing]
    /\ blocks' = Outer(blocks)
    /\ excused' = (excused \/ MidRead)
    /\ UNCHANGED <<held, entering>>

\* disable: what enable found is put back.  Its receivers come after that, so
\* that one that raises changes nothing here.
Disable ==
    /\ blocks # <<>> /\ entering = Nothing /\ storing = Nothing
    /\ LET o == ValueIn(blocks) IN
        IF saved[o] = Nothing
          THEN UNCHANGED <<wrapped, storing, memo, saved>>
          ELSE /\ Swap(saved[o])
               /\ saved' = [saved EXCEPT ![o] = Nothing]
    /\ blocks' = Outer(blocks)
    /\ excused' = (excused \/ MidRead)
    /\ UNCHANGED <<held, entering>>

SettingsNext ==
    \/ \E t \in Readers : ReadWrapped(t) \/ Memoize(t) \/ ReadFails(t) \/ ReadRaises(t)
    \/ Store
    \/ \E o \in Overrides : EnableBegin(o)
    \/ EnableEnds
    \/ EnableRaises
    \/ Disable

SettingsSpec == SettingsInit /\ [][SettingsNext]_settingsVars

-----------------------------------------------------------------------------
\* Properties

\* Inside blocks the innermost override is in force, outside of all blocks the
\* project's value is, and every read that gets a value gets that one: for
\* blocks that nest objects that are not entered twice, whose receivers do not
\* raise while a block is entered, and that begin and end between the two steps
\* of no read.  A read that meets a swap between its two steps gets no value,
\* it raises.
OverridesNest ==
    ~ excused /\ entering = Nothing =>
        /\ storing = Nothing => wrapped = blocks
        /\ memo \in {Nothing, ValueIn(blocks)}
        /\ \A t \in Readers : held[t] \in {Nothing, Failed, ValueIn(blocks)}
=============================================================================
