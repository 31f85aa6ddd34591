--------------------------- MODULE SequencerStores ---------------------------
(***************************************************************************)
(* The pattern bank and the step expression of one sequencer channel       *)
(* (services/sequencer_pattern_store, services/sequencer_step_store), the  *)
(* editor commands that change both (ui/ui_controller_sequencer) and the   *)
(* copies that the engine plays.  Both stores commit on their own, in this *)
(* order, when the loop (clock_application.cpp runOnce) comes to them.     *)
(*                                                                         *)
(* The expression of a slot is the set of its steps that carry an          *)
(* override; what an override says matters to nobody here.                 *)
(***************************************************************************)
EXTENDS Integers, FiniteSets, FiniteSetsExt

CONSTANTS
  Patterns,       \* gates, length, rotation, direction and loop mode of a slot
  Clean,          \* SequencerPatternV2{}
  Legacy,         \* what seedLegacyPatternOnes makes of the 1.1 sequence
  Slots, First,   \* pattern slots of the channel, P1
  Steps,          \* steps that may carry an override
  MaxOverrides,   \* kMaximumOverrides
  CommitDelay,    \* kPersistenceCommitDelayMs, in ticks
  Outcomes,       \* what commits may do: subset of {"ok", "failed", "late"}
  None

StoresAssumption ==
  /\ {Clean, Legacy} \subseteq Patterns /\ First \in Slots
  /\ MaxOverrides \in Nat /\ CommitDelay \in Nat
  /\ Outcomes \subseteq {"ok", "failed", "late"}

VARIABLES
  flash,      \* bank: [slots, active] or None; steps: [Slots -> SUBSET Steps] or None
  powered, playing,
  bank,       \* patterns_ and activeSlots_: [slots, active]
  steps,      \* keys_ and words_: overrides per slot
  dirty,      \* [bank, steps]: changed since the last commit
  age,        \* [bank, steps]: time since dirtySinceMs_
  engine,     \* what the engine plays: [pattern, steps]
  clipboard,  \* None or [pattern, steps]
  turn,       \* the store whose turn it is in the loop
  reset       \* history: "none", or what followed a factory reset that succeeded:
              \* "clean" while nothing was edited, then "edited"

vars == <<flash, powered, playing, bank, steps, dirty, age, engine, clipboard, turn, reset>>
ram == <<bank, steps, dirty, age, engine, clipboard>>

CleanBank == [slots |-> [s \in Slots |-> Clean], active |-> First]
NoSteps == [s \in Slots |-> {}]
Overrides(st) == MapThenSumSet(LAMBDA s : Cardinality(st[s]), Slots)
\* What the engine is given of the active slot: its pattern and its step words.
ActivePattern(b) == b.slots[b.active]
PatternWords(b, st) == st[b.active]
Playing(b, st) == [pattern |-> ActivePattern(b), steps |-> PatternWords(b, st)]
Kept == [bank |-> FALSE, steps |-> FALSE]
Now == [bank |-> 0, steps |-> 0]

\* dirtySinceMs_ is set by the change that makes a store dirty.
MarkDirty(store) ==
  /\ dirty' = [dirty EXCEPT ![store] = TRUE]
  /\ age' = IF dirty[store] THEN age ELSE [age EXCEPT ![store] = 0]

\* A command that changes the pattern, and the step words if touched.
MarkBoth(touched) ==
  /\ dirty' = [bank |-> TRUE, steps |-> dirty.steps \/ touched]
  /\ age' = [store \in DOMAIN age |-> IF dirty[store] THEN age[store] ELSE 0]

-----------------------------------------------------------------------------
Init ==
  /\ flash = [bank |-> None, steps |-> None]
  /\ powered = FALSE /\ playing = FALSE /\ turn = "bank" /\ reset = "none"
  /\ bank = CleanBank /\ steps = NoSteps /\ dirty = Kept /\ age = Now
  /\ engine = Playing(CleanBank, NoSteps) /\ clipboard = None

(* Both begin(), seedLegacyPatternOnes, loadSequencerPatternBank. *)
Boot ==
  LET found == flash.bank # None
      loaded == IF found THEN flash.bank ELSE [CleanBank EXCEPT !.slots[First] = Legacy]
      words == IF flash.steps = None THEN NoSteps ELSE flash.steps
  IN  /\ ~powered /\ powered' = TRUE /\ playing' = FALSE /\ turn' = "bank"
      /\ bank' = loaded /\ steps' = words
      /\ dirty' = [Kept EXCEPT !.bank = ~found] /\ age' = Now
      /\ engine' = Playing(loaded, words) /\ clipboard' = None
      /\ UNCHANGED <<flash, reset>>

PowerLoss ==
  /\ powered /\ powered' = FALSE /\ playing' = FALSE /\ turn' = "bank"
  /\ bank' = CleanBank /\ steps' = NoSteps /\ dirty' = Kept /\ age' = Now
  /\ engine' = Playing(CleanBank, NoSteps) /\ clipboard' = None
  /\ UNCHANGED <<flash, reset>>

\* The loop handles the panel before it comes to the stores.
InUi == powered /\ turn = "bank"

Transport ==
  /\ InUi /\ playing' = ~playing
  /\ UNCHANGED <<flash, powered, turn, reset>> /\ UNCHANGED ram

Edited ==
  /\ reset' = IF reset = "none" THEN "none" ELSE "edited"
  /\ UNCHANGED <<flash, powered, playing, turn>>

\* Mutant: the engine takes the pattern of the slot and keeps its expression.
SelectPattern(s) ==
  /\ InUi /\ s # bank.active
  /\ bank' = [bank EXCEPT !.active = s]
  /\ MarkDirty("bank")
  /\ engine' = [engine EXCEPT !.pattern = bank.slots[s]]
  /\ Edited /\ UNCHANGED <<steps, clipboard>>

\* setActiveSlot, which does nothing for the slot that is active already.
SelectSlot(s) ==
  /\ InUi /\ s # bank.active
  /\ bank' = [bank EXCEPT !.active = s]
  /\ MarkDirty("bank")
  /\ engine' = Playing(bank', steps)
  /\ Edited /\ UNCHANGED <<steps, clipboard>>

\* updatePattern and setGate: an edit of length, rotation, mode or one gate.
EditPattern(p) ==
  /\ InUi
  /\ bank' = [bank EXCEPT !.slots[bank.active] = p]
  /\ MarkDirty("bank")
  /\ engine' = Playing(bank', steps)
  /\ Edited /\ UNCHANGED <<steps, clipboard>>

\* updateMetadata: an override set or changed; refused when the store is full.
SetOverride(n) ==
  /\ InUi
  /\ n \in steps[bank.active] \/ Overrides(steps) < MaxOverrides
  /\ steps' = [steps EXCEPT ![bank.active] = @ \cup {n}]
  /\ MarkDirty("steps")
  /\ engine' = Playing(bank, steps')
  /\ Edited /\ UNCHANGED <<bank, clipboard>>

\* updateMetadata back to the defaults.
DropOverride(n) ==
  /\ InUi /\ n \in steps[bank.active]
  /\ steps' = [steps EXCEPT ![bank.active] = @ \ {n}]
  /\ MarkDirty("steps")
  /\ engine' = Playing(bank, steps')
  /\ Edited /\ UNCHANGED <<bank, clipboard>>

Copy ==
  /\ InUi /\ clipboard' = Playing(bank, steps)
  /\ UNCHANGED <<flash, powered, playing, turn, reset, bank, steps, dirty, age, engine>>

\* replacePatternWords: room is needed for the new words beside those of the
\* other slots; the store changes as a whole or not at all.
Fits(words) ==
  Overrides([steps EXCEPT ![bank.active] = {}]) + Cardinality(words) <= MaxOverrides

Paste ==
  /\ InUi /\ clipboard # None /\ Fits(clipboard.steps)
  /\ bank' = [bank EXCEPT !.slots[bank.active] = clipboard.pattern]
  /\ steps' = [steps EXCEPT ![bank.active] = clipboard.steps]
  /\ MarkBoth(clipboard.steps # {} \/ steps[bank.active] # {})
  /\ engine' = Playing(bank', steps')
  /\ Edited /\ UNCHANGED clipboard

\* CLEAR takes the gates of the slot and its expression.
Clear(p) ==
  /\ InUi
  /\ bank' = [bank EXCEPT !.slots[bank.active] = p]
  /\ steps' = [steps EXCEPT ![bank.active] = {}]
  /\ MarkBoth(steps[bank.active] # {})
  /\ engine' = Playing(bank', steps')
  /\ Edited /\ UNCHANGED clipboard

Tick ==
  /\ powered /\ \E store \in {"bank", "steps"} : dirty[store] /\ age[store] < CommitDelay
  /\ age' = [store \in DOMAIN age |->
               IF dirty[store] /\ age[store] < CommitDelay THEN age[store] + 1 ELSE age[store]]
  /\ UNCHANGED <<flash, powered, playing, turn, reset, bank, steps, dirty, engine, clipboard>>

-----------------------------------------------------------------------------
Ready(store) == dirty[store] /\ ~playing /\ age[store] >= CommitDelay

\* service() and flush() of the store whose turn it is; o is what the commit does.
Commit(store, o) ==
  /\ powered /\ turn = store /\ Ready(store)
  /\ flash' = IF o = "failed" THEN flash
              ELSE [flash EXCEPT ![store] = IF store = "bank" THEN bank ELSE steps]
  /\ dirty' = IF o = "ok" THEN [dirty EXCEPT ![store] = FALSE] ELSE dirty
  /\ age' = IF o = "ok" THEN [age EXCEPT ![store] = 0] ELSE age
  /\ turn' = IF store = "bank" THEN "steps" ELSE "bank"
  /\ UNCHANGED <<powered, playing, reset, bank, steps, engine, clipboard>>

Skip(store) ==
  /\ powered /\ turn = store /\ ~Ready(store)
  /\ turn' = IF store = "bank" THEN "steps" ELSE "bank"
  /\ UNCHANGED <<flash, powered, playing, reset>> /\ UNCHANGED ram

\* PersistentStateService::factoryReset erases the whole image; neither store
\* is told, and the engine keeps its copies.
FactoryReset(o) ==
  /\ InUi
  /\ flash' = IF o = "failed" THEN flash ELSE [bank |-> None, steps |-> None]
  /\ playing' = FALSE
  /\ reset' = CASE o = "ok" -> "clean" [] o = "late" -> "edited" [] OTHER -> reset
  /\ UNCHANGED <<powered, turn>> /\ UNCHANGED ram

Next ==
  \/ Boot \/ PowerLoss \/ Transport \/ Copy \/ Paste \/ Tick
  \/ \E s \in Slots : SelectSlot(s)
  \/ \E p \in Patterns : EditPattern(p) \/ Clear(p)
  \/ \E n \in Steps : SetOverride(n) \/ DropOverride(n)
  \/ \E store \in {"bank", "steps"} :
       Skip(store) \/ \E o \in Outcomes : Commit(store, o)
  \/ \E o \in Outcomes : FactoryReset(o)

Spec == Init /\ [][Next]_vars

(* The loop turns, its clock advances, and commits that are tried again and   *)
(* again succeed in the end.                                                  *)
FairSpec ==
  /\ Spec /\ WF_vars(Tick)
  /\ \A store \in {"bank", "steps"} :
       WF_vars(Skip(store) \/ \E o \in Outcomes : Commit(store, o)) /\ SF_vars(Commit(store, "ok"))

-----------------------------------------------------------------------------
(* Properties *)

TypeOK ==
  /\ flash.bank \in [slots : [Slots -> Patterns], active : Slots] \cup {None}
  /\ flash.steps \in [Slots -> SUBSET Steps] \cup {None}
  /\ bank \in [slots : [Slots -> Patterns], active : Slots]
  /\ steps \in [Slots -> SUBSET Steps] /\ Overrides(steps) <= MaxOverrides
  /\ age \in [{"bank", "steps"} -> 0..CommitDelay]

\* The engine plays the active slot of the stores, after every editor command,
\* slot change, paste and power cycle (synchronizeActiveSequencerPattern).
EngineShowsActiveSlot == powered => engine = Playing(bank, steps)

\* A store that is not dirty agrees with the image, so that a power cycle
\* loses nothing but what still waits for its commit.  (A factory reset erases
\* the image under the stores: see ResetForgetsPatterns.)
CleanIsStored ==
  powered /\ reset = "none" =>
    /\ dirty.bank \/ flash.bank = bank
    /\ dirty.steps \/ flash.steps = steps \/ (flash.steps = None /\ steps = NoSteps)

\* "Flash writes are coalesced": edits that go on for ever do not postpone the
\* write, the delay counts from the first change.
DirtyIsCommitted ==
  <>[](powered /\ ~playing) => []<>~dirty.bank /\ []<>~dirty.steps

\* ERASE ALL DATA: until the user edits something, the image holds no pattern
\* or expression from before a factory reset that succeeded.
ResetForgetsPatterns ==
  reset = "clean" => flash.bank = None /\ flash.steps = None
=============================================================================
