------------------------ MODULE SequencerStoresProofs ------------------------
(***************************************************************************)
(* For every set of patterns, slots, steps and commit outcomes: the engine *)
(* plays the active slot of the stores, and what is not marked dirty is in *)
(* the image.  Neither needs the bound on the overrides.                   *)
(***************************************************************************)
EXTENDS SequencerStores, TLAPS

Stores == {"bank", "steps"}
Banks == [slots : [Slots -> Patterns], active : Slots]
Words == [Slots -> SUBSET Steps]

Typed ==
  /\ flash \in [bank : Banks \cup {None}, steps : Words \cup {None}]
  /\ powered \in BOOLEAN
  /\ bank \in Banks /\ steps \in Words
  /\ dirty \in [Stores -> BOOLEAN]
  /\ DOMAIN age = Stores
  /\ clipboard \in [pattern : Patterns, steps : SUBSET Steps] \cup {None}

IInv == Typed /\ EngineShowsActiveSlot /\ CleanIsStored

\* A record of two flags is a function on the two stores.
LEMMA FlagRecords == [bank : BOOLEAN, steps : BOOLEAN] = [Stores -> BOOLEAN]
  BY DEF Stores

\* The values the stores start from and fall back to.
LEMMA Defaults ==
  ASSUME StoresAssumption
  PROVE  /\ CleanBank \in Banks /\ NoSteps \in Words /\ Kept \in [Stores -> BOOLEAN]
         /\ [CleanBank EXCEPT !.slots[First] = Legacy] \in Banks
  <1>1. CleanBank \in Banks /\ [CleanBank EXCEPT !.slots[First] = Legacy] \in Banks
    BY DEF StoresAssumption, CleanBank, Banks
  <1>2. NoSteps \in Words
    BY DEF NoSteps, Words
  <1>3. Kept \in [bank : BOOLEAN, steps : BOOLEAN]
    BY DEF Kept
  <1> QED BY <1>1, <1>2, <1>3, FlagRecords

\* What the clipboard and the engine take is a pattern and a set of steps.
LEMMA PlayingIsTyped ==
  ASSUME NEW b \in Banks, NEW st \in Words
  PROVE  Playing(b, st) \in [pattern : Patterns, steps : SUBSET Steps]
  BY DEF Playing, ActivePattern, PatternWords, Banks, Words

\* Marking keeps the flags flags, and never unmarks the other store.
LEMMA MarkingMarks ==
  ASSUME NEW store \in Stores, MarkDirty(store), Typed
  PROVE  /\ dirty' \in [Stores -> BOOLEAN] /\ DOMAIN age' = Stores
         /\ dirty'[store] /\ \A other \in Stores \ {store} : dirty'[other] = dirty[other]
  BY DEF MarkDirty, Typed, Stores

\* The same for the commands that change both stores.
LEMMA MarkingBothMarks ==
  ASSUME NEW touched \in BOOLEAN, MarkBoth(touched), Typed
  PROVE  /\ dirty' \in [Stores -> BOOLEAN] /\ DOMAIN age' = Stores
         /\ dirty'.bank /\ dirty'.steps = (dirty.steps \/ touched)
  <1>1. dirty.bank \in BOOLEAN /\ dirty.steps \in BOOLEAN
    BY DEF Typed, Stores
  <1>2. dirty' \in [bank : BOOLEAN, steps : BOOLEAN]
    BY <1>1 DEF MarkBoth
  <1>3. DOMAIN age' = Stores /\ dirty'.bank /\ dirty'.steps = (dirty.steps \/ touched)
    BY DEF MarkBoth, Typed
  <1> QED BY <1>2, <1>3, FlagRecords

LEMMA InitInv == StoresAssumption /\ Init => IInv
  <1> SUFFICES ASSUME StoresAssumption, Init PROVE IInv
    OBVIOUS
  <1>1. flash \in [bank : Banks \cup {None}, steps : Words \cup {None}]
    BY DEF Init
  <1>2. Typed
    BY <1>1, Defaults DEF Init, Typed, Now, Stores
  <1> QED BY <1>2 DEF Init, IInv, EngineShowsActiveSlot, CleanIsStored

LEMMA BootInv == StoresAssumption /\ IInv /\ Boot => IInv'
  <1> SUFFICES ASSUME StoresAssumption, IInv, Boot PROVE IInv'
    OBVIOUS
  <1> USE DEF IInv, Typed
  <1>1. flash.bank \in Banks \cup {None} /\ flash.steps \in Words \cup {None}
    OBVIOUS
  <1>2. /\ bank' = IF flash.bank # None THEN flash.bank
                   ELSE [CleanBank EXCEPT !.slots[First] = Legacy]
        /\ steps' = IF flash.steps = None THEN NoSteps ELSE flash.steps
        /\ dirty' = [Kept EXCEPT !.bank = ~(flash.bank # None)] /\ age' = Now
        /\ engine' = Playing(bank', steps') /\ clipboard' = None
        /\ powered' = TRUE /\ flash' = flash /\ reset' = reset
    BY DEF Boot
  <1>3. Typed'
    BY <1>1, <1>2, Defaults DEF Kept, Now, Stores
  <1>4. CleanIsStored'
    BY <1>1, <1>2 DEF CleanIsStored, Kept
  <1> QED BY <1>2, <1>3, <1>4 DEF EngineShowsActiveSlot

LEMMA PowerLossInv == StoresAssumption /\ IInv /\ PowerLoss => IInv'
  BY Defaults DEF IInv, PowerLoss, Typed, EngineShowsActiveSlot, CleanIsStored, Kept, Now, Stores

\* A command that changes the pattern alone.
LEMMA BankEditInv ==
  ASSUME IInv, powered, bank' \in Banks, MarkDirty("bank"), engine' = Playing(bank', steps),
         Edited, UNCHANGED <<steps, clipboard>>
  PROVE  IInv'
  <1>1. /\ dirty' \in [Stores -> BOOLEAN] /\ DOMAIN age' = Stores
        /\ dirty'.bank /\ dirty'.steps = dirty.steps
    BY MarkingMarks DEF IInv, Stores
  <1>2. flash' = flash /\ powered' = powered /\ (reset' = "none" => reset = "none")
    BY DEF Edited
  <1> QED BY <1>1, <1>2 DEF IInv, Typed, EngineShowsActiveSlot, CleanIsStored

\* A command that changes the expression alone.
LEMMA StepsEditInv ==
  ASSUME IInv, powered, steps' \in Words, MarkDirty("steps"), engine' = Playing(bank, steps'),
         Edited, UNCHANGED <<bank, clipboard>>
  PROVE  IInv'
  <1>1. /\ dirty' \in [Stores -> BOOLEAN] /\ DOMAIN age' = Stores
        /\ dirty'.steps /\ dirty'.bank = dirty.bank
    BY MarkingMarks DEF IInv, Stores
  <1>2. flash' = flash /\ powered' = powered /\ (reset' = "none" => reset = "none")
    BY DEF Edited
  <1> QED BY <1>1, <1>2 DEF IInv, Typed, EngineShowsActiveSlot, CleanIsStored, Playing, ActivePattern, PatternWords

\* A command that changes both: without a touched word the expression is what
\* it was, so it may stay unmarked.
LEMMA BothEditInv ==
  ASSUME IInv, powered, bank' \in Banks, NEW words \in SUBSET Steps,
         steps' = [steps EXCEPT ![bank.active] = words],
         MarkBoth(words # {} \/ steps[bank.active] # {}),
         engine' = Playing(bank', steps'), Edited, UNCHANGED clipboard
  PROVE  IInv'
  <1>1. /\ dirty' \in [Stores -> BOOLEAN] /\ DOMAIN age' = Stores /\ dirty'.bank
        /\ dirty'.steps = (dirty.steps \/ words # {} \/ steps[bank.active] # {})
    BY MarkingBothMarks DEF IInv
  <1>2. flash' = flash /\ powered' = powered /\ (reset' = "none" => reset = "none")
    BY DEF Edited
  <1>3. steps' \in Words
    BY DEF IInv, Typed, Banks, Words
  <1>4. ASSUME words = {}, steps[bank.active] = {} PROVE steps' = steps
    BY <1>4 DEF IInv, Typed, Banks, Words
  <1>5. dirty'.steps \/ (steps' = steps /\ ~dirty.steps)
    BY <1>1, <1>4 DEF IInv, Typed, Stores
  <1> QED BY <1>1, <1>2, <1>3, <1>5 DEF IInv, Typed, EngineShowsActiveSlot, CleanIsStored

LEMMA SelectSlotInv == IInv => \A s \in Slots : SelectSlot(s) => IInv'
  <1> SUFFICES ASSUME IInv, NEW s \in Slots, SelectSlot(s) PROVE IInv'
    OBVIOUS
  <1>1. bank' \in Banks
    BY DEF IInv, Typed, SelectSlot, Banks
  <1> QED BY <1>1, BankEditInv DEF SelectSlot, InUi

LEMMA EditPatternInv == IInv => \A p \in Patterns : EditPattern(p) => IInv'
  <1> SUFFICES ASSUME IInv, NEW p \in Patterns, EditPattern(p) PROVE IInv'
    OBVIOUS
  <1>1. bank' \in Banks
    BY DEF IInv, Typed, EditPattern, Banks
  <1> QED BY <1>1, BankEditInv DEF EditPattern, InUi

LEMMA OverrideInv == IInv => \A n \in Steps : SetOverride(n) \/ DropOverride(n) => IInv'
  <1> SUFFICES ASSUME IInv, NEW n \in Steps, SetOverride(n) \/ DropOverride(n) PROVE IInv'
    OBVIOUS
  <1>1. steps' \in Words
    BY DEF IInv, Typed, SetOverride, DropOverride, Banks, Words
  <1> QED BY <1>1, StepsEditInv DEF SetOverride, DropOverride, InUi

LEMMA PasteInv == IInv /\ Paste => IInv'
  <1> SUFFICES ASSUME IInv, Paste PROVE IInv'
    OBVIOUS
  <1>1. clipboard.pattern \in Patterns /\ clipboard.steps \in SUBSET Steps
    BY DEF IInv, Typed, Paste
  <1>2. bank' \in Banks
    BY <1>1 DEF IInv, Typed, Paste, Banks
  <1> QED BY <1>1, <1>2, BothEditInv DEF Paste, InUi

LEMMA ClearInv == IInv => \A p \in Patterns : Clear(p) => IInv'
  <1> SUFFICES ASSUME IInv, NEW p \in Patterns, Clear(p) PROVE IInv'
    OBVIOUS
  <1>1. bank' \in Banks
    BY DEF IInv, Typed, Clear, Banks
  <1>2. MarkBoth({} # {} \/ steps[bank.active] # {})
    BY DEF Clear
  <1> QED BY <1>1, <1>2, BothEditInv DEF Clear, InUi

LEMMA CommitInv ==
  IInv => \A store \in Stores : \A o \in Outcomes : Commit(store, o) => IInv'
  <1> SUFFICES ASSUME IInv, NEW store \in Stores, NEW o \in Outcomes, Commit(store, o)
               PROVE  IInv'
    OBVIOUS
  <1> USE DEF IInv, Typed, Stores
  <1>1. UNCHANGED <<powered, reset, bank, steps, engine, clipboard>>
    BY DEF Commit
  <1>2. /\ dirty' \in [Stores -> BOOLEAN] /\ DOMAIN age' = Stores
        /\ dirty' = IF o = "ok" THEN [dirty EXCEPT ![store] = FALSE] ELSE dirty
    BY DEF Commit
  <1>3. flash' = IF o = "failed" THEN flash
                 ELSE [flash EXCEPT ![store] = IF store = "bank" THEN bank ELSE steps]
    BY DEF Commit
  <1>4. Typed'
    BY <1>1, <1>2, <1>3
  <1>5. CleanIsStored'
    <2>1. CASE store = "bank"
      BY <2>1, <1>1, <1>2, <1>3 DEF CleanIsStored
    <2>2. CASE store = "steps"
      BY <2>2, <1>1, <1>2, <1>3 DEF CleanIsStored
    <2> QED BY <2>1, <2>2
  <1> QED BY <1>1, <1>4, <1>5 DEF EngineShowsActiveSlot

LEMMA FactoryResetInv ==
  StoresAssumption /\ IInv => \A o \in Outcomes : FactoryReset(o) => IInv'
  <1> SUFFICES ASSUME StoresAssumption, IInv, NEW o \in Outcomes, FactoryReset(o) PROVE IInv'
    OBVIOUS
  <1>1. o \in {"ok", "failed", "late"}
    BY DEF StoresAssumption
  <1>2. UNCHANGED <<powered, bank, steps, dirty, age, engine, clipboard>>
    BY DEF FactoryReset, ram
  <1>3. flash' \in [bank : Banks \cup {None}, steps : Words \cup {None}]
    BY DEF FactoryReset, IInv, Typed
  <1>4. reset' = "none" => flash' = flash /\ reset = "none"
    BY <1>1 DEF FactoryReset
  <1> QED BY <1>2, <1>3, <1>4 DEF IInv, Typed, EngineShowsActiveSlot, CleanIsStored

\* Steps that leave the stores, the image and the engine alone.
LEMMA OtherInv ==
  ASSUME IInv, Transport \/ Copy \/ Tick \/ (\E store \in Stores : Skip(store)) \/ UNCHANGED vars
  PROVE  IInv'
  <1>1. /\ UNCHANGED <<flash, powered, bank, steps, dirty, engine, reset>>
        /\ DOMAIN age' = Stores
    BY DEF Transport, Copy, Tick, Skip, ram, vars, IInv, Typed, Stores
  <1>2. clipboard' \in [pattern : Patterns, steps : SUBSET Steps] \cup {None}
    BY PlayingIsTyped DEF Transport, Copy, Tick, Skip, ram, vars, IInv, Typed
  <1> QED BY <1>1, <1>2 DEF IInv, Typed, EngineShowsActiveSlot, CleanIsStored

\* Every step keeps the inductive invariant.
LEMMA NextInv == StoresAssumption /\ IInv /\ [Next]_vars => IInv'
  BY BootInv, PowerLossInv, SelectSlotInv, EditPatternInv, OverrideInv, PasteInv, ClearInv,
     CommitInv, FactoryResetInv, OtherInv DEF Next, Stores

\* For every value of the constants the code could have.
LEMMA Inductive == StoresAssumption => (Spec => []IInv)
  <1> SUFFICES ASSUME StoresAssumption PROVE Spec => []IInv
    OBVIOUS
  <1> QED BY InitInv, NextInv, PTL DEF Spec

(* The engine plays the active slot of the stores, whatever the editor did, *)
(* whichever slot was selected, and after every power cycle                 *)
(* (ui_controller_sequencer, synchronizeActiveSequencerPattern).            *)
THEOREM EngineFollows == StoresAssumption => (Spec => []EngineShowsActiveSlot)
  <1> SUFFICES ASSUME StoresAssumption PROVE Spec => []EngineShowsActiveSlot
    OBVIOUS
  <1>1. IInv => EngineShowsActiveSlot
    BY DEF IInv
  <1> QED BY Inductive, <1>1, PTL

(* What is not marked dirty is in the image: a power cycle loses nothing    *)
(* but the edits that still wait for their commit, failed commits included. *)
THEOREM NothingLost == StoresAssumption => (Spec => []CleanIsStored)
  <1> SUFFICES ASSUME StoresAssumption PROVE Spec => []CleanIsStored
    OBVIOUS
  <1>1. IInv => CleanIsStored
    BY DEF IInv
  <1> QED BY Inductive, <1>1, PTL
=============================================================================
