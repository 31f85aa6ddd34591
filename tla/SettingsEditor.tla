---------------------------- MODULE SettingsEditor ----------------------------
(***************************************************************************)
(* Edits of the configuration (ui/settings_editor*.cpp, the UI handlers    *)
(* that change state_ as a whole), the copy of it that the engine plays    *)
(* (ClockEngine::update*, engine/output_mode_resolver), and the validation *)
(* a record must pass to be loaded again (persistent_state_validation).    *)
(*                                                                         *)
(* Settings that are clamped to a range of their own and constrain nothing *)
(* else (rate, swing, phase, gate length, sync ...) are one value `plain'  *)
(* per group.  Ranges that constrain each other are kept: the tempo range, *)
(* the display times, the input roles, groove, Euclid and sequencer        *)
(* geometry.                                                               *)
(***************************************************************************)
EXTENDS Integers, Sequences

CONSTANTS
  Channels,
  Deltas,        \* what one encoder report may add
  LowestBpm, HighestBpm,  \* kSupportedMinimumBpm, kSupportedMaximumBpm
  MaxMinutes,    \* kMaximumScreensaverMinutes
  LastRole,      \* input roles are 0 (Off) .. LastRole (Tap)
  MaxSteps,      \* steps of a Euclid or sequencer pattern
  GrooveLengths, \* pattern length of each groove preset 0 (Off), 1, ..
  CustomLength,  \* kCustomGrooveMaximumSteps
  MaxPlain,      \* plain settings are 0..MaxPlain
  MaxEdits,      \* bound: edits made in one behaviour
  None

VARIABLES
  state,      \* state_
  engine,     \* configuration_ of the engine
  clipboard,  \* sequencerClipboard_, or None
  edits       \* edits made so far (bound)

vars == <<state, engine, clipboard, edits>>

Least(x, y) == IF x < y THEN x ELSE y
Clamp(value, low, high) == IF Least(value, high) < low THEN low ELSE Least(value, high)
Custom == Len(GrooveLengths)
Length(preset) == IF preset = Custom THEN CustomLength ELSE GrooveLengths[preset + 1]
NoGroove == [preset |-> 0, rotation |-> 0]
Within(steps) == 0..steps - 1

Blank == [mode |-> "Clock", plain |-> 0, groove |-> NoGroove, meter |-> 0,
          euclid |-> [steps |-> MaxSteps, hits |-> 1, rotation |-> 0],
          sequencer |-> [length |-> MaxSteps, rotation |-> 0, pattern |-> {0}]]

\* initializeFactoryDefaults
Factory ==
  [topology |-> "UnifiedClock", transport |-> 0, device |-> 0,
   tempo |-> [low |-> LowestBpm, bpm |-> LowestBpm + 1, high |-> HighestBpm],
   display |-> [saver |-> 1, dim |-> 1, off |-> MaxMinutes],
   inputs |-> [i \in {1, 2} |-> i], meter |-> 0, sync |-> 0,
   unified |-> [plain |-> 0, groove |-> NoGroove], divider |-> 0,
   channels |-> [c \in Channels |-> Blank]]

-----------------------------------------------------------------------------
(* persistent_state_validation: a record that fails it is not loaded.       *)

ValidGroove(g) == g.preset \in 0..Custom /\ g.rotation \in Within(Length(g.preset))

ValidChannel(c) ==
  /\ ValidGroove(c.groove)
  /\ c.euclid.steps \in 1..MaxSteps /\ c.euclid.hits \in 0..c.euclid.steps
  /\ c.euclid.rotation \in Within(c.euclid.steps)
  /\ c.sequencer.length \in 1..MaxSteps
  /\ c.sequencer.rotation \in Within(c.sequencer.length)

Valid(s) ==
  /\ LowestBpm <= s.tempo.low /\ s.tempo.low <= s.tempo.bpm
  /\ s.tempo.bpm <= s.tempo.high /\ s.tempo.high <= HighestBpm
  /\ s.inputs[1] \in 0..LastRole /\ s.inputs[2] \in 0..LastRole
  /\ s.inputs[1] = 0 \/ s.inputs[1] # s.inputs[2]
  /\ 1 <= s.display.saver /\ s.display.saver <= s.display.dim
  /\ s.display.dim <= s.display.off /\ s.display.off <= MaxMinutes
  /\ ValidGroove(s.unified.groove)
  /\ \A c \in Channels : ValidChannel(s.channels[c])

-----------------------------------------------------------------------------
(* The engine's copy.                                                       *)

\* resolvePhysicalOutputConfiguration
Output(s, c) ==
  CASE s.topology = "UnifiedClock" ->
         [Blank EXCEPT !.plain = s.unified.plain, !.groove = s.unified.groove, !.meter = s.meter]
    [] s.topology = "DividerBank" -> [Blank EXCEPT !.plain = s.divider, !.meter = s.meter]
    [] OTHER -> s.channels[c]

\* copyConfigurationUnsafe
Copy(s) == [bpm |-> s.tempo.bpm, meter |-> s.meter, sync |-> s.sync, topology |-> s.topology,
            channels |-> [c \in Channels |-> Output(s, c)]]

UpdateConfiguration(s) == state' = s /\ engine' = Copy(s)
UpdateMasterTempo(s) == state' = s /\ engine' = [engine EXCEPT !.bpm = s.tempo.bpm]
UpdateChannel(s, c) == state' = s /\ engine' = [engine EXCEPT !.channels[c] = s.channels[c]]

-----------------------------------------------------------------------------
(* Global pages.                                                            *)

\* changeMasterTempo
TurnTempo(s, delta) == [s EXCEPT !.tempo.bpm = Clamp(@ + delta, s.tempo.low, s.tempo.high)]

\* adjustMaster rows 1 and 2: a limit that moves past the tempo takes it along.
TurnLowest(s, delta) ==
  LET low == Clamp(s.tempo.low + delta, LowestBpm, s.tempo.high)
  IN  [s EXCEPT !.tempo.low = low, !.tempo.bpm = Clamp(@, low, s.tempo.high)]

TurnHighest(s, delta) ==
  LET high == Clamp(s.tempo.high + delta, s.tempo.low, HighestBpm)
  IN  [s EXCEPT !.tempo.high = high, !.tempo.bpm = Clamp(@, s.tempo.low, high)]

AdjustMaster(delta) ==
  /\ \/ \E s \in {TurnTempo(state, delta), TurnLowest(state, delta), TurnHighest(state, delta)} :
          UpdateMasterTempo(s)
     \/ UpdateConfiguration([state EXCEPT !.meter = Clamp(@ + delta, 0, MaxPlain)])
  /\ UNCHANGED clipboard

\* registerTapTempo, once an estimate stands.
TapTempo(bpm) ==
  /\ UpdateConfiguration([state EXCEPT !.tempo.bpm = bpm])
  /\ UNCHANGED clipboard

\* adjustSync
AdjustSync(delta) ==
  /\ UpdateConfiguration([state EXCEPT !.sync = Clamp(@ + delta, 0, MaxPlain)])
  /\ UNCHANGED clipboard

\* The notches of adjustInputAssignments: the role of the other input, Off apart, is not
\* counted among the places a turn passes, and the last place holds the turn.
Place(role, other) == IF other # 0 /\ role > other THEN role - 1 ELSE role
RoleAt(place, other) == IF other # 0 /\ place >= other THEN place + 1 ELSE place
Turned(role, other, delta) ==
  LET last == IF other = 0 THEN LastRole ELSE LastRole - 1
  IN  RoleAt(Clamp(Place(role, other) + delta, 0, last), other)

\* adjustInputAssignments; the engine has no part in the roles.
AdjustInput(i, delta) ==
  /\ state' = [state EXCEPT !.inputs[i] = Turned(@, state.inputs[3 - i], delta)]
  /\ UNCHANGED <<engine, clipboard>>

\* adjustHardware
AdjustHardware(delta) ==
  /\ state' = [state EXCEPT !.device = Clamp(@ + delta, 0, 1)]
  /\ UNCHANGED <<engine, clipboard>>

\* adjustScreensaver rows 1 to 3: each time is clamped between its neighbours.
AdjustScreensaver(delta) ==
  LET d == state.display
  IN  /\ \E t \in {[d EXCEPT !.saver = Clamp(@ + delta, 1, d.dim)],
                   [d EXCEPT !.dim = Clamp(@ + delta, d.saver, d.off)],
                   [d EXCEPT !.off = Clamp(@ + delta, d.dim, MaxMinutes)]} :
           state' = [state EXCEPT !.display = t]
      /\ UNCHANGED <<engine, clipboard>>

\* adjustUnifiedTiming, adjustUnifiedOutput
AdjustUnified(delta) ==
  /\ state.topology = "UnifiedClock"
  /\ UpdateConfiguration([state EXCEPT !.unified.plain = Clamp(@ + delta, 0, MaxPlain)])
  /\ UNCHANGED clipboard

\* adjustDividerBank
AdjustDividerBank(delta) ==
  /\ state.topology = "DividerBank"
  /\ UpdateConfiguration([state EXCEPT !.divider = Clamp(@ + delta, 0, MaxPlain)])
  /\ UNCHANGED clipboard

-----------------------------------------------------------------------------
(* Grooves, of ONE CLOCK or of a channel.  The groove page is not offered   *)
(* to the divider bank.                                                     *)

\* Stores a groove where activeGrooveSettings points, and tells the engine.
PlayGroove(c, groove) ==
  IF state.topology = "UnifiedClock"
  THEN UpdateConfiguration([state EXCEPT !.unified.groove = groove])
  ELSE UpdateChannel([state EXCEPT !.channels[c].groove = groove], c)

\* adjustGroove row 0: a rotation that the shorter pattern lacks starts over.
TurnPreset(g, delta) ==
  LET preset == Clamp(g.preset + delta, 0, Custom)
  IN  [preset |-> preset, rotation |-> IF g.rotation >= Length(preset) THEN 0 ELSE g.rotation]

TurnRotation(g, delta) == [g EXCEPT !.rotation = Clamp(@ + delta, 0, Length(g.preset) - 1)]

AdjustGroove(c, delta) ==
  LET g == IF state.topology = "UnifiedClock" THEN state.unified.groove
           ELSE state.channels[c].groove
  IN  /\ state.topology # "DividerBank"
      /\ \E turned \in {TurnPreset(g, delta), TurnRotation(g, delta)} : PlayGroove(c, turned)
      /\ UNCHANGED clipboard

\* activateSelectedGroove
ActivateGroove(c) ==
  /\ state.topology # "DividerBank"
  /\ PlayGroove(c, [preset |-> Custom, rotation |-> 0])
  /\ UNCHANGED clipboard

\* removeSelectedGroove, of the one custom groove.
Detached(g) == IF g.preset = Custom THEN NoGroove ELSE g

RemoveGroove ==
  LET s == [state EXCEPT !.unified.groove = Detached(@),
                         !.channels = [c \in Channels |->
                                         [state.channels[c] EXCEPT !.groove = Detached(@)]]]
  IN  s # state /\ UpdateConfiguration(s) /\ UNCHANGED clipboard

-----------------------------------------------------------------------------
(* A channel's own pages, offered to Independent outputs only.              *)

\* adjustRate, adjustCommonChannel, adjustClock
TurnPlain(ch, delta) == [ch EXCEPT !.plain = Clamp(@ + delta, 0, MaxPlain)]

\* Mutant: a shorter pattern keeps its rotation.
TurnStepsKeepingRotation(ch, delta) ==
  LET steps == Clamp(ch.euclid.steps + delta, 1, MaxSteps)
  IN  [ch EXCEPT !.euclid = [@ EXCEPT !.steps = steps, !.hits = Least(@, steps)]]

\* adjustEuclid row 0: fewer steps bound the hits and may start the rotation over.
TurnSteps(ch, delta) ==
  LET steps == Clamp(ch.euclid.steps + delta, 1, MaxSteps)
  IN  [ch EXCEPT !.euclid = [steps |-> steps, hits |-> Least(@.hits, steps),
                             rotation |-> IF @.rotation >= steps THEN 0 ELSE @.rotation]]

TurnHits(ch, delta) == [ch EXCEPT !.euclid.hits = Clamp(@ + delta, 0, ch.euclid.steps)]
TurnEuclidRotation(ch, delta) ==
  [ch EXCEPT !.euclid.rotation = Clamp(@ + delta, 0, ch.euclid.steps - 1)]

\* adjustSequencer
TurnLength(ch, delta) ==
  LET length == Clamp(ch.sequencer.length + delta, 1, MaxSteps)
  IN  [ch EXCEPT !.sequencer.length = length,
                 !.sequencer.rotation = IF @ >= length THEN 0 ELSE @]

TurnSequencerRotation(ch, delta) ==
  [ch EXCEPT !.sequencer.rotation = Clamp(@ + delta, 0, ch.sequencer.length - 1)]

AdjustChannel(c, delta) ==
  LET ch == state.channels[c]
  IN  /\ state.topology = "Independent"
      /\ \E t \in {TurnPlain(ch, delta), TurnSteps(ch, delta), TurnHits(ch, delta),
                   TurnEuclidRotation(ch, delta), TurnLength(ch, delta),
                   TurnSequencerRotation(ch, delta)} :
           UpdateChannel([state EXCEPT !.channels[c] = t], c)
      /\ UNCHANGED clipboard

\* toggleSequencerStep
ToggleStep(c, step) ==
  LET p == state.channels[c].sequencer.pattern
  IN  /\ state.topology = "Independent" /\ step \in Within(state.channels[c].sequencer.length)
      /\ UpdateChannel([state EXCEPT !.channels[c].sequencer.pattern =
                          IF step \in p THEN p \ {step} ELSE p \cup {step}], c)
      /\ UNCHANGED clipboard

\* executeSequencerCommand: invert, clear, alternate, paste.
SequencerCommand(c) ==
  LET q == state.channels[c].sequencer
      in == Within(q.length)
  IN  /\ state.topology = "Independent"
      /\ \E p \in {in \ q.pattern, {}, {i \in in : i % 2 = 0}}
                    \cup (IF clipboard = None THEN {} ELSE {clipboard \cap in}) :
           UpdateChannel([state EXCEPT !.channels[c].sequencer.pattern = p], c)
      /\ UNCHANGED clipboard

CopyPattern(c) ==
  /\ state.topology = "Independent" /\ clipboard' = state.channels[c].sequencer.pattern
  /\ UNCHANGED <<state, engine>>

-----------------------------------------------------------------------------
(* The configuration as a whole.                                            *)

\* applyModeFunction and applyConfirmedMode
SetMode(c) ==
  /\ \/ \E t \in {"UnifiedClock", "DividerBank"} \ {state.topology} :
          UpdateConfiguration([state EXCEPT !.topology = t])
     \/ \E m \in {"Clock", "Euclid", "Sequencer", "Off"} :
          UpdateConfiguration([state EXCEPT !.topology = "Independent", !.channels[c].mode = m])
  /\ UNCHANGED clipboard

\* TemplateService::apply: everything but transport and device preferences.
ApplyTemplate ==
  /\ \E topology \in {"UnifiedClock", "Independent"} :
       UpdateConfiguration([Factory EXCEPT !.topology = topology,
                              !.transport = state.transport, !.device = state.device])
  /\ UNCHANGED clipboard

Edit ==
  \/ \E delta \in Deltas :
       \/ AdjustMaster(delta) \/ AdjustSync(delta) \/ AdjustHardware(delta)
       \/ AdjustScreensaver(delta) \/ AdjustUnified(delta) \/ AdjustDividerBank(delta)
       \/ \E i \in {1, 2} : AdjustInput(i, delta)
       \/ \E c \in Channels : AdjustGroove(c, delta) \/ AdjustChannel(c, delta)
  \/ \E bpm \in state.tempo.low..state.tempo.high : TapTempo(bpm)
  \/ \E c \in Channels :
       \/ ActivateGroove(c) \/ SequencerCommand(c) \/ CopyPattern(c) \/ SetMode(c)
       \/ \E step \in Within(MaxSteps) : ToggleStep(c, step)
  \/ RemoveGroove
  \/ ApplyTemplate

Init == state = Factory /\ engine = Copy(Factory) /\ clipboard = None /\ edits = 0
Next == edits < MaxEdits /\ edits' = edits + 1 /\ Edit
Spec == Init /\ [][Next]_vars

-----------------------------------------------------------------------------
\* Whatever is edited in whatever order, the configuration stays one that
\* isPersistentStateValid accepts: a CURRENT record that an edit made invalid
\* would be written and then refused at the next boot, factory settings with it.
EditsStayLoadable == Valid(state)

\* The engine plays the configuration on the screen: every edit reaches its copy,
\* resolved for the operating mode, whichever of its three update calls carried it.
EngineHearsEveryEdit == engine = Copy(state)
=============================================================================
