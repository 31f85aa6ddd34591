------------------------------ MODULE UserInterface ------------------------------
(***************************************************************************)
(* The screens of the clock and the gestures that move between them        *)
(* (ui/ui_controller*.cpp, ui/menu_model*.cpp, ui/mode_functions.cpp).     *)
(*                                                                         *)
(* One action is one event of UiController::processControls: a detent of   *)
(* the encoder or an edge of a button.  Encoder, TAP and PLAY may be held  *)
(* while other events arrive.  What a setting is changed to, the transport *)
(* requests, and scrolling and drawing are left out.                       *)
(***************************************************************************)
EXTENDS Integers, FiniteSets

CONSTANTS
  ChannelCount,    \* kChannelCount
  PresetCount,     \* kUserPresetSlotCount
  GrooveCount,     \* kCustomGrooveSlotCount
  NameLength,      \* kPresetNameLength, kNameLength
  Deltas,          \* detents one control sample may report
  Configurations,  \* pairs of a topology and a mode, at boot and in templates and presets
  MaxChanges       \* bound: changes of the mode, the topology, the channel and the slots in use

\* BACK leaves the carousel's cursor, 0..5, in the overview of the channels.
UserInterfaceAssumption ==
  /\ {PresetCount, GrooveCount, NameLength} \subseteq Nat \ {0}
  /\ ChannelCount \in Nat /\ ChannelCount >= 6
  /\ Deltas \subseteq Int \ {0} /\ MaxChanges \in Nat
  /\ Configurations \subseteq {"Independent", "UnifiedClock", "DividerBank"}
                              \X {"Off", "Clock", "Euclid", "Sequencer"}

VARIABLES
  ui,           \* navigation_, the groove workspace and what it drives
  topology,     \* state_.operatingMode
  mode,         \* common.mode of each channel
  changes,      \* bounds the changes of the two
  presets,      \* slots that hold a preset
  grooves,      \* slots that hold a custom groove
  leaderboard,  \* hasPersistentRecord of the board in Flash
  buttons,      \* what is held, and the gestures in progress
  unsaved,      \* the draft was edited since it was saved, loaded or given up
  agreed        \* the preset slot whose overwriting was agreed to, or -1

vars == <<ui, topology, mode, changes, presets, grooves, leaderboard, buttons, unsaved, agreed>>
world == <<topology, mode, changes, presets, grooves, leaderboard>>

Channels == 0..ChannelCount - 1
Modes == {"Off", "Clock", "Euclid", "Sequencer"}
Topologies == {"Independent", "UnifiedClock", "DividerBank"}

\* kModeFunctions: the carousel from left to right.
Carousel == [i \in 0..5 |->
  CASE i = 0 -> "UnifiedClock" [] i = 1 -> "DividerBank" [] i = 2 -> "Clock"
    [] i = 3 -> "Euclid" [] i = 4 -> "Sequencer" [] i = 5 -> "Off"]

InitialUi ==
  [screen |-> "Performance", page |-> "Root", cursor |-> 0, editing |-> FALSE,
   exit |-> "Performance", modeReturn |-> "Settings", pending |-> "Clock", channel |-> 0,
   presetAction |-> "Load", presetSlot |-> 0, grooveAction |-> "LoadEditor", grooveSlot |-> 0,
   char |-> 0, workspace |-> "GrooveEditor", dirty |-> FALSE, loading |-> FALSE,
   recording |-> FALSE, preview |-> {}]

Least(a, b) == IF a < b THEN a ELSE b
Clamp(x, low, high) == IF x < low THEN low ELSE IF x > high THEN high ELSE x

\* modeFunctionIndexForState
ModeIndex(c) ==
  CHOOSE i \in 0..5 : Carousel[i] = IF topology = "Independent" THEN mode[c] ELSE topology

\* The groove editor or recorder is open, here or behind a menu or a dialog.
InWorkspace(u) ==
  \/ u.screen \in {"GrooveEditor", "GrooveRecorder", "GrooveDiscardConfirm"}
  \/ u.screen = "Settings" /\ u.page \in {"GrooveEditorMenu", "GrooveRecordMenu"}
  \/ /\ u.screen \in {"GrooveSlots", "GrooveNameEntry", "GrooveOverwriteConfirm"}
     /\ u.grooveAction \in {"Save", "LoadEditor"}

\* Fields that a screen does not use keep their last value in the code and are
\* set before they are next read; here they return to their first value.
Settled(u) ==
  LET live(f, screens) == IF u.screen \in screens THEN u[f] ELSE InitialUi[f]
      carousel == {"ModeSelect", "ModeChangeConfirm"}
      presetScreens == {"PresetSlots", "OverwriteConfirm", "NameEntry"}
      slotScreens == {"GrooveSlots", "GrooveNameEntry", "GrooveOverwriteConfirm", "GrooveDeleteConfirm"}
      grooveScreens == {"GrooveEditor", "GrooveRecorder", "GrooveDiscardConfirm"}
  IN [u EXCEPT
        !.page = live("page", carousel \cup {"Settings", "InformationPopover"}),
        !.exit = IF u.screen \in {"Performance", "ChannelQuickSelect", "SequencerEditor", "SequencerStepEditor"}
                                   \cup grooveScreens THEN "Performance" ELSE @,
        !.modeReturn = live("modeReturn", carousel),
        !.pending = live("pending", {"ModeChangeConfirm"}),
        !.presetAction = live("presetAction", presetScreens),
        !.grooveAction = live("grooveAction", slotScreens),
        !.grooveSlot = live("grooveSlot", slotScreens \ {"GrooveSlots"}),
        !.char = live("char", {"NameEntry", "GrooveNameEntry"}),
        !.workspace = IF InWorkspace(u) THEN @ ELSE InitialUi.workspace,
        !.loading = live("loading", {"GrooveDiscardConfirm"})]

-----------------------------------------------------------------------------
(* Pages *)

\* channelMenuAction: what a row of the channel page opens.
ChannelRow(m, row) ==
  IF m = "Off" \/ row \notin 1..3 THEN "Mode"
  ELSE IF row = 3 THEN "ChannelOutput"
  ELSE IF m = "Clock" THEN IF row = 1 THEN "ChannelTiming" ELSE "Clock"
  ELSE IF row = 1 THEN m ELSE "ChannelTiming"

\* channelMenuIndexForAction
ChannelRowOf(m, action) ==
  IF m = "Off" \/ \A row \in 1..3 : ChannelRow(m, row) # action THEN 0
  ELSE CHOOSE row \in 1..3 : ChannelRow(m, row) = action

\* settingsPageItemCount
Items(page, c) ==
  CASE page \in {"DiagnosticsInputs", "DiagnosticsOutputs"} -> 0
    [] page = "Updates" -> 1
    [] page \in {"Hardware", "Diagnostics", "Support", "Clock", "UnifiedOutput"} -> 2
    [] page \in {"InputAssignments", "Euclid", "UnifiedClock", "DividerBank"} -> 3
    [] page \in {"Preferences", "Screensaver", "GrooveEditorMenu"} -> 4
    [] page \in {"General", "ChannelTiming", "ChannelOutput", "SequencerPattern"} -> 5
    [] page \in {"Master", "Info", "Sequencer", "UnifiedTiming"} -> 6
    [] page \in {"Licenses", "GrooveRecordMenu"} -> 7
    [] page \in {"Sync", "Groove"} -> 8
    [] page = "Root" -> IF leaderboard THEN 7 ELSE 6
    [] page = "Channel" -> IF mode[c] = "Off" THEN 1 ELSE 4

\* openSettingsPage
Open(u, page, row) ==
  LET rows == Items(page, u.channel)
  IN  [u EXCEPT !.screen = "Settings", !.page = page, !.editing = FALSE,
                !.cursor = IF rows = 0 THEN 0 ELSE Least(row, rows - 1)]

\* The topology's own page: from the root, or with a long press.
OwnPage == IF topology = "Independent" THEN "Channel" ELSE topology

OpenModeSelect(u, back) ==
  [u EXCEPT !.screen = "ModeSelect", !.modeReturn = back, !.cursor = ModeIndex(u.channel), !.editing = FALSE]

OpenGrooveSlots(u, action) ==
  [u EXCEPT !.screen = "GrooveSlots", !.grooveAction = action, !.cursor = 0]

OpenPresetSlots(u, action) ==
  [u EXCEPT !.screen = "PresetSlots", !.presetAction = action, !.cursor = u.presetSlot, !.editing = FALSE]

Ask(u, dialog) == [u EXCEPT !.screen = dialog, !.cursor = 0]

\* updateGroovePreview, clearGroovePreview: the channels they reach.
Previewed(u) == IF topology = "UnifiedClock" THEN Channels ELSE {u.channel}

\* openGrooveEditor, openGrooveRecorder
OpenWorkspace(u, w) ==
  [u EXCEPT !.screen = w, !.workspace = w, !.editing = FALSE, !.dirty = FALSE, !.loading = FALSE,
            !.recording = FALSE, !.preview = u.preview \cup Previewed(u)]

OpenGrooveEditor(u) == OpenWorkspace(u, "GrooveEditor")
OpenGrooveRecorder(u) == OpenWorkspace(u, "GrooveRecorder")

\* leaveGrooveEditor and activateSavedCustomGroove, but for the preview.
ToGroovePage(u) ==
  Open([u EXCEPT !.recording = FALSE, !.dirty = FALSE, !.exit = "Performance"],
       "Groove", IF u.workspace = "GrooveRecorder" THEN 5 ELSE 4)

LeaveWorkspace(u) == [ToGroovePage(u) EXCEPT !.preview = @ \ Previewed(u)]

\* navigateAfterModeSelection
AfterMode(u, f) ==
  CASE f \in {"Off", "Clock"} -> [u EXCEPT !.screen = "Performance", !.cursor = u.channel, !.editing = FALSE]
    [] f = "Euclid" -> Open([u EXCEPT !.exit = "Performance"], "Euclid", 0)
    [] f = "Sequencer" -> [u EXCEPT !.screen = "SequencerEditor", !.editing = FALSE]
    [] OTHER -> Open([u EXCEPT !.exit = "Performance"], f, 1)

-----------------------------------------------------------------------------
(* BACK *)

Parent(u) ==
  CASE u.page \in {"General", "Preferences", "Info", "Support"} -> "Root"
    [] u.page \in {"Master", "InputAssignments", "Hardware", "Screensaver", "Diagnostics"} -> "General"
    [] u.page = "Sync" -> "InputAssignments"
    [] u.page \in {"DiagnosticsInputs", "DiagnosticsOutputs"} -> "Diagnostics"
    [] u.page \in {"Licenses", "Updates"} -> "Info"
    [] u.page \in {"ChannelTiming", "ChannelOutput", "Clock", "Euclid", "Sequencer"} -> "Channel"
    [] u.page \in {"UnifiedTiming", "UnifiedOutput"} -> "UnifiedClock"
    [] u.page = "Groove" -> IF topology = "UnifiedClock" THEN "UnifiedTiming" ELSE "ChannelTiming"
    [] OTHER -> "Root"

\* The row of the parent that BACK lands on.
ParentRow(u) ==
  CASE u.page = "Groove" -> 4
    [] u.page \in {"Sync", "Screensaver"} -> 2
    [] u.page \in {"InputAssignments", "UnifiedTiming"} -> 1
    [] u.page = "Diagnostics" -> 3
    [] u.page = "Hardware" -> 4
    [] u.page = "UnifiedOutput" -> 2
    [] u.page \in {"ChannelTiming", "ChannelOutput", "Clock", "Euclid", "Sequencer"} ->
         ChannelRowOf(mode[u.channel], u.page)
    [] OTHER -> 0

ToExit(u) ==
  [u EXCEPT !.screen = u.exit, !.editing = FALSE,
            !.cursor = IF u.exit = "ChannelQuickSelect" THEN u.channel ELSE 0]

LeftPage(u) ==
  IF u.page = "Root" \/ (u.page \in {"Channel", "UnifiedClock", "DividerBank"} /\ u.exit # "Settings")
  THEN ToExit(u)
  ELSE IF u.page = "SequencerPattern" THEN [u EXCEPT !.screen = "SequencerEditor", !.cursor = 0, !.editing = FALSE]
  ELSE IF u.page = "GrooveEditorMenu" THEN [u EXCEPT !.screen = "GrooveEditor", !.cursor = 0, !.editing = FALSE]
  ELSE IF u.page = "GrooveRecordMenu" THEN [u EXCEPT !.screen = "GrooveRecorder", !.cursor = 0, !.editing = FALSE]
  ELSE [u EXCEPT !.page = Parent(u), !.cursor = ParentRow(u), !.editing = FALSE]

BackFromSettings(u) ==
  [LeftPage(u) EXCEPT
     !.exit = IF u.page \in {"Channel", "UnifiedClock", "DividerBank"} /\ @ = "Settings" THEN "Performance" ELSE @]

BackFromWorkspace(u) ==
  LET stopped == [u EXCEPT !.workspace = u.screen, !.recording = FALSE]
  IN  IF u.dirty THEN Ask([stopped EXCEPT !.loading = FALSE], "GrooveDiscardConfirm") ELSE LeaveWorkspace(stopped)

BackFromGrooveSlots(u) ==
  CASE u.grooveAction = "Activate" -> Open(u, "Groove", 3)
    [] u.grooveAction = "Rename" -> Open(u, "Groove", 6)
    [] u.grooveAction = "Delete" -> Open(u, "Groove", 7)
    [] OTHER -> [u EXCEPT !.screen = u.workspace]

\* handleResetButton: the screen that one press of BACK leads to.
Back(u) ==
  CASE u.screen = "Performance" -> u
    [] u.screen = "Settings" -> BackFromSettings(u)
    [] u.screen = "SequencerEditor" -> Open([u EXCEPT !.exit = "Performance"], "Sequencer", 0)
    [] u.screen = "SequencerStepEditor" -> [u EXCEPT !.screen = "SequencerEditor", !.editing = FALSE]
    [] u.screen \in {"Templates", "PresetSlots"} -> Open(u, "Preferences", 0)
    [] u.screen \in {"GrooveEditor", "GrooveRecorder"} -> BackFromWorkspace(u)
    [] u.screen = "GrooveSlots" -> BackFromGrooveSlots(u)
    [] u.screen \in {"GrooveNameEntry", "GrooveOverwriteConfirm", "GrooveDeleteConfirm"} ->
         [u EXCEPT !.screen = "GrooveSlots", !.cursor = u.grooveSlot]
    [] u.screen = "GrooveDiscardConfirm" -> [u EXCEPT !.screen = u.workspace]
    [] u.screen \in {"NameEntry", "OverwriteConfirm"} -> [u EXCEPT !.screen = "PresetSlots"]
    [] u.screen = "ModeChangeConfirm" -> [u EXCEPT !.screen = "ModeSelect", !.cursor = ModeIndex(u.channel)]
    [] u.screen = "HighScoreClearConfirm" -> Open(u, "Root", IF leaderboard THEN 4 ELSE 0)
    [] u.screen = "FactoryResetConfirm" -> Open(u, "Info", 5)
    [] u.screen = "ModeSelect" -> [u EXCEPT !.screen = u.modeReturn]
    [] u.screen = "InformationPopover" -> [u EXCEPT !.screen = "Settings"]
    [] u.screen = "ChannelQuickSelect" -> [u EXCEPT !.screen = "Performance"]

-----------------------------------------------------------------------------
(* The encoder's button *)

\* A step that moves between screens only.
Go(u) ==
  /\ ui' = Settled(u)
  /\ agreed' = IF ui'.screen # "NameEntry" THEN -1
               ELSE IF ui.screen = "OverwriteConfirm" THEN ui.presetSlot ELSE agreed

Stay == UNCHANGED world /\ UNCHANGED unsaved

Counted(changed) == /\ changed => changes < MaxChanges
                    /\ changes' = IF changed THEN changes + 1 ELSE changes

\* applyModeFunction, a template or a preset.
Change(t, m) == /\ Counted(TRUE) /\ topology' = t /\ mode' = m
                /\ UNCHANGED <<presets, grooves, leaderboard, unsaved>>

\* What a template or a preset may hold: one mode for all channels.
Stored == {<<s[1], [c \in Channels |-> s[2]]>> : s \in Configurations}

\* commitSelectedMode
CommitMode(u) ==
  IF u.cursor = ModeIndex(u.channel) THEN AfterMode(u, Carousel[u.cursor])
  ELSE [Ask(u, "ModeChangeConfirm") EXCEPT !.pending = Carousel[u.cursor], !.editing = FALSE]

ApplyMode ==
  LET f == ui.pending
  IN  /\ Change(IF f \in Topologies THEN f ELSE "Independent",
                IF f \in Modes THEN [mode EXCEPT ![ui.channel] = f] ELSE mode)
      /\ Go(AfterMode(ui, f))

SelectChannel ==
  LET chosen == IF topology = "Independent" THEN ui.cursor ELSE ui.channel
  IN  /\ Go([ui EXCEPT !.screen = "Performance", !.channel = chosen, !.cursor = chosen, !.editing = FALSE])
      /\ Counted(chosen # ui.channel)
      /\ UNCHANGED <<topology, mode, presets, grooves, leaderboard, unsaved>>

ChoosePreset(u) ==
  LET chosen == [u EXCEPT !.presetSlot = u.cursor]
  IN  IF chosen.presetSlot \in presets THEN Ask(chosen, "OverwriteConfirm")
      ELSE [chosen EXCEPT !.screen = "NameEntry", !.char = 0]

\* saveNamedPreset
SavePreset ==
  /\ Go(OpenPresetSlots(ui, "Save"))
  /\ presets' = presets \cup {ui.presetSlot} /\ Counted(presets' # presets)
  /\ UNCHANGED <<topology, mode, grooves, leaderboard, unsaved>>

\* loadSelectedPreset; a slot without a record leaves everything as it is.
LoadPreset ==
  \/ Go([ui EXCEPT !.presetSlot = ui.cursor]) /\ Stay
  \/ \E s \in Stored : /\ ui.cursor \in presets /\ Change(s[1], s[2])
                       /\ Go([ui EXCEPT !.screen = "Performance", !.presetSlot = ui.cursor])

ApplyTemplate == \E s \in Stored : Change(s[1], s[2]) /\ Go([ui EXCEPT !.screen = "Performance"])

ChooseGroove(u) ==
  LET chosen == [u EXCEPT !.grooveSlot = u.cursor]
      named == [chosen EXCEPT !.screen = "GrooveNameEntry", !.char = 0]
      exists == u.cursor \in grooves
  IN  CASE u.grooveAction = "Rename" -> IF exists THEN named ELSE chosen
        [] u.grooveAction = "Delete" -> IF exists THEN Ask(chosen, "GrooveDeleteConfirm") ELSE chosen
        [] u.grooveAction = "Save" -> IF exists THEN Ask(chosen, "GrooveOverwriteConfirm") ELSE named
        [] u.grooveAction = "Activate" -> IF exists THEN Open(chosen, "Groove", 3) ELSE chosen
        [] OTHER -> chosen

\* loadSelectedGroove: the draft is replaced.
LoadGroove ==
  IF ui.cursor \in grooves
  THEN /\ Go([ui EXCEPT !.screen = ui.workspace, !.dirty = FALSE, !.recording = FALSE,
                        !.preview = @ \cup Previewed(ui)])
       /\ unsaved' = FALSE /\ UNCHANGED world
  ELSE UNCHANGED <<ui, agreed>> /\ Stay

\* saveCustomGroove, with the outcome of the commit.
SaveGroove ==
  \/ /\ Go(LeaveWorkspace(ui)) /\ unsaved' = FALSE
     /\ grooves' = grooves \cup {ui.grooveSlot} /\ Counted(grooves' # grooves)
     /\ UNCHANGED <<topology, mode, presets, leaderboard>>
  \/ Go([ui EXCEPT !.screen = ui.workspace]) /\ Stay

\* renameSelectedGroove: a failed commit keeps the name on the display.
RenameGroove ==
  \/ Go([ui EXCEPT !.screen = "GrooveSlots", !.cursor = ui.grooveSlot]) /\ Stay
  \/ UNCHANGED <<ui, agreed>> /\ Stay

\* removeSelectedGroove
RemoveGroove ==
  /\ Go([ui EXCEPT !.screen = "GrooveSlots", !.cursor = ui.grooveSlot])
  /\ grooves' \in {grooves, grooves \ {ui.grooveSlot}} /\ Counted(grooves' # grooves)
  /\ UNCHANGED <<topology, mode, presets, leaderboard, unsaved>>

\* confirmHighScoreClear: a cleared board still has its record.
ClearHighScores == Go(Open(ui, "Root", 4)) /\ Stay

\* confirmFactoryReset, with the outcome of the commit.
FactoryReset ==
  \/ /\ Go([ui EXCEPT !.screen = "Performance", !.channel = 0, !.cursor = 0, !.editing = FALSE])
     /\ topology' = "UnifiedClock" /\ mode' = [c \in Channels |-> "Clock"]
     /\ presets' = {} /\ grooves' = {} /\ leaderboard' = FALSE
     /\ UNCHANGED <<changes, unsaved>>
  \/ Go(Open(ui, "Info", 5)) /\ Stay

\* YES in DISCARD CHANGES?
Discard ==
  /\ Go(IF ui.loading THEN OpenGrooveSlots([ui EXCEPT !.dirty = FALSE, !.loading = FALSE], "LoadEditor")
        ELSE LeaveWorkspace(ui))
  /\ unsaved' = FALSE /\ UNCHANGED world

\* The dialogs' NO.
Declined(u) ==
  CASE u.screen = "ModeChangeConfirm" -> [u EXCEPT !.screen = "ModeSelect", !.cursor = ModeIndex(u.channel)]
    [] u.screen = "OverwriteConfirm" -> [u EXCEPT !.screen = "PresetSlots", !.cursor = u.presetSlot]
    [] u.screen = "HighScoreClearConfirm" -> Open(u, "Root", IF leaderboard THEN 4 ELSE 0)
    [] u.screen = "FactoryResetConfirm" -> Open(u, "Info", 5)
    [] u.screen = "GrooveDiscardConfirm" -> [u EXCEPT !.screen = u.workspace, !.loading = FALSE]
    [] OTHER -> [u EXCEPT !.screen = "GrooveSlots", !.cursor = u.grooveSlot]

Dialogs == {"ModeChangeConfirm", "OverwriteConfirm", "HighScoreClearConfirm", "FactoryResetConfirm",
            "GrooveOverwriteConfirm", "GrooveDeleteConfirm", "GrooveDiscardConfirm"}

\* Pages whose rows are values, and the rows of the other pages that are.
ValueRow(u) ==
  \/ u.page \in {"Hardware", "Master", "Sync", "Screensaver", "ChannelOutput", "Clock", "Euclid", "UnifiedOutput"}
  \/ u.page = "InputAssignments" /\ u.cursor # 2
  \/ u.page \in {"ChannelTiming", "UnifiedTiming"} /\ u.cursor # 4
  \/ u.page \in {"Sequencer", "DividerBank"} /\ u.cursor # 0
  \/ u.page = "Groove" /\ u.cursor \notin 3..7
  \/ u.page = "GrooveEditorMenu" /\ u.cursor \notin {0, 1}
  \/ u.page = "GrooveRecordMenu" /\ u.cursor <= 3

\* The page that a row of a page opens; "" for none.
Child(u) ==
  CASE u.page = "Root" /\ u.cursor \in {0, 2, 3, 4} ->
         (CASE u.cursor = 0 -> "General" [] u.cursor = 2 -> "Preferences"
            [] u.cursor = 3 -> "Support" [] OTHER -> "Info")
    [] u.page = "Root" /\ u.cursor = 1 -> OwnPage
    [] u.page = "General" -> (CASE u.cursor = 0 -> "Master" [] u.cursor = 1 -> "InputAssignments"
                                [] u.cursor = 2 -> "Screensaver" [] u.cursor = 3 -> "Diagnostics"
                                [] OTHER -> "Hardware")
    [] u.page = "InputAssignments" /\ u.cursor = 2 -> "Sync"
    [] u.page = "Diagnostics" -> IF u.cursor = 0 THEN "DiagnosticsInputs" ELSE "DiagnosticsOutputs"
    [] u.page = "Info" /\ u.cursor \in {3, 4} -> IF u.cursor = 3 THEN "Licenses" ELSE "Updates"
    [] u.page = "Channel" -> LET p == ChannelRow(mode[u.channel], u.cursor) IN IF p = "Mode" THEN "" ELSE p
    [] u.page = "UnifiedClock" /\ u.cursor # 0 -> IF u.cursor = 1 THEN "UnifiedTiming" ELSE "UnifiedOutput"
    [] u.page \in {"ChannelTiming", "UnifiedTiming"} /\ u.cursor = 4 -> "Groove"
    [] OTHER -> ""

\* Mutant: LOAD replaces the draft without a question.
ActivateEditorMenuBoldly(u) ==
  IF u.cursor = 0 THEN OpenGrooveSlots(u, "Save") ELSE OpenGrooveSlots(u, "LoadEditor")

\* activateGrooveEditorMenuSetting: SAVE and LOAD.
ActivateEditorMenu(u) ==
  IF u.cursor = 0 THEN OpenGrooveSlots(u, "Save")
  ELSE IF u.dirty THEN Ask([u EXCEPT !.loading = TRUE], "GrooveDiscardConfirm")
  ELSE OpenGrooveSlots(u, "LoadEditor")

\* activateGrooveRecordMenuSetting: SAVE, EDITOR and CLEAR.
ActivateRecordMenu(u) ==
  CASE u.cursor = 4 -> OpenGrooveSlots(u, "Save")
    [] u.cursor = 5 -> [u EXCEPT !.screen = "GrooveEditor", !.workspace = "GrooveEditor",
                                 !.recording = FALSE, !.cursor = 0, !.editing = FALSE]
    [] OTHER -> [u EXCEPT !.screen = "GrooveRecorder", !.dirty = TRUE, !.editing = FALSE,
                          !.preview = @ \cup Previewed(u)]

\* The rows of settings pages that neither hold a value nor open a page.
RowCommand(u) ==
  CASE u.page = "Root" /\ u.cursor = 5 /\ leaderboard ->
         [Ask(u, "HighScoreClearConfirm") EXCEPT !.editing = FALSE]
    [] u.page = "Info" /\ u.cursor = 5 -> [Ask(u, "FactoryResetConfirm") EXCEPT !.editing = FALSE]
    [] u.page = "Preferences" /\ u.cursor \in {1, 2} -> OpenPresetSlots(u, IF u.cursor = 1 THEN "Load" ELSE "Save")
    [] u.page = "Preferences" /\ u.cursor = 3 -> Ask(u, "Templates")
    [] u.page \in {"Channel", "UnifiedClock", "DividerBank"} -> OpenModeSelect(u, "Settings")
    [] u.page = "Sequencer" -> [u EXCEPT !.screen = "SequencerEditor", !.editing = FALSE]
    [] u.page = "Groove" /\ u.cursor \in {3, 6, 7} ->
         OpenGrooveSlots(u, CASE u.cursor = 3 -> "Activate" [] u.cursor = 6 -> "Rename" [] OTHER -> "Delete")
    [] u.page = "Groove" /\ u.cursor \notin {3, 6, 7} ->
         IF u.cursor = 4 THEN OpenGrooveEditor(u) ELSE OpenGrooveRecorder(u)
    [] u.page = "GrooveEditorMenu" -> ActivateEditorMenu(u)
    [] u.page = "GrooveRecordMenu" -> ActivateRecordMenu(u)
    [] OTHER -> u

\* activateCurrentSetting
ActivateRow ==
  \/ /\ ValueRow(ui) /\ Go([ui EXCEPT !.editing = ~@]) /\ Stay
  \/ /\ Child(ui) # "" /\ Stay
     /\ Go(Open([ui EXCEPT !.exit = IF ui.page = "Root" /\ ui.cursor = 1 THEN "Settings" ELSE @], Child(ui), 0))
  \/ /\ ~ValueRow(ui) /\ Child(ui) = "" /\ Go(RowCommand(ui))
     /\ unsaved' = (unsaved \/ (ui.page = "GrooveRecordMenu" /\ ui.cursor = 6))
     /\ UNCHANGED world
  \/ \* a value too long for its row is shown in a window of its own
     /\ (ui.page \in {"Support", "Licenses"}) \/ (ui.page = "Info" /\ ui.cursor <= 2)
     /\ Go([ui EXCEPT !.screen = "InformationPopover", !.editing = FALSE]) /\ Stay

Agreed == ui.cursor # 0

\* handleShortEncoderPress
ShortPress ==
  \/ /\ ui.screen = "Performance" /\ Stay
     /\ Go([ui EXCEPT !.screen = "ChannelQuickSelect", !.cursor = ui.channel, !.editing = FALSE])
  \/ ui.screen = "ChannelQuickSelect" /\ SelectChannel
  \/ ui.screen = "ModeSelect" /\ Go(CommitMode(ui)) /\ Stay
  \/ ui.screen = "Settings" /\ ActivateRow
  \/ ui.screen = "InformationPopover" /\ Go([ui EXCEPT !.screen = "Settings"]) /\ Stay
  \/ ui.screen = "Templates" /\ ApplyTemplate
  \/ ui.screen = "PresetSlots" /\ ui.presetAction = "Load" /\ LoadPreset
  \/ ui.screen = "PresetSlots" /\ ui.presetAction = "Save" /\ Go(ChoosePreset(ui)) /\ Stay
  \/ ui.screen = "NameEntry" /\ IF ui.char < NameLength - 1 THEN Go([ui EXCEPT !.char = @ + 1]) /\ Stay
                                ELSE SavePreset
  \/ /\ ui.screen = "GrooveSlots"
     /\ IF ui.grooveAction = "LoadEditor" THEN LoadGroove ELSE Go(ChooseGroove(ui)) /\ Stay
  \/ /\ ui.screen = "GrooveNameEntry"
     /\ IF ui.char < NameLength - 1 THEN Go([ui EXCEPT !.char = @ + 1]) /\ Stay
        ELSE IF ui.grooveAction = "Rename" THEN RenameGroove ELSE SaveGroove
  \/ ui.screen \in Dialogs /\ ~Agreed /\ Go(Declined(ui)) /\ Stay
  \/ ui.screen = "ModeChangeConfirm" /\ Agreed /\ ApplyMode
  \/ /\ ui.screen = "OverwriteConfirm" /\ Agreed /\ Stay
     /\ Go([ui EXCEPT !.screen = "NameEntry", !.char = 0])
  \/ ui.screen = "HighScoreClearConfirm" /\ Agreed /\ ClearHighScores
  \/ ui.screen = "FactoryResetConfirm" /\ Agreed /\ FactoryReset
  \/ ui.screen = "GrooveOverwriteConfirm" /\ Agreed /\ SaveGroove
  \/ ui.screen = "GrooveDeleteConfirm" /\ Agreed /\ RemoveGroove
  \/ ui.screen = "GrooveDiscardConfirm" /\ Agreed /\ Discard
  \/ /\ ui.screen = "SequencerStepEditor" /\ Stay
     /\ \E e \in IF ui.cursor = 0 THEN {ui.editing} ELSE {~ui.editing} : Go([ui EXCEPT !.editing = e])
  \/ /\ ui.screen = "SequencerEditor" /\ Stay
     /\ IF buttons.tap THEN Go([ui EXCEPT !.screen = "SequencerStepEditor", !.cursor = 0, !.editing = FALSE])
        ELSE UNCHANGED <<ui, agreed>>
  \/ ui.screen \in {"GrooveEditor", "GrooveRecorder"} /\ UNCHANGED <<ui, agreed>> /\ Stay

LongScreens == {"Performance", "ChannelQuickSelect", "GrooveEditor", "GrooveRecorder",
                "SequencerEditor", "NameEntry", "GrooveNameEntry"}

\* The page that a long press opens from a working screen.
LongPressed(u) ==
  CASE u.screen = "GrooveEditor" -> Open([u EXCEPT !.exit = "GrooveEditor"], "GrooveEditorMenu", 0)
    [] u.screen = "GrooveRecorder" ->
         Open([u EXCEPT !.exit = "GrooveRecorder", !.recording = FALSE], "GrooveRecordMenu", 0)
    [] u.screen = "SequencerEditor" -> Open([u EXCEPT !.exit = "SequencerEditor"], "SequencerPattern", 0)
    [] OTHER -> Open([u EXCEPT !.exit = u.screen], OwnPage, 0)

\* handleLongEncoderPress
LongPress ==
  \/ ui.screen = "NameEntry" /\ SavePreset
  \/ ui.screen = "GrooveNameEntry" /\ IF ui.grooveAction = "Rename" THEN RenameGroove ELSE SaveGroove
  \/ /\ ui.screen \in {"GrooveEditor", "GrooveRecorder", "SequencerEditor", "Performance"}
     /\ Go(LongPressed(ui)) /\ Stay
  \/ /\ ui.screen = "ChannelQuickSelect"
     /\ LET chosen == IF topology = "Independent" THEN ui.cursor ELSE ui.channel
        IN  /\ Go(LongPressed([ui EXCEPT !.channel = chosen]))
            /\ Counted(chosen # ui.channel)
            /\ UNCHANGED <<topology, mode, presets, grooves, leaderboard, unsaved>>

-----------------------------------------------------------------------------
(* Events *)

NoButtons == [enc |-> "up", tap |-> FALSE, play |-> FALSE, chord |-> FALSE, tapTurn |-> FALSE,
              zoomed |-> FALSE, stepTap |-> FALSE]

Init ==
  /\ ui = InitialUi
  /\ \E s \in Stored : topology = s[1] /\ mode = s[2]
  /\ changes = 0 /\ presets \in SUBSET {0} /\ grooves \in SUBSET {0}
  /\ leaderboard = TRUE /\ buttons = NoButtons /\ unsaved = FALSE /\ agreed = -1

\* The length of the list that the encoder moves in, where there is one.
ListLength ==
  CASE ui.screen = "GrooveSlots" -> GrooveCount
    [] ui.screen = "PresetSlots" -> PresetCount
    [] ui.screen \in Dialogs -> 2
    [] ui.screen = "SequencerStepEditor" /\ ~ui.editing -> 5
    [] ui.screen = "Settings" /\ ~ui.editing -> Items(ui.page, ui.channel)
    [] OTHER -> 0

TurnList(d) ==
  /\ ListLength > 0 /\ ~buttons.chord
  /\ Go([ui EXCEPT !.cursor = Clamp(@ + d, 0, ListLength - 1)])
  /\ Stay /\ UNCHANGED buttons

\* The overview and the carousel wrap around.
TurnRing(d) ==
  /\ ~buttons.chord /\ Stay
  /\ \/ /\ ui.screen = "ChannelQuickSelect" /\ ~buttons.tap /\ topology = "Independent"
        /\ Go([ui EXCEPT !.cursor = (@ + d) % ChannelCount]) /\ UNCHANGED buttons
     \/ ui.screen = "ModeSelect" /\ Go([ui EXCEPT !.cursor = (@ + d) % 6]) /\ UNCHANGED buttons

\* TAP and turn in the overview opens the carousel for the highlighted channel.
OpenCarousel(d) ==
  /\ ui.screen = "ChannelQuickSelect" /\ buttons.tap /\ ~buttons.chord
  /\ LET chosen == IF topology = "Independent" THEN ui.cursor ELSE ui.channel
         open == OpenModeSelect([ui EXCEPT !.channel = chosen], "ChannelQuickSelect")
     IN  /\ Go([open EXCEPT !.cursor = (@ + d) % 6])
         /\ Counted(chosen # ui.channel)
  /\ buttons' = [buttons EXCEPT !.tapTurn = TRUE, !.enc = IF @ = "up" THEN @ ELSE "dead"]
  /\ UNCHANGED <<topology, mode, presets, grooves, leaderboard, unsaved>>

\* A marker is moved, or the length of the draft is edited in a menu.
TurnDraft ==
  /\ ~buttons.chord
  /\ \/ ui.screen = "GrooveEditor" /\ ~buttons.play
     \/ /\ ui.screen = "Settings" /\ ui.editing
        /\ <<ui.page, ui.cursor>> \in {<<"GrooveEditorMenu", 3>>, <<"GrooveRecordMenu", 2>>}
  /\ Go([ui EXCEPT !.dirty = TRUE, !.preview = @ \cup Previewed(ui)])
  /\ unsaved' = TRUE /\ UNCHANGED world /\ UNCHANGED buttons

\* PLAY and turn is a zoom: the release of PLAY then does nothing.
TurnZoom ==
  /\ ui.screen \in {"GrooveEditor", "GrooveRecorder"} /\ buttons.play /\ ~buttons.chord
  /\ buttons' = [buttons EXCEPT !.zoomed = TRUE]
  /\ UNCHANGED <<ui, agreed>> /\ Stay

EncoderPress ==
  /\ buttons.enc = "up"
  /\ IF ui.screen = "Performance" /\ buttons.tap
     THEN /\ Go(Open([ui EXCEPT !.exit = "Performance"], "Root", 0))
          /\ buttons' = [buttons EXCEPT !.enc = "dead", !.chord = TRUE]
     ELSE /\ buttons' = [buttons EXCEPT !.enc = IF buttons.chord \/ buttons.tapTurn THEN "dead" ELSE "down"]
          /\ UNCHANGED <<ui, agreed>>
  /\ Stay

\* The button has been down for kEncoderLongPressMs.
EncoderHold ==
  /\ buttons.enc = "down" /\ ui.screen \in LongScreens
  /\ buttons' = [buttons EXCEPT !.enc = "long"]
  /\ LongPress

EncoderRelease ==
  /\ buttons.enc # "up"
  /\ IF buttons.chord \/ buttons.tapTurn \/ buttons.enc = "long"
     THEN /\ buttons' = [buttons EXCEPT !.enc = "up", !.chord = @ /\ buttons.tap]
          /\ UNCHANGED <<ui, agreed>> /\ Stay
     ELSE /\ buttons' = [buttons EXCEPT !.enc = "up", !.stepTap = @ \/ (ui.screen = "SequencerEditor" /\ buttons.tap)]
          /\ ShortPress

TapPress ==
  /\ ~buttons.tap /\ ~buttons.play
  /\ buttons' = [buttons EXCEPT !.tap = TRUE]
  /\ UNCHANGED <<ui, agreed>> /\ Stay

\* captureGrooveTap
Capture(u) == [u EXCEPT !.dirty = TRUE, !.preview = @ \cup Previewed(u)]

TapRecorded ==
  /\ ui.screen = "GrooveRecorder" /\ ui.recording /\ ~buttons.tap /\ ~buttons.play
  /\ buttons' = [buttons EXCEPT !.tap = TRUE]
  /\ Go(Capture(ui)) /\ unsaved' = TRUE /\ UNCHANGED world

TapRelease ==
  /\ buttons.tap /\ Stay
  /\ LET up == [buttons EXCEPT !.tap = FALSE, !.chord = @ /\ buttons.enc # "up"]
     IN  \/ ui.screen = "GrooveRecorder" /\ buttons' = up /\ UNCHANGED <<ui, agreed>>
         \/ /\ ui.screen # "GrooveRecorder" /\ buttons.stepTap
            /\ buttons' = [up EXCEPT !.stepTap = FALSE] /\ UNCHANGED <<ui, agreed>>
         \/ /\ ui.screen = "ModeSelect" /\ buttons.tapTurn /\ ~buttons.stepTap
            /\ buttons' = [up EXCEPT !.tapTurn = FALSE] /\ Go(CommitMode(ui))
         \/ /\ ui.screen # "GrooveRecorder" /\ ~buttons.stepTap /\ ~(ui.screen = "ModeSelect" /\ buttons.tapTurn)
            /\ buttons' = up /\ UNCHANGED <<ui, agreed>>

\* Elsewhere PLAY acts when it is pressed, on the transport alone.
PlayPress ==
  /\ ~buttons.play /\ ~buttons.tap /\ ui.screen \in {"GrooveEditor", "GrooveRecorder"}
  /\ buttons' = [buttons EXCEPT !.play = TRUE]
  /\ UNCHANGED <<ui, agreed>> /\ Stay

\* In the workspaces PLAY acts when it is released: toggleGrooveRecording.
PlayRelease ==
  /\ buttons.play /\ Stay
  /\ LET here == ui.screen \in {"GrooveEditor", "GrooveRecorder"}
     IN  /\ buttons' = [buttons EXCEPT !.play = FALSE, !.zoomed = @ /\ ~here]
         /\ Go([ui EXCEPT !.recording = IF ui.screen = "GrooveRecorder" /\ ~buttons.zoomed THEN ~@ ELSE @])

ResetPress ==
  /\ Go(Back(ui)) /\ Stay
  /\ buttons' = [buttons EXCEPT !.tapTurn = @ /\ ui.screen # "ModeSelect"]

\* A ONE SHOT recording reaches the end of the pattern.
RecordingEnds ==
  /\ ui.recording /\ ui.screen = "GrooveRecorder"
  /\ Go([ui EXCEPT !.recording = FALSE]) /\ Stay /\ UNCHANGED buttons

Next ==
  \/ \E d \in Deltas : TurnList(d) \/ TurnRing(d) \/ OpenCarousel(d)
  \/ TurnDraft \/ TurnZoom
  \/ EncoderPress \/ EncoderHold \/ EncoderRelease
  \/ TapPress \/ TapRecorded \/ TapRelease \/ PlayPress \/ PlayRelease
  \/ ResetPress \/ RecordingEnds

Spec == Init /\ [][Next]_vars

-----------------------------------------------------------------------------
(* Properties *)

\* The engine plays the draft in place of the stored groove for exactly the
\* channels that are being edited and exactly while the editor or the recorder
\* is open, whichever menu, dialog, failed save or discard lies between.
PreviewIsOwned ==
  ui.preview = IF InWorkspace(ui) THEN Previewed(ui) ELSE {}

\* A recording never goes on behind another screen: no menu, BACK or dialog
\* leaves the recorder running ("must never hide a still-running recorder").
RecorderRunsOnlyOnItsScreen == ui.recording => ui.screen = "GrooveRecorder"

\* Marker edits, recorded taps, a new length and CLEAR are lost only after a
\* YES: as long as there are any, the workspace is open and no list from which
\* a LOAD would replace the draft is on the display.
UnsavedWorkIsAskedFor ==
  unsaved => InWorkspace(ui) /\ ~(ui.screen = "GrooveSlots" /\ ui.grooveAction = "LoadEditor")

\* A name is typed over a preset only after the YES given for that very slot,
\* and over a groove never: its overwriting keeps the name.
NothingOverwrittenUnasked ==
  /\ ui.screen = "NameEntry" /\ ui.presetSlot \in presets => agreed = ui.presetSlot
  /\ ui.screen = "GrooveNameEntry" /\ ui.grooveAction = "Save" => ui.grooveSlot \notin grooves

\* The cursor stands on a row of the page on display, also after BACK, which
\* "restores the originating group/cursor instead of returning to an unrelated
\* default row".
CursorIsOnARow ==
  ui.screen = "Settings" /\ Items(ui.page, ui.channel) > 0 => ui.cursor < Items(ui.page, ui.channel)
=============================================================================
