------------------------------ MODULE SettingsMenu ------------------------------
(* The rows of the settings pages beside the screens of UserInterface.  Three   *)
(* places know what a row is: the menu model writes it (ui/menu_model*.cpp, with *)
(* what settings_renderer.cpp adds), a press on it is dispatched by              *)
(* activateCurrentSetting, and a turn while it is edited by                      *)
(* SettingsEditor::adjust and its own switches.  A setting is a pair of where it *)
(* belongs and its name; wording and values are left out.                        *)
EXTENDS UserInterface, Sequences

Arrow == <<"open", "">>      \* the row's value is the sign for "opens"
Fixed == <<"fixed", "">>     \* a label alone, or a text that nothing edits
Nothing == <<"nothing", "">>

In(scope, names) == [i \in 1..Len(names) |-> <<scope, names[i]>>]
Many(value, n) == [i \in 1..n |-> value]

-----------------------------------------------------------------------------
(* What the menu model shows, page by page. *)

StartRows == [
  Root |-> Many(Arrow, 5) \o Many(Fixed, IF leaderboard THEN 2 ELSE 1),
  Support |-> Many(Fixed, 2)]

GeneralRows == [General |-> Many(Arrow, 5)]

HardwareRows == [
  InputAssignments |-> In("inputs", <<"input1", "input2">>) \o <<Arrow>>,
  Hardware |-> In("device", <<"encoderDirectionReversed", "displayRotated180">>),
  Diagnostics |-> Many(Arrow, 2)]

MasterRows == [
  Master |-> In("master", <<"bpm", "minimumBpm", "maximumBpm", "beats", "unit", "preCountSteps">>)]

\* buildSyncMenuRow
SyncRows == [
  Sync |-> In("sync", <<"source", "pulsesPerQuarterNote", "edge", "lossMode", "resetMode",
                        "glitchFilterUs", "smoothing", "timeoutMs">>)]

DraftRows == [
  Preferences |-> <<Fixed, Arrow, Arrow, Arrow>>,
  GrooveEditorMenu |-> <<Arrow, Arrow, Fixed, Fixed>>,
  GrooveRecordMenu |-> Many(Fixed, 4) \o <<Arrow, Arrow, Fixed>>]

\* renderSettings: the draft's own values.
DraftValues == [
  GrooveEditorMenu |-> Many(Nothing, 2) \o In("draft", <<"zoom", "length">>),
  GrooveRecordMenu |-> In("draft", <<"recordMode", "countIn", "length", "zoom">>) \o Many(Nothing, 3)]

ScreensaverRows == [
  Screensaver |-> In("display", <<"screensaverMode", "screensaverAfter", "dimAfter", "offAfter">>)]

InfoRows == [
  Info |-> Many(Fixed, 3) \o Many(Arrow, 3),
  Licenses |-> Many(Fixed, 7),
  Updates |-> <<Fixed>>]

\* buildChannelMenuRow
ChannelRows == [
  Channel |-> [i \in 1..(IF mode[ui.channel] = "Off" THEN 1 ELSE 4) |->
                 IF ChannelRow(mode[ui.channel], i - 1) = "Mode" THEN Fixed ELSE Arrow]]

\* buildChannelTimingMenuRow
TimingRows == [
  ChannelTiming |-> In("channel", <<"rate", "numerator", "denominator", "swing">>) \o <<Arrow>>]

\* buildChannelOutputMenuRow
OutputRows == [
  ChannelOutput |-> In("channel", <<"probability", "gateLength", "phase", "resetMode", "muted">>)]

GeneratorRows == [
  Clock |-> In("Clock", <<"beats", "unit">>),
  Euclid |-> In("Euclid", <<"steps", "hits", "rotation">>),
  SequencerPattern |-> Many(Fixed, 5)]

\* buildSequencerV2MenuRow
SequencerRows == [
  Sequencer |-> <<Arrow>> \o In("Sequencer", <<"slot", "length", "rotation", "direction", "loopMode">>)]

\* buildUnifiedClockMenuRow
UnifiedRows == [UnifiedClock |-> <<Fixed, Arrow, Arrow>>]

\* buildUnifiedTimingMenuRow
UnifiedTimingRows == [
  UnifiedTiming |-> In("UnifiedClock", <<"rate", "numerator", "denominator", "swing">>)
                    \o <<Arrow, <<"UnifiedClock", "humanize">>>>]

\* buildUnifiedOutputMenuRow
UnifiedOutputRows == [UnifiedOutput |-> In("UnifiedClock", <<"gateLength", "phase">>)]

\* buildGrooveMenuRow
GrooveOwner == IF topology = "UnifiedClock" THEN topology ELSE "channel"
GrooveRows == [Groove |-> In(GrooveOwner, <<"preset", "amount", "grooveRotation">>) \o Many(Arrow, 5)]

DividerRows == [DividerBank |-> <<Fixed>> \o In("DividerBank", <<"bank", "gateLength">>)]

\* buildMenuRow
Rows(page) ==
  CASE page \in {"Root", "Support"} -> StartRows[page]
    [] page = "General" -> GeneralRows[page]
    [] page \in {"InputAssignments", "Hardware", "Diagnostics"} -> HardwareRows[page]
    [] page = "Master" -> MasterRows[page]
    [] page = "Sync" -> SyncRows[page]
    [] page \in {"Preferences", "GrooveEditorMenu", "GrooveRecordMenu"} -> DraftRows[page]
    [] page = "Screensaver" -> ScreensaverRows[page]
    [] page \in {"Info", "Licenses", "Updates"} -> InfoRows[page]
    [] page = "Channel" -> ChannelRows[page]
    [] page = "ChannelTiming" -> TimingRows[page]
    [] page = "ChannelOutput" -> OutputRows[page]
    [] page \in {"Clock", "Euclid", "SequencerPattern"} -> GeneratorRows[page]
    [] page = "Sequencer" -> SequencerRows[page]
    [] page = "UnifiedClock" -> UnifiedRows[page]
    [] page = "UnifiedTiming" -> UnifiedTimingRows[page]
    [] page = "UnifiedOutput" -> UnifiedOutputRows[page]
    [] page = "Groove" -> GrooveRows[page]
    [] page = "DividerBank" -> DividerRows[page]
    [] OTHER -> <<>>

\* renderSettings
Drawn(page, row) ==
  IF page \in DOMAIN DraftValues /\ DraftValues[page][row + 1] # Nothing
  THEN DraftValues[page][row + 1] ELSE Rows(page)[row + 1]

-----------------------------------------------------------------------------
(* What a turn changes, by the rows of the editors. *)

\* adjustInputAssignments, adjustHardware, adjustMaster and adjustScreensaver
GlobalTurns == [
  InputAssignments |-> In("inputs", <<"input1", "input2">>),
  Hardware |-> In("device", <<"encoderDirectionReversed", "displayRotated180">>),
  Master |-> In("master", <<"bpm", "minimumBpm", "maximumBpm", "beats", "unit", "preCountSteps">>),
  Screensaver |-> In("display", <<"screensaverMode", "screensaverAfter", "dimAfter", "offAfter">>)]

\* adjustSync
SyncTurns == [
  Sync |-> In("sync", <<"source", "pulsesPerQuarterNote", "edge", "lossMode", "resetMode",
                        "glitchFilterUs", "smoothing", "timeoutMs">>)]

\* adjustUnifiedTiming, adjustUnifiedOutput and adjustDividerBank
TopologyTurns == [
  UnifiedTiming |-> In("UnifiedClock", <<"rate", "numerator", "denominator", "swing">>)
                    \o <<Nothing, <<"UnifiedClock", "humanize">>>>,
  UnifiedOutput |-> In("UnifiedClock", <<"gateLength", "phase">>),
  DividerBank |-> <<Nothing>> \o In("DividerBank", <<"bank", "gateLength">>)]

\* adjustRate has rows 0 to 2, adjustCommonChannel 3 to 8, of which the page of the
\* outputs begins with the fourth.
CommonTurns ==
  In("channel", <<"rate", "numerator", "denominator", "swing", "probability", "gateLength", "phase",
                  "resetMode", "muted">>)
\* Mutant: the page of the outputs begins with the third.
OutputTurnShifted(row) == CommonTurns[row + 4]
OutputTurn(row) == CommonTurns[row + 5]

\* adjustClock and adjustEuclid
GeneratorTurns == [
  Clock |-> In("Clock", <<"beats", "unit">>),
  Euclid |-> In("Euclid", <<"steps", "hits", "rotation">>)]

\* adjustSequencerV2, which leaves row 0 alone
PatternTurns == [
  Sequencer |-> <<Nothing>> \o In("Sequencer", <<"slot", "length", "rotation", "direction", "loopMode">>)]

\* adjustGroove
GrooveTurns == [Groove |-> In(GrooveOwner, <<"preset", "amount", "grooveRotation">>) \o Many(Nothing, 5)]

\* handleEncoderDelta, of the draft
DraftTurns == [
  GrooveEditorMenu |-> Many(Nothing, 2) \o In("draft", <<"zoom", "length">>),
  GrooveRecordMenu |-> In("draft", <<"recordMode", "countIn", "length", "zoom">>) \o Many(Nothing, 3)]

\* SettingsEditor::adjust and the cases before it
Turned(page, row) ==
  CASE page = "ChannelTiming" -> IF row <= 3 THEN CommonTurns[row + 1] ELSE Nothing
    [] page = "ChannelOutput" -> OutputTurn(row)
    [] page \in DOMAIN GlobalTurns ->
         IF row < Len(GlobalTurns[page]) THEN GlobalTurns[page][row + 1] ELSE Nothing
    [] page = "Sync" -> SyncTurns[page][row + 1]
    [] page \in DOMAIN TopologyTurns -> TopologyTurns[page][row + 1]
    [] page \in DOMAIN GeneratorTurns -> GeneratorTurns[page][row + 1]
    [] page = "Sequencer" -> PatternTurns[page][row + 1]
    [] page = "Groove" -> GrooveTurns[page][row + 1]
    [] page \in DOMAIN DraftTurns -> DraftTurns[page][row + 1]
    [] OTHER -> Nothing

-----------------------------------------------------------------------------
\* resolvePhysicalOutputConfiguration: does what sounds depend on settings of this kind?
Sounds(scope) ==
  CASE scope \in {"UnifiedClock", "DividerBank"} -> topology = scope
    [] scope = "channel" -> topology = "Independent" /\ mode[ui.channel] # "Off"
    [] scope \in {"Clock", "Euclid", "Sequencer"} -> topology = "Independent" /\ mode[ui.channel] = scope
    [] OTHER -> TRUE

\* On every settings page the user can come to, each row up to settingsPageItemCount
\* exists, and of the row under the cursor: one that can be edited shows the very setting
\* that a turn changes, one that takes part in what the outputs play now, a row that cannot
\* be edited turns nothing, and an arrow leads somewhere (menu_model.cpp:117,
\* settings_editor.cpp:36, ui_controller_navigation_activate.cpp).
RowsShowWhatTheyEdit ==
  ui.screen = "Settings" =>
    /\ Len(Rows(ui.page)) = Items(ui.page, ui.channel)
    /\ ui.editing => ValueRow(ui)
    /\ ui.cursor < Items(ui.page, ui.channel) =>
         LET shown == Drawn(ui.page, ui.cursor)
         IN  /\ IF ValueRow(ui) THEN shown = Turned(ui.page, ui.cursor) /\ Sounds(shown[1])
                ELSE Turned(ui.page, ui.cursor) = Nothing
             /\ shown = Arrow => Child(ui) # "" \/ RowCommand(ui).screen # "Settings"
=============================================================================
