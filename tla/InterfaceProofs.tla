---------------------------- MODULE InterfaceProofs ----------------------------
(* Theorems about the screens of the module, for any numbers of channels, slots *)
(* and characters and any configuration to begin with.                          *)
EXTENDS UserInterface, TLAPS

ScreenNames ==
  {"Performance", "ChannelQuickSelect", "ModeSelect", "ModeChangeConfirm", "Settings",
   "InformationPopover", "Templates", "PresetSlots", "OverwriteConfirm", "NameEntry",
   "GrooveSlots", "GrooveNameEntry", "GrooveOverwriteConfirm", "GrooveDeleteConfirm",
   "GrooveEditor", "GrooveRecorder", "GrooveDiscardConfirm", "SequencerEditor",
   "SequencerStepEditor", "HighScoreClearConfirm", "FactoryResetConfirm"}
Workspaces == {"GrooveEditor", "GrooveRecorder"}
Menus == {"GrooveEditorMenu", "GrooveRecordMenu"}
Fields == {"screen", "page", "cursor", "editing", "exit", "modeReturn", "pending", "channel",
           "presetAction", "presetSlot", "grooveAction", "grooveSlot", "char", "workspace",
           "dirty", "loading", "recording", "preview"}

GrooveActions == {"LoadEditor", "Save", "Activate", "Rename", "Delete"}

\* The list from which a LOAD replaces the draft.
LoadList(u) == u.screen = "GrooveSlots" /\ u.grooveAction = "LoadEditor"

\* The channels that a topology t lets a draft be heard on.
Reached(u, t) == IF t = "UnifiedClock" THEN Channels ELSE {u.channel}

\* Where BACK and the dialogs lead to is where the user came from.
Returns(u) ==
  /\ DOMAIN u = Fields /\ u.screen \in ScreenNames
  /\ u.workspace \in Workspaces
  /\ u.exit \in Workspaces \cup {"Performance", "ChannelQuickSelect", "SequencerEditor", "Settings"}
  /\ u.exit \in Workspaces => InWorkspace(u)
  /\ u.modeReturn \in {"Settings", "ChannelQuickSelect"}
  /\ u.grooveAction \in GrooveActions
  /\ u.screen \in {"ModeSelect", "ModeChangeConfirm", "InformationPopover"} => u.page \notin Menus
  /\ u.screen = "GrooveNameEntry" => u.grooveAction \in {"Save", "Rename"}
  /\ u.screen = "GrooveOverwriteConfirm" => u.grooveAction = "Save"
  /\ u.screen = "GrooveDeleteConfirm" => u.grooveAction = "Delete"

\* The draft is heard and known to be edited only in the workspace.
Owned(u, t) ==
  /\ u.preview = IF InWorkspace(u) THEN Reached(u, t) ELSE {}
  /\ u.recording \in BOOLEAN /\ (u.recording => u.screen = "GrooveRecorder")
  /\ u.dirty \in BOOLEAN /\ (u.dirty => InWorkspace(u) /\ ~LoadList(u))

\* What the lists of the overview and of the carousel point at.
Functions == {"UnifiedClock", "DividerBank", "Clock", "Euclid", "Sequencer", "Off"}
Placed(u) ==
  /\ u.channel \in Channels /\ u.pending \in Functions
  /\ u.screen = "ModeSelect" => u.cursor \in 0..5
  /\ u.screen = "ChannelQuickSelect" => u.cursor \in Channels

Fine(u, t) == Returns(u) /\ Owned(u, t) /\ Placed(u)

\* A move to another screen that gives up no edit.
Moved(v, t) == Fine(v, t) /\ (ui.dirty => v.dirty)

\* The overview shows no page, and what was edited is in the draft.
IInv ==
  /\ Fine(ui, topology)
  /\ topology \in Topologies /\ mode \in [Channels -> Modes]
  /\ ui.screen = "ChannelQuickSelect" => ui.page = "Root"
  /\ unsaved \in BOOLEAN /\ (unsaved => ui.dirty)

LEMMA SettledUi ==
  ASSUME NEW u, NEW t, Fine(u, t)
  PROVE  LET s == Settled(u)
         IN Fine(s, t) /\ s.dirty = u.dirty /\ (s.screen = "ChannelQuickSelect" => s.page = "Root")
<1> DEFINE s == Settled(u)
<1>1. /\ DOMAIN s = Fields /\ s.screen = u.screen /\ s.preview = u.preview
      /\ s.recording = u.recording /\ s.dirty = u.dirty /\ s.channel = u.channel
  BY DEF Fine, Returns, Settled, Fields
<1>8. s.cursor = u.cursor /\ s.pending \in {u.pending, "Clock"}
  BY DEF Fine, Returns, Settled, Fields, InitialUi
<1>7. s.workspace \in Workspaces
  BY DEF Fine, Returns, Settled, Fields, InitialUi, Workspaces
<1>2. /\ u.screen \in {"Settings", "ModeSelect", "ModeChangeConfirm", "InformationPopover"} => s.page = u.page
      /\ u.screen \in {"GrooveSlots", "GrooveNameEntry", "GrooveOverwriteConfirm", "GrooveDeleteConfirm"}
           => s.grooveAction = u.grooveAction
      /\ s.grooveAction \in {u.grooveAction, "LoadEditor"} /\ s.exit \in {u.exit, "Performance"}
      /\ s.modeReturn \in {u.modeReturn, "Settings"}
      /\ u.screen = "ChannelQuickSelect" => s.page = "Root"
  BY DEF Fine, Returns, Settled, Fields, InitialUi
<1> HIDE DEF s
<1>3. InWorkspace(s) = InWorkspace(u)
  BY <1>1, <1>2 DEF InWorkspace
<1>4. LoadList(s) = LoadList(u)
  BY <1>1, <1>2 DEF LoadList
<1>5. Returns(s)
  BY <1>1, <1>2, <1>3, <1>7 DEF Fine, Returns, Workspaces, GrooveActions
<1>6. Owned(s, t)
  BY <1>1, <1>2, <1>3, <1>4 DEF Fine, Owned, Reached
<1>9. Placed(s)
  BY <1>1, <1>8 DEF Fine, Placed, Functions
<1> QED
  BY <1>1, <1>2, <1>5, <1>6, <1>9 DEF Fine, s


\* A move that leaves the draft alone, outside the workspace and within it.
Kept(v) ==
  /\ DOMAIN v = Fields /\ v.screen \in ScreenNames
  /\ v.workspace \in Workspaces /\ v.grooveAction \in GrooveActions
  /\ v.modeReturn \in {ui.modeReturn, "Settings", "ChannelQuickSelect"}
  /\ v.preview = ui.preview /\ v.dirty = ui.dirty /\ Placed(v)

LEMMA OutsideMoves ==
  ASSUME Fine(ui, topology), ~InWorkspace(ui), NEW v, Kept(v), ~InWorkspace(v),
         v.recording = ui.recording,
         v.exit \in {ui.exit, "Performance", "ChannelQuickSelect", "SequencerEditor", "Settings"},
         v.screen \in {"ModeSelect", "ModeChangeConfirm", "InformationPopover"} => v.page \notin Menus,
         v.screen = "GrooveNameEntry" => v.grooveAction \in {"Save", "Rename"},
         v.screen = "GrooveOverwriteConfirm" => v.grooveAction = "Save",
         v.screen = "GrooveDeleteConfirm" => v.grooveAction = "Delete"
  PROVE  Moved(v, topology)
<1>1. ~ui.recording /\ ~ui.dirty /\ ui.preview = {} /\ v.exit \notin Workspaces
  BY DEF Fine, Owned, Returns, InWorkspace, Workspaces
<1>2. Returns(v)
  BY <1>1 DEF Fine, Returns, Kept, Workspaces
<1>3. Owned(v, topology)
  BY <1>1 DEF Fine, Owned, Kept
<1> QED
  BY <1>1, <1>2, <1>3 DEF Moved, Fine, Kept

LEMMA InsideMoves ==
  ASSUME Fine(ui, topology), InWorkspace(ui), NEW v, Kept(v), InWorkspace(v),
         v.recording \in {FALSE, ui.recording}, v.recording => v.screen = "GrooveRecorder",
         v.channel = ui.channel, ~LoadList(v) \/ ~ui.dirty,
         v.exit \in {ui.exit, "Performance", "GrooveEditor", "GrooveRecorder"},
         v.screen = "GrooveNameEntry" => v.grooveAction \in {"Save", "Rename"},
         v.screen = "GrooveOverwriteConfirm" => v.grooveAction = "Save"
  PROVE  Moved(v, topology)
<1>1. Returns(v)
  BY DEF Fine, Returns, Kept, Workspaces, InWorkspace
<1>2. Owned(v, topology)
  BY DEF Fine, Owned, Kept, Reached
<1> QED
  BY <1>1, <1>2 DEF Moved, Fine, Kept

\* Leaving the workspace with nothing to lose.
LEMMA LeavingMoves ==
  ASSUME Fine(ui, topology), InWorkspace(ui), NEW u, Kept(u), u.channel = ui.channel
  PROVE  Fine(LeaveWorkspace(u), topology)
<1> DEFINE v == LeaveWorkspace(u)
<1>1. /\ DOMAIN v = Fields /\ v.screen = "Settings" /\ v.page = "Groove"
      /\ v.exit = "Performance" /\ v.recording = FALSE /\ v.dirty = FALSE
      /\ v.workspace = u.workspace /\ v.modeReturn = u.modeReturn /\ v.grooveAction = u.grooveAction
      /\ v.channel = u.channel /\ v.pending = u.pending
  BY DEF LeaveWorkspace, ToGroovePage, Open, Kept, Placed, Fields
<1>2. v.preview = u.preview \ Previewed(u)
  BY DEF LeaveWorkspace, ToGroovePage, Open, Kept, Placed, Fields
<1>3. v.preview = {}
  BY <1>2 DEF Fine, Owned, Previewed, Reached, Kept
<1>4. ~InWorkspace(v) /\ ~LoadList(v)
  BY <1>1 DEF InWorkspace, Menus, LoadList
<1> HIDE DEF v
<1>5. Returns(v)
  BY <1>1 DEF Kept, Fine, Returns, Workspaces, ScreenNames
<1>6. Owned(v, topology)
  BY <1>1, <1>3, <1>4 DEF Owned
<1>7. Placed(v)
  BY <1>1 DEF Kept, Placed
<1> QED
  BY <1>5, <1>6, <1>7 DEF Fine, v

\* Opening a page changes nothing of the draft.
LEMMA PageOpened ==
  ASSUME NEW u, Kept(u), NEW page, NEW row
  PROVE  LET v == Open(u, page, row)
         IN /\ Kept(v) /\ v.recording = u.recording /\ v.channel = u.channel
            /\ v.screen = "Settings" /\ v.page = page /\ v.exit = u.exit
BY DEF Open, Kept, Placed, Fields, ScreenNames

LEMMA UiIsKept == ASSUME Fine(ui, topology) PROVE Kept(ui)
BY DEF Fine, Returns, Owned, Kept

LEMMA ModeIndexType ==
  ASSUME topology \in Topologies, mode \in [Channels -> Modes], NEW c \in Channels
  PROVE  ModeIndex(c) \in 0..5
<1>1. \E i \in 0..5 : Carousel[i] = IF topology = "Independent" THEN mode[c] ELSE topology
  <2>1. /\ Carousel[0] = "UnifiedClock" /\ Carousel[1] = "DividerBank" /\ Carousel[2] = "Clock"
        /\ Carousel[3] = "Euclid" /\ Carousel[4] = "Sequencer" /\ Carousel[5] = "Off"
    BY DEF Carousel
  <2>2. (IF topology = "Independent" THEN mode[c] ELSE topology)
          \in {"UnifiedClock", "DividerBank", "Clock", "Euclid", "Sequencer", "Off"}
    BY DEF Topologies, Modes
  <2>3. 0 \in 0..5 /\ 1 \in 0..5 /\ 2 \in 0..5 /\ 3 \in 0..5 /\ 4 \in 0..5 /\ 5 \in 0..5
    OBVIOUS
  <2> QED
    BY <2>1, <2>2, <2>3
<1> QED
  BY <1>1 DEF ModeIndex

LEMMA BackMoves ==
  ASSUME UserInterfaceAssumption, Fine(ui, topology), topology \in Topologies,
         mode \in [Channels -> Modes]
  PROVE  Moved(Back(ui), topology)
<1> DEFINE v == Back(ui)
<1>0. Kept(ui) /\ ui.modeReturn \in {"Settings", "ChannelQuickSelect"}
  BY UiIsKept DEF Fine, Returns
<1>10. DOMAIN ui = Fields
  BY <1>0 DEF Kept
<1>1. CASE ui.screen = "Performance"
  <2>1. v = ui
    BY <1>1 DEF Back
  <2> QED
    BY <2>1 DEF Moved
<1>2. CASE ui.screen \in {"SequencerEditor", "Templates", "PresetSlots", "HighScoreClearConfirm",
                         "FactoryResetConfirm"}
  <2>1. /\ Kept(v) /\ v.recording = ui.recording /\ v.screen = "Settings"
        /\ v.page \in {"Sequencer", "Preferences", "Root", "Info"}
        /\ v.exit \in {ui.exit, "Performance"}
    <3>1. CASE ui.screen = "SequencerEditor"
      <4>1. Kept([ui EXCEPT !.exit = "Performance"])
        BY <1>0, UiIsKept DEF Kept, Placed, Fields
      <4>2. v = Open([ui EXCEPT !.exit = "Performance"], "Sequencer", 0)
        BY <3>1 DEF Back
      <4> HIDE DEF v
      <4> QED
        BY <1>10, <4>1, <4>2, PageOpened DEF Fields
    <3>2. CASE ui.screen \in {"Templates", "PresetSlots", "HighScoreClearConfirm",
                             "FactoryResetConfirm"}
      <4>1. \E page \in {"Preferences", "Root", "Info"}, row \in {0, 4, 5} : v = Open(ui, page, row)
        BY <3>2 DEF Back
      <4> HIDE DEF v
      <4> QED
        BY <4>1, PageOpened, UiIsKept
    <3> QED
      BY <1>2, <3>1, <3>2
  <2> QED
    BY <1>2, <2>1, OutsideMoves DEF InWorkspace, Menus
<1>3. CASE ui.screen \in {"SequencerStepEditor", "NameEntry", "OverwriteConfirm", "ModeChangeConfirm",
                         "ChannelQuickSelect"}
  <2>1. /\ Kept(v) /\ v.recording = ui.recording /\ v.exit = ui.exit /\ v.page = ui.page
        /\ \/ v.screen \in {"SequencerEditor", "PresetSlots", "Performance"}
           \/ ui.screen = "ModeChangeConfirm" /\ v.screen = "ModeSelect"
    <3>1. CASE ui.screen = "ModeChangeConfirm"
      BY <1>0, <3>1, ModeIndexType DEF Back, Kept, Placed, Fields, ScreenNames
    <3>2. CASE ui.screen = "SequencerStepEditor"
      BY <1>0, <3>2 DEF Back, Kept, Placed, Fields, ScreenNames
    <3>3. CASE ui.screen = "ChannelQuickSelect"
      BY <1>0, <3>3 DEF Back, Kept, Placed, Fields, ScreenNames
    <3>4. CASE ui.screen \in {"NameEntry", "OverwriteConfirm"}
      BY <1>0, <3>4 DEF Back, Kept, Placed, Fields, ScreenNames
    <3> QED
      BY <1>3, <3>1, <3>2, <3>3, <3>4
  <2> QED
    BY <1>3, <2>1, OutsideMoves DEF InWorkspace, Menus, Fine, Returns
<1>4. CASE ui.screen \in {"ModeSelect", "InformationPopover"}
  <2>1. /\ Kept(v) /\ v.recording = ui.recording /\ v.exit = ui.exit /\ v.page = ui.page
        /\ v.screen \in {"Settings", "ChannelQuickSelect"}
    <3>1. CASE ui.screen = "InformationPopover"
      BY <1>0, <3>1 DEF Back, Kept, Placed, Fields, ScreenNames
    <3>2. CASE ui.screen = "ModeSelect"
      <4>1. ui.cursor \in Channels
        BY <3>2 DEF Fine, Placed, Channels, UserInterfaceAssumption
      <4> QED
        BY <1>0, <3>2, <4>1 DEF Back, Kept, Placed, Fields, ScreenNames
    <3> QED
      BY <1>4, <3>1, <3>2
  <2> QED
    BY <1>4, <2>1, OutsideMoves DEF InWorkspace, Menus, Fine, Returns
<1>5. CASE ui.screen \in {"GrooveNameEntry", "GrooveOverwriteConfirm", "GrooveDeleteConfirm"}
  <2>1. /\ Kept(v) /\ v.recording = ui.recording /\ v.exit = ui.exit /\ v.channel = ui.channel
        /\ v.screen = "GrooveSlots" /\ v.grooveAction = ui.grooveAction
    BY <1>0, <1>5 DEF Back, Kept, Placed, Fields, ScreenNames
  <2>2. ui.grooveAction \in {"Save", "Rename", "Delete"} /\ ~ui.recording
    BY <1>5 DEF Fine, Returns, Owned
  <2>3. InWorkspace(v) = InWorkspace(ui)
    BY <1>5, <2>1, <2>2 DEF InWorkspace, Fine, Returns
  <2> QED
    BY <2>1, <2>2, <2>3, OutsideMoves, InsideMoves DEF LoadList
<1>6. CASE ui.screen = "GrooveDiscardConfirm"
  <2>1. /\ Kept(v) /\ v.recording = ui.recording /\ v.exit = ui.exit /\ v.channel = ui.channel
        /\ v.screen \in Workspaces
    BY <1>0, <1>6 DEF Back, Kept, Placed, Fields, ScreenNames, Workspaces
  <2> QED
    BY <1>6, <2>1, InsideMoves DEF InWorkspace, Workspaces, LoadList, Fine, Owned
<1>7. CASE ui.screen = "GrooveSlots"
  <2>1. CASE ui.grooveAction \in {"Activate", "Rename", "Delete"}
    <3>1. /\ Kept(v) /\ v.recording = ui.recording /\ v.screen = "Settings" /\ v.page = "Groove"
          /\ v.exit = ui.exit
      BY <1>0, <1>7, <2>1 DEF Back, BackFromGrooveSlots, Open, Kept, Placed, Fields, ScreenNames
    <3> QED
      BY <1>7, <2>1, <3>1, OutsideMoves DEF InWorkspace, Menus
  <2>2. CASE ui.grooveAction \notin {"Activate", "Rename", "Delete"}
    <3>1. /\ Kept(v) /\ v.recording = ui.recording /\ v.screen \in Workspaces
          /\ v.exit = ui.exit /\ v.channel = ui.channel
      BY <1>0, <1>7, <2>2 DEF Back, BackFromGrooveSlots, Kept, Placed, Fields, ScreenNames, Workspaces
    <3> QED
      <4>1. InWorkspace(ui) /\ InWorkspace(v) /\ ~LoadList(v) /\ ~ui.recording
        BY <1>0, <1>7, <2>2, <3>1
        DEF InWorkspace, Workspaces, LoadList, Fine, Owned, GrooveActions, Kept
      <4> QED
        BY <1>7, <3>1, <4>1, InsideMoves DEF Workspaces
  <2> QED
    BY <2>1, <2>2
<1>8. CASE ui.screen \in Workspaces
  <2> DEFINE stopped == [ui EXCEPT !.workspace = ui.screen, !.recording = FALSE]
  <2>1. v = IF ui.dirty THEN Ask([stopped EXCEPT !.loading = FALSE], "GrooveDiscardConfirm")
            ELSE LeaveWorkspace(stopped)
    BY <1>8 DEF Back, BackFromWorkspace, Workspaces
  <2>2. CASE ui.dirty
    <3>1. /\ Kept(v) /\ v.recording = FALSE /\ v.screen = "GrooveDiscardConfirm"
          /\ v.exit = ui.exit /\ v.channel = ui.channel
      BY <1>0, <1>8, <2>1, <2>2 DEF Ask, Kept, Placed, Fields, ScreenNames
    <3> QED
      BY <1>8, <3>1, InsideMoves DEF InWorkspace, Workspaces, LoadList
  <2>3. CASE ~ui.dirty
    <3>1. v = LeaveWorkspace(stopped)
      BY <2>1, <2>3
    <3>2. Kept(stopped) /\ stopped.channel = ui.channel
      BY <1>0, <1>8 DEF Fields, Placed, Kept, ScreenNames
    <3>3. InWorkspace(ui)
      BY <1>8 DEF InWorkspace, Workspaces
    <3> HIDE DEF stopped, v
    <3> QED
      BY <2>3, <3>1, <3>2, <3>3, LeavingMoves DEF Moved, v
  <2> QED
    BY <2>2, <2>3 DEF Fine, Owned
<1>9. CASE ui.screen = "Settings"
  <2>1. v = [LeftPage(ui) EXCEPT
               !.exit = IF ui.page \in {"Channel", "UnifiedClock", "DividerBank"} /\ @ = "Settings"
                        THEN "Performance" ELSE @]
    BY <1>9 DEF Back, BackFromSettings
  <2>2. CASE ui.page = "GrooveEditorMenu" \/ ui.page = "GrooveRecordMenu"
    <3>1. LeftPage(ui) = [ui EXCEPT !.screen = IF ui.page = "GrooveEditorMenu" THEN "GrooveEditor"
                                               ELSE "GrooveRecorder",
                                    !.cursor = 0, !.editing = FALSE]
      BY <2>2 DEF LeftPage
    <3>2. /\ Kept(v) /\ v.recording = ui.recording /\ v.screen \in Workspaces
          /\ v.exit \in {ui.exit, "Performance"} /\ v.channel = ui.channel
      BY <1>0, <2>1, <3>1 DEF Kept, Placed, Fields, ScreenNames, Workspaces
    <3> QED
      BY <1>9, <2>2, <3>2, InsideMoves DEF InWorkspace, Workspaces, LoadList, Fine, Owned
  <2>3. CASE ui.page \notin Menus
    <3>1. ~InWorkspace(ui) /\ ui.exit \in {"Performance", "ChannelQuickSelect", "SequencerEditor", "Settings"}
      BY <1>9, <2>3 DEF InWorkspace, Menus, Fine, Returns
    <3>2. /\ Kept(LeftPage(ui)) /\ LeftPage(ui).recording = ui.recording
          /\ LeftPage(ui).exit = ui.exit
          /\ \/ LeftPage(ui).screen = "Settings" /\ LeftPage(ui).page = Parent(ui)
             \/ LeftPage(ui).screen = ui.exit /\ LeftPage(ui).page = ui.page
             \/ LeftPage(ui).screen = "SequencerEditor"
      BY <1>0, <1>9, <2>3, <3>1 DEF LeftPage, ToExit, Kept, Placed, Fields, ScreenNames, Menus
    <3>3. Parent(ui) \notin Menus
      BY DEF Parent, Menus
    <3>4. ~InWorkspace(v) /\ Kept(v) /\ v.recording = ui.recording
          /\ v.exit \in {ui.exit, "Performance"}
          /\ v.screen \in {"Settings", "SequencerEditor", ui.exit}
      BY <2>1, <2>3, <3>1, <3>2, <3>3 DEF Kept, Placed, InWorkspace, Menus, Fields
    <3> QED
      BY <3>1, <3>4, OutsideMoves
  <2> QED
    BY <2>2, <2>3 DEF Menus
<1> QED
  BY <1>1, <1>2, <1>3, <1>4, <1>5, <1>6, <1>7, <1>8, <1>9
  DEF Fine, Returns, ScreenNames, Workspaces
-----------------------------------------------------------------------------
\* A step to a screen keeps the invariant if the new topology lets the draft be heard as before.
LEMMA Gone ==
  ASSUME NEW u, Fine(u, topology'), Go(u), unsaved' \in BOOLEAN, unsaved' => u.dirty,
         topology' \in Topologies, mode' \in [Channels -> Modes]
  PROVE  IInv'
<1>1. ui' = Settled(u)
  BY DEF Go
<1> QED
  BY <1>1, SettledUi DEF IInv

LEMMA Strolled ==
  ASSUME IInv, NEW u, Moved(u, topology), Go(u), UNCHANGED <<topology, mode, unsaved>>
  PROVE  IInv'
<1>1. u.dirty \in BOOLEAN /\ (unsaved => u.dirty) /\ Fine(u, topology')
  BY DEF IInv, Moved, Fine, Owned
<1> QED
  BY <1>1, Gone DEF IInv

LEMMA Unmoved ==
  ASSUME IInv, UNCHANGED <<ui, topology, mode, unsaved>>
  PROVE  IInv'
BY DEF IInv

\* What changes on a screen that stays.
LEMMA OnTheScreen ==
  ASSUME Fine(ui, topology), NEW v, Kept(v), v.screen = ui.screen, v.page = ui.page,
         v.grooveAction = ui.grooveAction, v.exit = ui.exit, v.recording = ui.recording,
         v.channel = ui.channel
  PROVE  Moved(v, topology)
<1>1. InWorkspace(v) = InWorkspace(ui) /\ LoadList(v) = LoadList(ui)
  BY DEF InWorkspace, LoadList
<1>2. Returns(v)
  BY <1>1 DEF Fine, Returns, Kept
<1>3. Owned(v, topology)
  BY <1>1 DEF Fine, Owned, Kept, Reached
<1> QED
  BY <1>2, <1>3 DEF Moved, Fine, Kept

LEMMA TurnListKeeps == ASSUME IInv, NEW d \in Deltas, TurnList(d) PROVE IInv'
<1> DEFINE v == [ui EXCEPT !.cursor = Clamp(@ + d, 0, ListLength - 1)]
<1>1. Kept(ui) /\ Fine(ui, topology)
  BY UiIsKept DEF IInv
<1>2. /\ Kept(v) /\ v.screen = ui.screen /\ v.page = ui.page
      /\ v.grooveAction = ui.grooveAction /\ v.exit = ui.exit /\ v.recording = ui.recording
      /\ v.channel = ui.channel
  <2>1. ui.screen # "ModeSelect" /\ ui.screen # "ChannelQuickSelect"
    BY DEF TurnList, ListLength, Dialogs
  <2> QED
    BY <1>1, <2>1 DEF Kept, Placed, Fields
<1>3. Go(v) /\ UNCHANGED <<topology, mode, unsaved>>
  BY DEF TurnList, Stay, world
<1> HIDE DEF v
<1> QED
  BY <1>1, <1>2, <1>3, OnTheScreen, Strolled

LEMMA TurnRingKeeps ==
  ASSUME UserInterfaceAssumption, IInv, NEW d \in Deltas, TurnRing(d)
  PROVE  IInv'
<1>0. /\ ui.screen \in {"ModeSelect", "ChannelQuickSelect"}
      /\ ui.screen = "ModeSelect" => ui.cursor \in Int
      /\ ui.screen = "ChannelQuickSelect" => ui.cursor \in Int
      /\ d \in Int /\ ChannelCount \in Int /\ ChannelCount > 0
  BY DEF TurnRing, IInv, Fine, Placed, Channels, UserInterfaceAssumption
<1>1. PICK n \in {6, ChannelCount} :
        /\ n = (IF ui.screen = "ModeSelect" THEN 6 ELSE ChannelCount)
        /\ Go([ui EXCEPT !.cursor = (@ + d) % n])
  BY DEF TurnRing
<1>5. (ui.cursor + d) % n \in 0..n - 1
  BY <1>0
<1> DEFINE v == [ui EXCEPT !.cursor = (@ + d) % n]
<1>2. Kept(ui) /\ Fine(ui, topology)
  BY UiIsKept DEF IInv
<1>3. /\ Kept(v) /\ v.screen = ui.screen /\ v.page = ui.page
      /\ v.grooveAction = ui.grooveAction /\ v.exit = ui.exit /\ v.recording = ui.recording
      /\ v.channel = ui.channel
  BY <1>0, <1>1, <1>2, <1>5 DEF Kept, Placed, Fields, Channels
<1>4. Go(v) /\ UNCHANGED <<topology, mode, unsaved>>
  BY <1>1 DEF TurnRing, Stay, world
<1> HIDE DEF v
<1> QED
  BY <1>2, <1>3, <1>4, OnTheScreen, Strolled

LEMMA OpenCarouselKeeps ==
  ASSUME IInv, NEW d \in Deltas, OpenCarousel(d), UserInterfaceAssumption
  PROVE  IInv'
<1>1. PICK c \in {ui.cursor, ui.channel} :
        Go([OpenModeSelect([ui EXCEPT !.channel = c], "ChannelQuickSelect")
              EXCEPT !.cursor = (@ + d) % 6])
  BY DEF OpenCarousel
<1>5. c \in Channels /\ ModeIndex(c) \in Int /\ d \in Int
  BY ModeIndexType DEF IInv, Fine, Placed, OpenCarousel, UserInterfaceAssumption
<1>6. (ModeIndex(c) + d) % 6 \in 0..5
  BY <1>5
<1> DEFINE v == [OpenModeSelect([ui EXCEPT !.channel = c], "ChannelQuickSelect")
                   EXCEPT !.cursor = (@ + d) % 6]
<1>2. /\ Kept(ui) /\ Fine(ui, topology) /\ ui.screen = "ChannelQuickSelect" /\ ui.page = "Root"
  BY UiIsKept DEF IInv, OpenCarousel
<1>3. /\ Kept(v) /\ v.screen = "ModeSelect" /\ v.page = ui.page /\ v.exit = ui.exit
      /\ v.recording = ui.recording
  BY <1>2, <1>5, <1>6 DEF Kept, Placed, Fields, OpenModeSelect, ScreenNames
<1>4. Go(v) /\ UNCHANGED <<topology, mode, unsaved>>
  BY <1>1 DEF OpenCarousel
<1> HIDE DEF v
<1>7. Moved(v, topology)
  BY <1>2, <1>3, OutsideMoves DEF InWorkspace, Menus
<1> QED
  BY <1>4, <1>7, Strolled

LEMMA ResetPressKeeps == ASSUME UserInterfaceAssumption, IInv, ResetPress PROVE IInv'
<1>1. Go(Back(ui)) /\ UNCHANGED <<topology, mode, unsaved>>
  BY DEF ResetPress, Stay, world
<1> QED
  BY <1>1, BackMoves, Strolled DEF IInv
\* An edit of the draft in the workspace is heard there and is not forgotten.
LEMMA Edited ==
  ASSUME Fine(ui, topology), InWorkspace(ui), ~LoadList(ui), NEW v, Returns(v),
         v.screen = ui.screen, v.page = ui.page, v.grooveAction = ui.grooveAction,
         v.channel = ui.channel, v.recording = ui.recording,
         v.dirty = TRUE, v.preview = ui.preview \cup Previewed(ui), Placed(v)
  PROVE  Fine(v, topology)
<1>1. InWorkspace(v) /\ ~LoadList(v)
  BY DEF InWorkspace, LoadList
<1>2. Owned(v, topology)
  BY <1>1 DEF Fine, Owned, Reached, Previewed
<1> QED
  BY <1>2 DEF Fine

LEMMA CaptureEdits ==
  ASSUME Fine(ui, topology), InWorkspace(ui), ~LoadList(ui)
  PROVE  Fine(Capture(ui), topology) /\ Capture(ui).dirty = TRUE
<1> DEFINE v == Capture(ui)
<1>1. /\ DOMAIN v = Fields /\ v.screen = ui.screen /\ v.page = ui.page
      /\ v.grooveAction = ui.grooveAction /\ v.channel = ui.channel /\ v.recording = ui.recording
      /\ v.dirty = TRUE /\ v.preview = ui.preview \cup Previewed(ui)
      /\ v.exit = ui.exit /\ v.workspace = ui.workspace /\ v.modeReturn = ui.modeReturn
      /\ v.cursor = ui.cursor /\ v.pending = ui.pending
  BY DEF Capture, Fine, Returns, Fields
<1> HIDE DEF v
<1>2. InWorkspace(v) = InWorkspace(ui)
  BY <1>1 DEF InWorkspace
<1>3. Returns(v)
  BY <1>1, <1>2 DEF Fine, Returns
<1>4. Placed(v)
  BY <1>1 DEF Fine, Placed
<1> QED
  BY <1>1, <1>3, <1>4, Edited DEF v

LEMMA TurnDraftKeeps == ASSUME IInv, TurnDraft PROVE IInv'
<1>1. Go(Capture(ui)) /\ unsaved' = TRUE /\ UNCHANGED <<topology, mode>>
  BY DEF TurnDraft, world, Capture
<1>2. InWorkspace(ui) /\ ~LoadList(ui)
  BY DEF TurnDraft, InWorkspace, LoadList
<1> QED
  BY <1>1, <1>2, CaptureEdits, Gone DEF IInv

LEMMA TapRecordedKeeps == ASSUME IInv, TapRecorded PROVE IInv'
<1>1. Go(Capture(ui)) /\ unsaved' = TRUE /\ UNCHANGED <<topology, mode>>
  BY DEF TapRecorded, world
<1>2. InWorkspace(ui) /\ ~LoadList(ui)
  BY DEF TapRecorded, InWorkspace, LoadList
<1> QED
  BY <1>1, <1>2, CaptureEdits, Gone DEF IInv

\* The recorder starts and stops on its own screen.
LEMMA Recording ==
  ASSUME IInv, NEW on \in BOOLEAN, on => ui.screen = "GrooveRecorder",
         Go([ui EXCEPT !.recording = on]), UNCHANGED <<topology, mode, unsaved>>
  PROVE  IInv'
<1> DEFINE v == [ui EXCEPT !.recording = on]
<1>1. Kept(ui) /\ Fine(ui, topology)
  BY UiIsKept DEF IInv
<1>2. /\ Kept(v) /\ v.screen = ui.screen /\ v.page = ui.page
      /\ v.grooveAction = ui.grooveAction /\ v.exit = ui.exit /\ v.recording = on
      /\ v.channel = ui.channel
  BY <1>1 DEF Kept, Placed, Fields
<1> HIDE DEF v
<1>3. InWorkspace(v) = InWorkspace(ui) /\ LoadList(v) = LoadList(ui)
  BY <1>2 DEF InWorkspace, LoadList
<1>4. Returns(v)
  BY <1>1, <1>2, <1>3 DEF Fine, Returns, Kept
<1>5. Owned(v, topology)
  BY <1>1, <1>2, <1>3 DEF Fine, Owned, Kept, Reached
<1>6. Moved(v, topology)
  BY <1>2, <1>4, <1>5 DEF Moved, Fine, Kept
<1> QED
  BY <1>6, Strolled DEF v

LEMMA PlayReleaseKeeps == ASSUME IInv, PlayRelease PROVE IInv'
<1>1. UNCHANGED <<topology, mode, unsaved>>
  BY DEF PlayRelease, Stay, world
<1>2. ui.recording \in BOOLEAN /\ (ui.recording => ui.screen = "GrooveRecorder")
  BY DEF IInv, Fine, Owned
<1>3. CASE ui.screen = "GrooveRecorder" /\ ~buttons.zoomed
  <2>1. Go([ui EXCEPT !.recording = ~ui.recording])
    BY <1>3 DEF PlayRelease
  <2> QED
    BY <1>1, <1>3, <2>1, Recording
<1>4. CASE ~(ui.screen = "GrooveRecorder" /\ ~buttons.zoomed)
  <2>1. Go([ui EXCEPT !.recording = ui.recording])
    BY <1>4 DEF PlayRelease
  <2> QED
    BY <1>1, <1>2, <2>1, Recording
<1> QED
  BY <1>3, <1>4

LEMMA RecordingEndsKeeps == ASSUME IInv, RecordingEnds PROVE IInv'
<1>1. Go([ui EXCEPT !.recording = FALSE]) /\ UNCHANGED <<topology, mode, unsaved>>
  BY DEF RecordingEnds, Stay, world
<1> QED
  BY <1>1, Recording

-----------------------------------------------------------------------------
(* The carousel, templates and presets: moves outside the workspace. *)

\* A move outside the workspace, under any topology.
Outside(v) == ~InWorkspace(v) /\ \A t : Moved(v, t)

LEMMA OutsideAnywhere ==
  ASSUME Fine(ui, topology), ~InWorkspace(ui), NEW v, Moved(v, topology), ~InWorkspace(v)
  PROVE  Outside(v)
BY DEF Outside, Moved, Fine, Owned

\* The common case: another screen, with what it shows.
LEMMA Elsewhere ==
  ASSUME Fine(ui, topology), ~InWorkspace(ui), NEW v, Kept(v), ~InWorkspace(v),
         v.recording = ui.recording, v.exit \in {ui.exit, "Performance", "Settings"},
         v.screen \notin {"ModeSelect", "ModeChangeConfirm", "InformationPopover",
                          "GrooveNameEntry", "GrooveOverwriteConfirm", "GrooveDeleteConfirm"}
  PROVE  Outside(v)
BY OutsideMoves, OutsideAnywhere

LEMMA AfterModeMoves ==
  ASSUME Fine(ui, topology), ~InWorkspace(ui), NEW f \in Functions
  PROVE  Outside(AfterMode(ui, f))
<1> DEFINE v == AfterMode(ui, f)
<1>1. Kept(ui) /\ ui.exit \in ScreenNames
  BY UiIsKept DEF Fine, Returns, ScreenNames, Workspaces
<1>2. Kept(v) /\ v.recording = ui.recording /\ v.exit \in {ui.exit, "Performance"}
      /\ \/ v.screen \in {"Performance", "SequencerEditor"}
         \/ v.screen = "Settings" /\ v.page \in Functions \cup {"Euclid"}
  <2>1. CASE f \in {"Off", "Clock"}
    <3>1. v = [ui EXCEPT !.screen = "Performance", !.cursor = ui.channel, !.editing = FALSE]
      BY <2>1 DEF AfterMode
    <3> QED
      BY <1>1, <3>1 DEF Kept, Placed, Fields, ScreenNames
  <2>2. CASE f = "Sequencer"
    <3>1. v = [ui EXCEPT !.screen = "SequencerEditor", !.editing = FALSE]
      BY <2>2 DEF AfterMode
    <3> QED
      BY <1>1, <3>1 DEF Kept, Placed, Fields, ScreenNames
  <2>3. CASE f \notin {"Off", "Clock", "Sequencer"}
    <3> DEFINE u == [ui EXCEPT !.exit = "Performance"]
    <3>1. \E page \in Functions, row \in {0, 1} : v = Open(u, page, row)
      BY <2>3 DEF AfterMode
    <3>2. Kept(u) /\ u.recording = ui.recording /\ u.exit = "Performance"
      BY <1>1 DEF Kept, Placed, Fields
    <3> HIDE DEF u, v
    <3> QED
      BY <3>1, <3>2, PageOpened
  <2> QED
    BY <2>1, <2>2, <2>3
<1>3. ~InWorkspace(v)
  BY <1>2 DEF InWorkspace, Functions
<1> HIDE DEF v
<1> QED
  BY <1>2, <1>3, Elsewhere DEF v

LEMMA CommitModeMoves ==
  ASSUME Fine(ui, topology), ui.screen = "ModeSelect"
  PROVE  Outside(CommitMode(ui))
<1>1. /\ ~InWorkspace(ui) /\ ui.cursor \in 0..5 /\ ui.page \notin Menus /\ Kept(ui)
  BY UiIsKept DEF InWorkspace, Fine, Returns, Placed
<1>2. Carousel[ui.cursor] \in Functions
  BY <1>1 DEF Carousel, Functions
<1>3. CASE ui.cursor = ModeIndex(ui.channel)
  BY <1>1, <1>2, <1>3, AfterModeMoves DEF CommitMode
<1>4. CASE ui.cursor # ModeIndex(ui.channel)
  <2> DEFINE v == [Ask(ui, "ModeChangeConfirm") EXCEPT !.pending = Carousel[ui.cursor], !.editing = FALSE]
  <2>1. CommitMode(ui) = v
    BY <1>4 DEF CommitMode
  <2>2. /\ Kept(v) /\ v.recording = ui.recording /\ v.exit = ui.exit
        /\ v.screen = "ModeChangeConfirm" /\ v.page = ui.page
    BY <1>1, <1>2 DEF Ask, Kept, Placed, Fields, ScreenNames
  <2> HIDE DEF v
  <2>3. ~InWorkspace(v)
    BY <2>2 DEF InWorkspace
  <2> QED
    BY <1>1, <2>1, <2>2, <2>3, OutsideMoves, OutsideAnywhere
<1> QED
  BY <1>3, <1>4

\* A move outside the workspace may change the topology.
LEMMA GoneOutside ==
  ASSUME IInv, NEW u, Outside(u), Go(u), unsaved' = unsaved,
         topology' \in Topologies, mode' \in [Channels -> Modes]
  PROVE  IInv'
<1>1. Fine(u, topology') /\ (unsaved => u.dirty)
  BY DEF Outside, Moved, IInv, Fine, Owned
<1> QED
  BY <1>1, Gone DEF IInv

LEMMA ApplyModeKeeps == ASSUME IInv, ui.screen = "ModeChangeConfirm", ApplyMode PROVE IInv'
<1>1. ui.pending \in Functions /\ ~InWorkspace(ui) /\ Fine(ui, topology)
  BY DEF IInv, Fine, Placed, InWorkspace
<1>2. Go(AfterMode(ui, ui.pending)) /\ unsaved' = unsaved
  BY DEF ApplyMode, Change
<1>3. topology' \in Topologies
  BY DEF ApplyMode, Change, Topologies
<1>4. mode' \in [Channels -> Modes]
  BY DEF ApplyMode, Change, IInv
<1> QED
  BY <1>1, <1>2, <1>3, <1>4, AfterModeMoves, GoneOutside

LEMMA StoredType ==
  ASSUME UserInterfaceAssumption, NEW s \in Stored
  PROVE  s[1] \in Topologies /\ s[2] \in [Channels -> Modes]
BY DEF Stored, UserInterfaceAssumption, Topologies, Modes

\* Templates and presets lead to the performance screen.
LEMMA PerformanceMoves ==
  ASSUME Fine(ui, topology), ~InWorkspace(ui), NEW v, DOMAIN v = Fields,
         v.screen = "Performance", v.channel \in Channels,
         \A f \in Fields \ {"screen", "channel", "cursor", "presetSlot", "editing"} : v[f] = ui[f]
  PROVE  Outside(v)
<1>1. Kept(ui)
  BY UiIsKept
<1>2. Kept(v) /\ v.recording = ui.recording /\ v.exit = ui.exit
  BY <1>1 DEF Kept, Placed, Fields, ScreenNames
<1> QED
  BY <1>2, Elsewhere DEF InWorkspace
LEMMA ApplyTemplateKeeps ==
  ASSUME UserInterfaceAssumption, IInv, ui.screen = "Templates", ApplyTemplate PROVE IInv'
<1>1. PICK s \in Stored : Change(s[1], s[2]) /\ Go([ui EXCEPT !.screen = "Performance"])
  BY DEF ApplyTemplate
<1> DEFINE v == [ui EXCEPT !.screen = "Performance"]
<1>2. Fine(ui, topology) /\ ~InWorkspace(ui)
  BY DEF IInv, InWorkspace
<1>3. /\ DOMAIN v = Fields /\ v.screen = "Performance" /\ v.channel \in Channels
      /\ \A f \in Fields \ {"screen", "channel", "cursor", "presetSlot", "editing"} : v[f] = ui[f]
  BY <1>2 DEF Fine, Returns, Placed, Fields
<1>4. Go(v) /\ topology' \in Topologies /\ mode' \in [Channels -> Modes] /\ unsaved' = unsaved
  BY <1>1, StoredType DEF Change
<1> HIDE DEF v
<1> QED
  BY <1>2, <1>3, <1>4, PerformanceMoves, GoneOutside

LEMMA LoadPresetKeeps ==
  ASSUME UserInterfaceAssumption, IInv, ui.screen = "PresetSlots", LoadPreset PROVE IInv'
<1>1. Fine(ui, topology) /\ ~InWorkspace(ui) /\ Kept(ui)
  BY UiIsKept DEF IInv, InWorkspace
<1>2. CASE Go([ui EXCEPT !.presetSlot = ui.cursor]) /\ Stay
  <2> DEFINE v == [ui EXCEPT !.presetSlot = ui.cursor]
  <2>1. Go(v) /\ UNCHANGED <<topology, mode, unsaved>>
    BY <1>2 DEF Stay, world
  <2>2. /\ Kept(v) /\ v.screen = ui.screen /\ v.page = ui.page
        /\ v.grooveAction = ui.grooveAction /\ v.exit = ui.exit /\ v.recording = ui.recording
        /\ v.channel = ui.channel
    BY <1>1 DEF Kept, Placed, Fields
  <2> HIDE DEF v
  <2> QED
    BY <1>1, <2>1, <2>2, OnTheScreen, Strolled
<1>3. CASE \E s \in Stored : /\ ui.cursor \in presets /\ Change(s[1], s[2])
                             /\ Go([ui EXCEPT !.screen = "Performance", !.presetSlot = ui.cursor])
  <2> DEFINE v == [ui EXCEPT !.screen = "Performance", !.presetSlot = ui.cursor]
  <2>1. /\ DOMAIN v = Fields /\ v.screen = "Performance" /\ v.channel \in Channels
        /\ \A f \in Fields \ {"screen", "channel", "cursor", "presetSlot", "editing"} : v[f] = ui[f]
    BY <1>1 DEF Fine, Returns, Placed, Fields
  <2>2. Go(v) /\ topology' \in Topologies /\ mode' \in [Channels -> Modes] /\ unsaved' = unsaved
    BY <1>3, StoredType DEF Change
  <2> HIDE DEF v
  <2> QED
    BY <1>1, <2>1, <2>2, PerformanceMoves, GoneOutside
<1> QED
  BY <1>2, <1>3 DEF LoadPreset

LEMMA SelectChannelKeeps ==
  ASSUME IInv, ui.screen = "ChannelQuickSelect", SelectChannel PROVE IInv'
<1>1. Fine(ui, topology) /\ ~InWorkspace(ui) /\ ui.channel \in Channels /\ ui.cursor \in Channels
  BY DEF IInv, InWorkspace, Fine, Placed
<1>2. PICK chosen \in {ui.cursor, ui.channel} :
        Go([ui EXCEPT !.screen = "Performance", !.channel = chosen, !.cursor = chosen, !.editing = FALSE])
  BY DEF SelectChannel
<1> DEFINE v == [ui EXCEPT !.screen = "Performance", !.channel = chosen, !.cursor = chosen, !.editing = FALSE]
<1>3. /\ DOMAIN v = Fields /\ v.screen = "Performance" /\ v.channel \in Channels
      /\ \A f \in Fields \ {"screen", "channel", "cursor", "presetSlot", "editing"} : v[f] = ui[f]
  BY <1>1 DEF Fine, Returns, Fields
<1>4. Go(v) /\ UNCHANGED <<topology, mode, unsaved>>
  BY <1>2 DEF SelectChannel
<1> HIDE DEF v
<1> QED
  BY <1>1, <1>3, <1>4, PerformanceMoves, GoneOutside DEF IInv

LEMMA ChoosePresetMoves ==
  ASSUME Fine(ui, topology), ui.screen = "PresetSlots"
  PROVE  Outside(ChoosePreset(ui))
<1> DEFINE v == ChoosePreset(ui)
<1>1. ~InWorkspace(ui) /\ Kept(ui)
  BY UiIsKept DEF InWorkspace
<1>2. /\ Kept(v) /\ v.recording = ui.recording /\ v.exit = ui.exit
      /\ v.screen \in {"OverwriteConfirm", "NameEntry"}
  BY <1>1 DEF ChoosePreset, Ask, Kept, Placed, Fields, ScreenNames
<1> HIDE DEF v
<1> QED
  BY <1>1, <1>2, Elsewhere DEF v, InWorkspace

LEMMA SavePresetKeeps ==
  ASSUME IInv, ui.screen = "NameEntry", SavePreset PROVE IInv'
<1> DEFINE v == OpenPresetSlots(ui, "Save")
<1>1. Fine(ui, topology) /\ ~InWorkspace(ui) /\ Kept(ui)
  BY UiIsKept DEF IInv, InWorkspace
<1>2. Kept(v) /\ v.recording = ui.recording /\ v.exit = ui.exit /\ v.screen = "PresetSlots"
  BY <1>1 DEF OpenPresetSlots, Kept, Placed, Fields, ScreenNames
<1>3. Go(v) /\ UNCHANGED <<topology, mode, unsaved>>
  BY DEF SavePreset
<1> HIDE DEF v
<1> QED
  BY <1>1, <1>2, <1>3, Elsewhere, GoneOutside DEF IInv, InWorkspace

LEMMA FactoryResetKeeps ==
  ASSUME UserInterfaceAssumption, IInv, ui.screen = "FactoryResetConfirm", FactoryReset PROVE IInv'
<1>1. Fine(ui, topology) /\ ~InWorkspace(ui) /\ Kept(ui)
  BY UiIsKept DEF IInv, InWorkspace
<1>2. CASE Go(Open(ui, "Info", 5)) /\ Stay
  <2> DEFINE v == Open(ui, "Info", 5)
  <2>1. Go(v) /\ UNCHANGED <<topology, mode, unsaved>>
    BY <1>2 DEF Stay, world
  <2>2. Kept(v) /\ v.recording = ui.recording /\ v.exit = ui.exit /\ v.screen = "Settings" /\ v.page = "Info"
    BY <1>1, PageOpened
  <2> HIDE DEF v
  <2> QED
    BY <1>1, <2>1, <2>2, Elsewhere, GoneOutside DEF IInv, InWorkspace
<1>3. CASE /\ Go([ui EXCEPT !.screen = "Performance", !.channel = 0, !.cursor = 0, !.editing = FALSE])
           /\ topology' = "UnifiedClock" /\ mode' = [c \in Channels |-> "Clock"] /\ unsaved' = unsaved
  <2> DEFINE v == [ui EXCEPT !.screen = "Performance", !.channel = 0, !.cursor = 0, !.editing = FALSE]
  <2>1. 0 \in Channels
    BY DEF Channels, UserInterfaceAssumption
  <2>2. /\ DOMAIN v = Fields /\ v.screen = "Performance" /\ v.channel \in Channels
        /\ \A f \in Fields \ {"screen", "channel", "cursor", "presetSlot", "editing"} : v[f] = ui[f]
    BY <1>1, <2>1 DEF Fine, Returns, Fields
  <2>3. Go(v) /\ topology' \in Topologies /\ mode' \in [Channels -> Modes] /\ unsaved' = unsaved
    BY <1>3 DEF Topologies, Modes
  <2> HIDE DEF v
  <2> QED
    BY <1>1, <2>2, <2>3, PerformanceMoves, GoneOutside
<1> QED
  BY <1>2, <1>3 DEF FactoryReset

-----------------------------------------------------------------------------
(* Lists of grooves and the workspace. *)

LEMMA ChooseGrooveMoves ==
  ASSUME Fine(ui, topology), ui.screen = "GrooveSlots", ui.grooveAction # "LoadEditor"
  PROVE  Moved(ChooseGroove(ui), topology)
<1> DEFINE v == ChooseGroove(ui)
<1>1. Kept(ui) /\ ~ui.recording
  BY UiIsKept DEF Fine, Owned
<1>2. CASE ui.grooveAction \in {"Rename", "Delete", "Activate"}
  <2>1. ~InWorkspace(ui)
    BY <1>2 DEF InWorkspace
  <2> DEFINE chosen == [ui EXCEPT !.grooveSlot = ui.cursor]
  <2>2. /\ Kept(chosen) /\ chosen.recording = ui.recording /\ chosen.exit = ui.exit
        /\ chosen.screen = ui.screen /\ chosen.grooveAction = ui.grooveAction
    BY <1>1 DEF Kept, Placed, Fields
  <2>3. \/ v = chosen \/ v = Open(chosen, "Groove", 3)
        \/ v = [chosen EXCEPT !.screen = "GrooveNameEntry", !.char = 0] /\ ui.grooveAction = "Rename"
        \/ v = Ask(chosen, "GrooveDeleteConfirm") /\ ui.grooveAction = "Delete"
    BY <1>2 DEF ChooseGroove
  <2> HIDE DEF v, chosen
  <2>4. Kept(v) /\ v.recording = ui.recording /\ v.exit = ui.exit
        /\ \/ v.screen = "Settings" /\ v.page = "Groove"
           \/ v.screen = "GrooveSlots" /\ v.grooveAction = ui.grooveAction
           \/ v.screen = "GrooveNameEntry" /\ v.grooveAction = "Rename" /\ ui.grooveAction = "Rename"
           \/ v.screen = "GrooveDeleteConfirm" /\ v.grooveAction = "Delete" /\ ui.grooveAction = "Delete"
    <3>1. CASE v = chosen
      BY <2>2, <3>1
    <3>2. CASE v = Open(chosen, "Groove", 3)
      BY <2>2, <3>2, PageOpened
    <3>3. CASE v = [chosen EXCEPT !.screen = "GrooveNameEntry", !.char = 0] /\ ui.grooveAction = "Rename"
      BY <2>2, <3>3 DEF Kept, Placed, Fields, ScreenNames
    <3>4. CASE v = Ask(chosen, "GrooveDeleteConfirm") /\ ui.grooveAction = "Delete"
      BY <2>2, <3>4 DEF Kept, Placed, Fields, ScreenNames, Ask
    <3> QED
      BY <2>3, <3>1, <3>2, <3>3, <3>4
  <2>5. ~InWorkspace(v)
    BY <1>2, <2>4 DEF InWorkspace
  <2> QED
    BY <2>1, <2>4, <2>5, OutsideMoves DEF v
<1>3. CASE ui.grooveAction = "Save"
  <2>1. /\ Kept(v) /\ v.recording = ui.recording /\ v.exit = ui.exit /\ v.channel = ui.channel
        /\ v.screen \in {"GrooveNameEntry", "GrooveOverwriteConfirm"} /\ v.grooveAction = "Save"
    BY <1>1, <1>3 DEF ChooseGroove, Ask, Kept, Placed, Fields, ScreenNames
  <2>2. InWorkspace(ui) /\ InWorkspace(v) /\ ~LoadList(v)
    BY <1>3, <2>1 DEF InWorkspace, LoadList
  <2> HIDE DEF v
  <2> QED
    BY <1>1, <2>1, <2>2, InsideMoves DEF v
<1> QED
  BY <1>2, <1>3 DEF Fine, Returns, GrooveActions

\* A save that succeeds leaves, one that fails goes back to the editor.
LEMMA SaveGrooveKeeps ==
  ASSUME IInv, ui.screen \in {"GrooveNameEntry", "GrooveOverwriteConfirm"},
         ui.grooveAction = "Save", SaveGroove
  PROVE  IInv'
<1>1. Fine(ui, topology) /\ InWorkspace(ui) /\ Kept(ui) /\ ~ui.recording
  BY UiIsKept DEF IInv, InWorkspace, Fine, Owned
<1>2. CASE Go(LeaveWorkspace(ui)) /\ unsaved' = FALSE /\ UNCHANGED <<topology, mode>>
  BY <1>1, <1>2, LeavingMoves, Gone DEF IInv
<1>3. CASE Go([ui EXCEPT !.screen = ui.workspace]) /\ Stay
  <2> DEFINE v == [ui EXCEPT !.screen = ui.workspace]
  <2>1. Go(v) /\ UNCHANGED <<topology, mode, unsaved>>
    BY <1>3 DEF Stay, world
  <2>2. /\ Kept(v) /\ v.recording = ui.recording /\ v.exit = ui.exit /\ v.channel = ui.channel
        /\ v.screen \in Workspaces
    BY <1>1 DEF Kept, Placed, Fields, ScreenNames, Workspaces
  <2>3. InWorkspace(v) /\ ~LoadList(v)
    BY <2>2 DEF InWorkspace, LoadList, Workspaces
  <2> HIDE DEF v
  <2> QED
    BY <1>1, <2>1, <2>2, <2>3, InsideMoves, Strolled DEF Workspaces
<1> QED
  BY <1>2, <1>3 DEF SaveGroove
\* Loading a groove replaces the draft, in the list of the workspace.
LEMMA LoadGrooveKeeps ==
  ASSUME IInv, LoadList(ui), LoadGroove
  PROVE  IInv'
<1>1. Fine(ui, topology) /\ InWorkspace(ui) /\ Kept(ui) /\ ~ui.recording /\ ui.dirty = FALSE
  BY UiIsKept DEF IInv, InWorkspace, Fine, Owned, LoadList
<1>2. CASE ui.cursor \in grooves
  <2> DEFINE v == [ui EXCEPT !.screen = ui.workspace, !.dirty = FALSE, !.recording = FALSE,
                             !.preview = @ \cup Previewed(ui)]
  <2>1. Go(v) /\ unsaved' = FALSE /\ UNCHANGED <<topology, mode>>
    BY <1>2 DEF LoadGroove, world
  <2>2. ui.preview \cup Previewed(ui) = ui.preview
    BY <1>1 DEF Fine, Owned, Previewed, Reached
  <2>3. /\ Kept(v) /\ v.recording = FALSE /\ v.exit = ui.exit /\ v.channel = ui.channel
        /\ v.screen \in Workspaces
    BY <1>1, <2>2 DEF Kept, Placed, Fields, ScreenNames, Workspaces
  <2>4. InWorkspace(v) /\ ~LoadList(v)
    BY <2>3 DEF InWorkspace, LoadList, Workspaces
  <2> HIDE DEF v
  <2>5. Moved(v, topology)
    BY <1>1, <2>3, <2>4, InsideMoves DEF Workspaces
  <2> QED
    BY <2>1, <2>5, Gone DEF Moved, IInv
<1>3. CASE ui.cursor \notin grooves
  BY <1>3, Unmoved DEF LoadGroove, Stay, world
<1> QED
  BY <1>2, <1>3

\* Back in the list of the stored grooves.
LEMMA ListAgainMoves ==
  ASSUME Fine(ui, topology),
         ui.screen \in {"GrooveNameEntry", "GrooveOverwriteConfirm", "GrooveDeleteConfirm"}
  PROVE  Moved([ui EXCEPT !.screen = "GrooveSlots", !.cursor = ui.grooveSlot], topology)
<1> DEFINE v == [ui EXCEPT !.screen = "GrooveSlots", !.cursor = ui.grooveSlot]
<1>1. Kept(ui) /\ ~ui.recording /\ ui.grooveAction \in {"Save", "Rename", "Delete"}
  BY UiIsKept DEF Fine, Returns, Owned
<1>2. /\ Kept(v) /\ v.recording = ui.recording /\ v.exit = ui.exit /\ v.channel = ui.channel
      /\ v.screen = "GrooveSlots" /\ v.grooveAction = ui.grooveAction
  BY <1>1 DEF Kept, Placed, Fields, ScreenNames
<1> HIDE DEF v
<1>3. InWorkspace(v) = InWorkspace(ui) /\ ~LoadList(v)
  BY <1>1, <1>2 DEF InWorkspace, LoadList, Fine, Returns
<1> QED
  BY <1>1, <1>2, <1>3, OutsideMoves, InsideMoves DEF v

LEMMA RenameGrooveKeeps ==
  ASSUME IInv, ui.screen = "GrooveNameEntry", RenameGroove
  PROVE  IInv'
<1>1. CASE Go([ui EXCEPT !.screen = "GrooveSlots", !.cursor = ui.grooveSlot]) /\ Stay
  BY <1>1, ListAgainMoves, Strolled DEF IInv, Stay, world
<1>2. CASE UNCHANGED <<ui, agreed>> /\ Stay
  BY <1>2, Unmoved DEF Stay, world
<1> QED
  BY <1>1, <1>2 DEF RenameGroove

LEMMA RemoveGrooveKeeps ==
  ASSUME IInv, ui.screen = "GrooveDeleteConfirm", RemoveGroove
  PROVE  IInv'
<1>1. /\ Go([ui EXCEPT !.screen = "GrooveSlots", !.cursor = ui.grooveSlot])
      /\ UNCHANGED <<topology, mode, unsaved>>
  BY DEF RemoveGroove
<1> QED
  BY <1>1, ListAgainMoves, Strolled DEF IInv

LEMMA ClearHighScoresKeeps ==
  ASSUME IInv, ui.screen = "HighScoreClearConfirm", ClearHighScores
  PROVE  IInv'
<1> DEFINE v == Open(ui, "Root", 4)
<1>1. Fine(ui, topology) /\ ~InWorkspace(ui) /\ Kept(ui)
  BY UiIsKept DEF IInv, InWorkspace
<1>2. Go(v) /\ UNCHANGED <<topology, mode, unsaved>>
  BY DEF ClearHighScores, Stay, world
<1>3. /\ Kept(v) /\ v.recording = ui.recording /\ v.exit = ui.exit /\ v.screen = "Settings"
      /\ v.page = "Root"
  BY <1>1, PageOpened
<1> HIDE DEF v
<1> QED
  BY <1>1, <1>2, <1>3, Elsewhere, GoneOutside DEF IInv, InWorkspace

\* YES in DISCARD CHANGES? is the only step that gives up edits without a save.
LEMMA DiscardKeeps ==
  ASSUME IInv, ui.screen = "GrooveDiscardConfirm", Discard
  PROVE  IInv'
<1>1. Fine(ui, topology) /\ InWorkspace(ui) /\ Kept(ui) /\ ~ui.recording
  BY UiIsKept DEF IInv, InWorkspace, Fine, Owned
<1>2. unsaved' = FALSE /\ UNCHANGED <<topology, mode>>
  BY DEF Discard, world
<1>3. CASE ui.loading
  <2> DEFINE given == [ui EXCEPT !.dirty = FALSE, !.loading = FALSE]
             v == OpenGrooveSlots(given, "LoadEditor")
  <2>1. Go(v)
    BY <1>3 DEF Discard
  <2>2. /\ DOMAIN v = Fields /\ v.screen = "GrooveSlots" /\ v.grooveAction = "LoadEditor"
        /\ v.dirty = FALSE /\ v.preview = ui.preview /\ v.recording = ui.recording
        /\ v.exit = ui.exit /\ v.workspace = ui.workspace /\ v.modeReturn = ui.modeReturn
        /\ v.channel = ui.channel /\ v.pending = ui.pending
    BY <1>1 DEF OpenGrooveSlots, Kept, Fields
  <2> HIDE DEF v
  <2>3. InWorkspace(v)
    BY <2>2 DEF InWorkspace
  <2>4. Returns(v)
    BY <1>1, <2>2, <2>3 DEF Fine, Returns, ScreenNames, GrooveActions
  <2>5. Owned(v, topology)
    BY <1>1, <2>2, <2>3 DEF Fine, Owned, Reached
  <2>6. Placed(v)
    BY <1>1, <2>2 DEF Fine, Placed
  <2> QED
    BY <1>2, <2>1, <2>4, <2>5, <2>6, Gone DEF Fine, IInv
<1>4. CASE ~ui.loading
  BY <1>1, <1>2, <1>4, LeavingMoves, Gone DEF Discard, IInv
<1> QED
  BY <1>3, <1>4

\* The NO of a dialog leads where BACK leads.
LEMMA DeclinedMoves ==
  ASSUME UserInterfaceAssumption, Fine(ui, topology), topology \in Topologies,
         mode \in [Channels -> Modes], ui.screen \in Dialogs
  PROVE  Moved(Declined(ui), topology)
<1> DEFINE v == Declined(ui)
<1>1. CASE ui.screen \in {"GrooveOverwriteConfirm", "GrooveDeleteConfirm"}
  <2>1. v = [ui EXCEPT !.screen = "GrooveSlots", !.cursor = ui.grooveSlot]
    BY <1>1 DEF Declined
  <2> QED
    BY <1>1, <2>1, ListAgainMoves
<1>2. CASE ui.screen \in {"ModeChangeConfirm", "HighScoreClearConfirm", "FactoryResetConfirm"}
  <2>1. v = Back(ui)
    BY <1>2 DEF Declined, Back
  <2> QED
    BY <2>1, BackMoves
<1>3. CASE ui.screen = "OverwriteConfirm"
  <2>1. Kept(ui) /\ ~InWorkspace(ui)
    BY <1>3, UiIsKept DEF InWorkspace
  <2>2. v = [ui EXCEPT !.screen = "PresetSlots", !.cursor = ui.presetSlot]
    BY <1>3 DEF Declined
  <2>3. Kept(v) /\ v.recording = ui.recording /\ v.exit = ui.exit /\ v.screen = "PresetSlots"
    BY <2>1, <2>2 DEF Kept, Placed, Fields, ScreenNames
  <2> HIDE DEF v
  <2> QED
    BY <2>1, <2>3, OutsideMoves DEF v, InWorkspace
<1>4. CASE ui.screen = "GrooveDiscardConfirm"
  <2>1. Kept(ui) /\ InWorkspace(ui) /\ ~ui.recording
    BY <1>4, UiIsKept DEF InWorkspace, Fine, Owned
  <2>2. v = [ui EXCEPT !.screen = ui.workspace, !.loading = FALSE]
    BY <1>4 DEF Declined
  <2>3. /\ Kept(v) /\ v.recording = ui.recording /\ v.exit = ui.exit /\ v.channel = ui.channel
        /\ v.screen \in Workspaces
    BY <2>1, <2>2 DEF Kept, Placed, Fields, ScreenNames, Workspaces
  <2>4. InWorkspace(v) /\ ~LoadList(v)
    BY <2>3 DEF InWorkspace, LoadList, Workspaces
  <2> HIDE DEF v
  <2> QED
    BY <2>1, <2>3, <2>4, InsideMoves DEF v, Workspaces
<1> QED
  BY <1>1, <1>2, <1>3, <1>4 DEF Dialogs
-----------------------------------------------------------------------------
(* Rows of the settings pages. *)

\* A row opens no menu of the workspace.
LEMMA ChildIsNoMenu ==
  ASSUME topology \in Topologies, mode \in [Channels -> Modes], ui.channel \in Channels
  PROVE  Child(ui) \notin Menus /\ OwnPage \notin Menus
<1>1. OwnPage \notin Menus
  BY DEF OwnPage, Topologies, Menus
<1>2. ui.page = "Channel" => Child(ui) \notin Menus
  <2>1. mode[ui.channel] \notin Menus
    BY DEF Modes, Menus
  <2>2. ChannelRow(mode[ui.channel], ui.cursor) \notin Menus
    BY <2>1 DEF ChannelRow, Menus
  <2> QED
    BY <2>2 DEF Child, Menus
<1> QED
  BY <1>1, <1>2 DEF Child, Menus

\* Opening the editor or the recorder: the channels that are edited are heard at once.
LEMMA WorkspaceOpens ==
  ASSUME Fine(ui, topology), ~InWorkspace(ui), NEW w \in Workspaces
  PROVE  Fine(OpenWorkspace(ui, w), topology)
<1> DEFINE v == OpenWorkspace(ui, w)
<1>1. /\ DOMAIN v = Fields /\ v.screen = w /\ v.workspace = w /\ v.dirty = FALSE /\ v.recording = FALSE
      /\ v.preview = ui.preview \cup Previewed(ui) /\ v.exit = ui.exit /\ v.modeReturn = ui.modeReturn
      /\ v.grooveAction = ui.grooveAction /\ v.channel = ui.channel /\ v.pending = ui.pending
  BY DEF OpenWorkspace, Fine, Returns, Fields
<1> HIDE DEF v
<1>2. ui.preview = {} /\ InWorkspace(v) /\ ~LoadList(v)
  BY <1>1 DEF Fine, Owned, InWorkspace, LoadList, Workspaces
<1>3. Returns(v)
  BY <1>1, <1>2 DEF Fine, Returns, Workspaces, ScreenNames
<1>4. Owned(v, topology)
  BY <1>1, <1>2 DEF Owned, Reached, Previewed
<1>5. Placed(v)
  BY <1>1 DEF Fine, Placed, Workspaces
<1> QED
  BY <1>3, <1>4, <1>5 DEF Fine, v

\* The commands of the pages outside the workspace.
LEMMA RowCommandMoves ==
  ASSUME UserInterfaceAssumption, Fine(ui, topology), topology \in Topologies,
         mode \in [Channels -> Modes], ui.screen = "Settings", ui.page \notin Menus
  PROVE  Fine(RowCommand(ui), topology)
<1> DEFINE v == RowCommand(ui)
<1>1. ~InWorkspace(ui) /\ Kept(ui)
  BY UiIsKept DEF InWorkspace, Menus
<1>2. CASE ui.page = "Groove" /\ ui.cursor \notin {3, 6, 7}
  <2>1. \E w \in Workspaces : v = OpenWorkspace(ui, w)
    BY <1>2 DEF RowCommand, OpenGrooveEditor, OpenGrooveRecorder, Workspaces
  <2> QED
    BY <1>1, <2>1, WorkspaceOpens
<1>3. CASE ui.page \in {"Channel", "UnifiedClock", "DividerBank"}
  <2>1. v = OpenModeSelect(ui, "Settings")
    BY <1>3 DEF RowCommand
  <2>2. ModeIndex(ui.channel) \in 0..5
    BY ModeIndexType DEF Fine, Placed
  <2>3. /\ Kept(v) /\ v.recording = ui.recording /\ v.exit = ui.exit /\ v.screen = "ModeSelect"
        /\ v.page = ui.page
    BY <1>1, <2>1, <2>2 DEF OpenModeSelect, Kept, Placed, Fields, ScreenNames
  <2> HIDE DEF v
  <2>4. ~InWorkspace(v)
    BY <2>3 DEF InWorkspace
  <2> QED
    BY <1>1, <2>3, <2>4, OutsideMoves DEF v, Moved
<1>4. CASE /\ ui.page \notin {"Channel", "UnifiedClock", "DividerBank"}
           /\ ~(ui.page = "Groove" /\ ui.cursor \notin {3, 6, 7})
  <2>1. \/ v = ui \/ v = [Ask(ui, "HighScoreClearConfirm") EXCEPT !.editing = FALSE]
        \/ v = [Ask(ui, "FactoryResetConfirm") EXCEPT !.editing = FALSE]
        \/ v = [ui EXCEPT !.screen = "SequencerEditor", !.editing = FALSE]
        \/ v = OpenPresetSlots(ui, "Load") \/ v = OpenPresetSlots(ui, "Save") \/ v = Ask(ui, "Templates")
        \/ \E action \in {"Activate", "Rename", "Delete"} : v = OpenGrooveSlots(ui, action)
    <3>1. CASE ui.page = "Groove"
      <4>1. v = OpenGrooveSlots(ui, CASE ui.cursor = 3 -> "Activate" [] ui.cursor = 6 -> "Rename"
                                      [] OTHER -> "Delete")
        BY <1>4, <3>1 DEF RowCommand
      <4>2. (CASE ui.cursor = 3 -> "Activate" [] ui.cursor = 6 -> "Rename" [] OTHER -> "Delete")
              \in {"Activate", "Rename", "Delete"}
        <5>1. CASE ui.cursor = 3
          BY <5>1
        <5>2. CASE ui.cursor # 3
          BY <5>2
        <5> QED
          BY <5>1, <5>2
      <4> HIDE DEF v
      <4> QED
        BY <4>1, <4>2
    <3>2. CASE ui.page = "Preferences"
      <4>1. \/ v = ui \/ v = Ask(ui, "Templates")
            \/ \E action \in {"Load", "Save"} : v = OpenPresetSlots(ui, action)
        BY <3>2 DEF RowCommand
      <4> QED
        BY <4>1
    <3>3. CASE ui.page \notin {"Groove", "Preferences"}
      BY <1>4, <3>3 DEF RowCommand, Menus
    <3> QED
      BY <3>1, <3>2, <3>3
  <2>2. CASE v = ui
    BY <2>2
  <2>3. CASE v # ui
    <3> HIDE DEF v
    <3>1. /\ Kept(v) /\ v.recording = ui.recording /\ v.exit = ui.exit
          /\ \/ v.screen \in {"HighScoreClearConfirm", "FactoryResetConfirm", "SequencerEditor",
                              "PresetSlots", "Templates"}
             \/ v.screen = "GrooveSlots" /\ v.grooveAction \in {"Activate", "Rename", "Delete"}
      <4>1. CASE v = [ui EXCEPT !.screen = "SequencerEditor", !.editing = FALSE]
        BY <1>1, <4>1 DEF Kept, Placed, Fields, ScreenNames
      <4>2. CASE v = OpenPresetSlots(ui, "Load") \/ v = OpenPresetSlots(ui, "Save")
        BY <1>1, <4>2 DEF OpenPresetSlots, Kept, Placed, Fields, ScreenNames
      <4>3. CASE v = Ask(ui, "Templates")
        BY <1>1, <4>3 DEF Ask, Kept, Placed, Fields, ScreenNames
      <4>4. CASE \E action \in {"Activate", "Rename", "Delete"} : v = OpenGrooveSlots(ui, action)
        BY <1>1, <4>4 DEF OpenGrooveSlots, Kept, Placed, Fields, ScreenNames, GrooveActions
      <4>5. CASE v = [Ask(ui, "HighScoreClearConfirm") EXCEPT !.editing = FALSE]
        BY <1>1, <4>5 DEF Ask, Kept, Placed, Fields, ScreenNames
      <4>6. CASE v = [Ask(ui, "FactoryResetConfirm") EXCEPT !.editing = FALSE]
        BY <1>1, <4>6 DEF Ask, Kept, Placed, Fields, ScreenNames
      <4> QED
        BY <2>1, <2>3, <4>1, <4>2, <4>3, <4>4, <4>5, <4>6
    <3>2. ~InWorkspace(v)
      BY <3>1 DEF InWorkspace
    <3> QED
      BY <1>1, <3>1, <3>2, Elsewhere DEF v, Outside, Moved
  <2> QED
    BY <2>2, <2>3
<1> QED
  BY <1>2, <1>3, <1>4

\* SAVE and LOAD of the editor's menu: a LOAD over an edited draft is asked for first.
LEMMA EditorMenuMoves ==
  ASSUME Fine(ui, topology), ui.screen = "Settings", ui.page = "GrooveEditorMenu"
  PROVE  Moved(ActivateEditorMenu(ui), topology)
<1> DEFINE v == ActivateEditorMenu(ui)
<1>1. Kept(ui) /\ InWorkspace(ui) /\ ~ui.recording /\ ui.dirty \in BOOLEAN
  BY UiIsKept DEF InWorkspace, Fine, Owned
<1>2. /\ Kept(v) /\ v.recording = ui.recording /\ v.exit = ui.exit /\ v.channel = ui.channel
      /\ \/ v.screen = "GrooveSlots" /\ v.grooveAction = "Save"
         \/ v.screen = "GrooveDiscardConfirm"
         \/ v.screen = "GrooveSlots" /\ v.grooveAction = "LoadEditor" /\ ~ui.dirty
  <2>1. CASE ui.cursor = 0
    BY <1>1, <2>1 DEF ActivateEditorMenu, OpenGrooveSlots, Kept, Placed, Fields, ScreenNames, GrooveActions
  <2>2. CASE ui.cursor # 0 /\ ui.dirty
    BY <1>1, <2>2 DEF ActivateEditorMenu, Ask, Kept, Placed, Fields, ScreenNames
  <2>3. CASE ui.cursor # 0 /\ ~ui.dirty
    BY <1>1, <2>3 DEF ActivateEditorMenu, OpenGrooveSlots, Kept, Placed, Fields, ScreenNames, GrooveActions
  <2> QED
    BY <2>1, <2>2, <2>3
<1> HIDE DEF v
<1>3. InWorkspace(v) /\ (~LoadList(v) \/ ~ui.dirty)
  BY <1>2 DEF InWorkspace, LoadList
<1> QED
  BY <1>1, <1>2, <1>3, InsideMoves DEF v

\* SAVE, EDITOR and CLEAR of the recorder's menu.
LEMMA RecordMenuMoves ==
  ASSUME Fine(ui, topology), ui.screen = "Settings", ui.page = "GrooveRecordMenu"
  PROVE  LET v == ActivateRecordMenu(ui)
         IN Moved(v, topology) /\ (ui.cursor = 6 => v.dirty)
<1> DEFINE v == ActivateRecordMenu(ui)
<1>1. Kept(ui) /\ InWorkspace(ui) /\ ~ui.recording /\ ui.dirty \in BOOLEAN
  BY UiIsKept DEF InWorkspace, Fine, Owned
<1>2. CASE ui.cursor \in {4, 5}
  <2>1. /\ Kept(v) /\ v.recording \in {FALSE, ui.recording} /\ v.exit = ui.exit /\ v.channel = ui.channel
        /\ \/ v.screen = "GrooveSlots" /\ v.grooveAction = "Save"
           \/ v.screen = "GrooveEditor"
    <3>1. CASE ui.cursor = 4
      <4>1. v = OpenGrooveSlots(ui, "Save")
        BY <3>1 DEF ActivateRecordMenu
      <4> HIDE DEF v
      <4> QED
        BY <1>1, <4>1 DEF OpenGrooveSlots, Kept, Placed, Fields, ScreenNames, GrooveActions
    <3>2. CASE ui.cursor = 5
      <4>1. v = [ui EXCEPT !.screen = "GrooveEditor", !.workspace = "GrooveEditor",
                           !.recording = FALSE, !.cursor = 0, !.editing = FALSE]
        BY <3>2 DEF ActivateRecordMenu
      <4> HIDE DEF v
      <4> QED
        BY <1>1, <4>1 DEF Kept, Placed, Fields, ScreenNames, Workspaces
    <3> QED
      BY <1>2, <3>1, <3>2
  <2> HIDE DEF v
  <2>2. InWorkspace(v) /\ ~LoadList(v)
    BY <2>1 DEF InWorkspace, LoadList
  <2>3. Moved(v, topology)
    BY <1>1, <2>1, <2>2, InsideMoves
  <2> QED
    BY <1>2, <2>3 DEF v
<1>3. CASE ui.cursor \notin {4, 5}
  <2>1. v = [ui EXCEPT !.screen = "GrooveRecorder", !.dirty = TRUE, !.editing = FALSE,
                       !.preview = @ \cup Previewed(ui)]
    BY <1>3 DEF ActivateRecordMenu
  <2>2. /\ DOMAIN v = Fields /\ v.screen = "GrooveRecorder" /\ v.dirty = TRUE
        /\ v.preview = ui.preview \cup Previewed(ui) /\ v.recording = ui.recording
        /\ v.exit = ui.exit /\ v.workspace = ui.workspace /\ v.modeReturn = ui.modeReturn
        /\ v.grooveAction = ui.grooveAction /\ v.channel = ui.channel /\ v.pending = ui.pending
    BY <1>1, <2>1 DEF Kept, Fields
  <2> HIDE DEF v
  <2>3. InWorkspace(v) /\ ~LoadList(v)
    BY <2>2 DEF InWorkspace, LoadList
  <2>4. Returns(v)
    BY <1>1, <2>2, <2>3 DEF Fine, Returns, ScreenNames
  <2>5. Owned(v, topology)
    BY <1>1, <2>2, <2>3 DEF Fine, Owned, Reached, Previewed
  <2>6. Placed(v)
    BY <2>2 DEF Fine, Placed
  <2> QED
    BY <2>2, <2>4, <2>5, <2>6 DEF Moved, Fine, v
<1> QED
  BY <1>2, <1>3
LEMMA ActivateRowKeeps ==
  ASSUME UserInterfaceAssumption, IInv, ui.screen = "Settings", ActivateRow
  PROVE  IInv'
<1>1. /\ Fine(ui, topology) /\ Kept(ui) /\ ui.channel \in Channels /\ ~ui.recording
      /\ topology \in Topologies /\ mode \in [Channels -> Modes]
      /\ unsaved \in BOOLEAN /\ (unsaved => ui.dirty)
  BY UiIsKept DEF IInv, Fine, Placed, Owned
<1>2. CASE Go([ui EXCEPT !.editing = ~@]) /\ Stay
  <2> DEFINE v == [ui EXCEPT !.editing = ~@]
  <2>1. Go(v) /\ UNCHANGED <<topology, mode, unsaved>>
    BY <1>2 DEF Stay, world
  <2>2. /\ Kept(v) /\ v.screen = ui.screen /\ v.page = ui.page
        /\ v.grooveAction = ui.grooveAction /\ v.exit = ui.exit /\ v.recording = ui.recording
        /\ v.channel = ui.channel
    BY <1>1 DEF Kept, Placed, Fields
  <2> HIDE DEF v
  <2> QED
    BY <1>1, <2>1, <2>2, OnTheScreen, Strolled
<1>3. CASE /\ Child(ui) # "" /\ Stay
           /\ Go(Open([ui EXCEPT !.exit = IF ui.page = "Root" /\ ui.cursor = 1 THEN "Settings" ELSE @],
                      Child(ui), 0))
  <2>1. ui.page \notin Menus
    BY <1>3 DEF Child, Menus
  <2> DEFINE u == [ui EXCEPT !.exit = IF ui.page = "Root" /\ ui.cursor = 1 THEN "Settings" ELSE @]
             v == Open(u, Child(ui), 0)
  <2>2. Go(v) /\ UNCHANGED <<topology, mode, unsaved>>
    BY <1>3 DEF Stay, world
  <2>3. Kept(u) /\ u.recording = ui.recording /\ u.exit \in {ui.exit, "Settings"}
    BY <1>1 DEF Kept, Placed, Fields
  <2> HIDE DEF u
  <2>4. /\ Kept(v) /\ v.recording = ui.recording /\ v.exit \in {ui.exit, "Settings"}
        /\ v.screen = "Settings" /\ v.page \notin Menus
    BY <1>1, <2>3, PageOpened, ChildIsNoMenu
  <2> HIDE DEF v
  <2>5. ~InWorkspace(ui) /\ ~InWorkspace(v)
    BY <2>1, <2>4 DEF InWorkspace, Menus
  <2> QED
    BY <1>1, <2>2, <2>4, <2>5, Elsewhere, GoneOutside
<1>4. CASE /\ Go(RowCommand(ui)) /\ UNCHANGED world
           /\ unsaved' = (unsaved \/ (ui.page = "GrooveRecordMenu" /\ ui.cursor = 6))
  <2>1. UNCHANGED <<topology, mode>>
    BY <1>4 DEF world
  <2>2. CASE ui.page \notin Menus
    <3>1. ~ui.dirty
      BY <1>1, <2>2 DEF Fine, Owned, InWorkspace, Menus
    <3>2. unsaved' = FALSE
      BY <1>1, <1>4, <2>2, <3>1 DEF Menus
    <3> QED
      BY <1>1, <1>4, <2>1, <2>2, <3>2, RowCommandMoves, Gone
  <2>3. CASE ui.page = "GrooveEditorMenu"
    <3>1. RowCommand(ui) = ActivateEditorMenu(ui) /\ unsaved' = unsaved
      BY <1>1, <1>4, <2>3 DEF RowCommand
    <3> QED
      BY <1>1, <1>4, <2>1, <2>3, <3>1, EditorMenuMoves, Strolled
  <2>4. CASE ui.page = "GrooveRecordMenu"
    <3>1. RowCommand(ui) = ActivateRecordMenu(ui)
      BY <2>4 DEF RowCommand
    <3>2. unsaved' \in BOOLEAN /\ (unsaved' => unsaved \/ ui.cursor = 6)
      BY <1>4, <1>1
    <3>3. Moved(ActivateRecordMenu(ui), topology) /\ (ui.cursor = 6 => ActivateRecordMenu(ui).dirty)
      BY <1>1, <2>4, RecordMenuMoves
    <3> QED
      BY <1>1, <1>4, <2>1, <3>1, <3>2, <3>3, Gone DEF Moved
  <2> QED
    BY <2>2, <2>3, <2>4 DEF Menus
<1>5. CASE /\ ui.page \in {"Support", "Licenses", "Info"} /\ Stay
           /\ Go([ui EXCEPT !.screen = "InformationPopover", !.editing = FALSE])
  <2> DEFINE v == [ui EXCEPT !.screen = "InformationPopover", !.editing = FALSE]
  <2>1. Go(v) /\ UNCHANGED <<topology, mode, unsaved>>
    BY <1>5 DEF Stay, world
  <2>2. /\ Kept(v) /\ v.recording = ui.recording /\ v.exit = ui.exit /\ v.screen = "InformationPopover"
        /\ v.page = ui.page
    BY <1>1 DEF Kept, Placed, Fields, ScreenNames
  <2> HIDE DEF v
  <2>3. ~InWorkspace(ui) /\ ~InWorkspace(v) /\ v.page \notin Menus
    BY <1>5, <2>2 DEF InWorkspace, Menus
  <2>4. Moved(v, topology)
    BY <1>1, <2>2, <2>3, OutsideMoves
  <2> QED
    BY <2>1, <2>4, Strolled
<1> QED
  BY <1>2, <1>3, <1>4, <1>5 DEF ActivateRow

-----------------------------------------------------------------------------
(* The button of the encoder. *)

\* The next character of a name.
LEMMA NextCharacterKeeps ==
  ASSUME IInv, NEW v, v = [ui EXCEPT !.char = @ + 1], Go(v), Stay
  PROVE  IInv'
<1>1. Fine(ui, topology) /\ Kept(ui)
  BY UiIsKept DEF IInv
<1>2. /\ Kept(v) /\ v.screen = ui.screen /\ v.page = ui.page
      /\ v.grooveAction = ui.grooveAction /\ v.exit = ui.exit /\ v.recording = ui.recording
      /\ v.channel = ui.channel
  BY <1>1 DEF Kept, Placed, Fields
<1>3. UNCHANGED <<topology, mode, unsaved>>
  BY DEF Stay, world
<1> QED
  BY <1>1, <1>2, <1>3, OnTheScreen, Strolled

LEMMA NameEntered ==
  ASSUME IInv, ui.screen = "GrooveNameEntry",
         IF ui.grooveAction = "Rename" THEN RenameGroove ELSE SaveGroove
  PROVE  IInv'
<1>1. ui.grooveAction \in {"Save", "Rename"}
  BY DEF IInv, Fine, Returns
<1> QED
  BY <1>1, RenameGrooveKeeps, SaveGrooveKeeps
\* Editing or not, a screen stays what it is.
LEMMA EditingKeeps ==
  ASSUME IInv, NEW e, Go([ui EXCEPT !.editing = e]), Stay
  PROVE  IInv'
<1> DEFINE v == [ui EXCEPT !.editing = e]
<1>1. Fine(ui, topology) /\ Kept(ui)
  BY UiIsKept DEF IInv
<1>2. /\ Kept(v) /\ v.screen = ui.screen /\ v.page = ui.page
      /\ v.grooveAction = ui.grooveAction /\ v.exit = ui.exit /\ v.recording = ui.recording
      /\ v.channel = ui.channel
  BY <1>1 DEF Kept, Placed, Fields
<1>3. Go(v) /\ UNCHANGED <<topology, mode, unsaved>>
  BY DEF Stay, world
<1> HIDE DEF v
<1> QED
  BY <1>1, <1>2, <1>3, OnTheScreen, Strolled

\* From the performance screen, a popover and a question, outside the workspace.
LEMMA OneScreenOn ==
  ASSUME IInv, NEW v, Go(v), Stay,
         \/ /\ ui.screen = "Performance"
            /\ v = [ui EXCEPT !.screen = "ChannelQuickSelect", !.cursor = ui.channel, !.editing = FALSE]
         \/ ui.screen = "InformationPopover" /\ v = [ui EXCEPT !.screen = "Settings"]
         \/ ui.screen = "OverwriteConfirm" /\ v = [ui EXCEPT !.screen = "NameEntry", !.char = 0]
  PROVE  IInv'
<1>1. /\ Fine(ui, topology) /\ Kept(ui) /\ ~InWorkspace(ui) /\ ui.channel \in Channels
      /\ ui.screen = "InformationPopover" => ui.page \notin Menus
      /\ topology \in Topologies /\ mode \in [Channels -> Modes]
  BY UiIsKept DEF IInv, Fine, Placed, Returns, InWorkspace
<1>2. UNCHANGED <<topology, mode, unsaved>>
  BY DEF Stay, world
<1>3. /\ Kept(v) /\ v.recording = ui.recording /\ v.exit = ui.exit /\ v.page = ui.page
      /\ \/ v.screen \in {"ChannelQuickSelect", "NameEntry"}
         \/ v.screen = "Settings" /\ v.page \notin Menus
  <2>1. CASE ui.screen = "Performance"
    BY <1>1, <2>1 DEF Kept, Placed, Fields, ScreenNames
  <2>2. CASE ui.screen = "InformationPopover"
    BY <1>1, <2>2 DEF Kept, Placed, Fields, ScreenNames
  <2>3. CASE ui.screen = "OverwriteConfirm"
    BY <1>1, <2>3 DEF Kept, Placed, Fields, ScreenNames
  <2> QED
    BY <2>1, <2>2, <2>3
<1>4. ~InWorkspace(v)
  BY <1>3 DEF InWorkspace, Menus
<1> QED
  BY <1>1, <1>2, <1>3, <1>4, Elsewhere, GoneOutside

LEMMA ShortPressKeeps == ASSUME UserInterfaceAssumption, IInv, ShortPress PROVE IInv'
<1>0. /\ Fine(ui, topology) /\ topology \in Topologies /\ mode \in [Channels -> Modes]
      /\ ui.screen \in {"GrooveOverwriteConfirm"} => ui.grooveAction = "Save"
  BY DEF IInv, Fine, Returns
<1>1. Stay => UNCHANGED <<topology, mode, unsaved>>
  BY DEF Stay, world
<1>2. CASE ui.screen \in {"Performance", "InformationPopover", "OverwriteConfirm"} /\ Stay
           /\ \/ /\ ui.screen = "Performance"
                 /\ Go([ui EXCEPT !.screen = "ChannelQuickSelect", !.cursor = ui.channel, !.editing = FALSE])
              \/ ui.screen = "InformationPopover" /\ Go([ui EXCEPT !.screen = "Settings"])
              \/ ui.screen = "OverwriteConfirm" /\ Go([ui EXCEPT !.screen = "NameEntry", !.char = 0])
  BY <1>2, OneScreenOn
<1>3. CASE ui.screen = "ModeSelect" /\ Go(CommitMode(ui)) /\ Stay
  BY <1>0, <1>1, <1>3, CommitModeMoves, GoneOutside
<1>4. CASE ui.screen = "PresetSlots" /\ Go(ChoosePreset(ui)) /\ Stay
  BY <1>0, <1>1, <1>4, ChoosePresetMoves, GoneOutside
<1>5. CASE ui.screen = "NameEntry" /\ (IF ui.char < NameLength - 1 THEN Go([ui EXCEPT !.char = @ + 1]) /\ Stay
                                       ELSE SavePreset)
  BY <1>5, NextCharacterKeeps, SavePresetKeeps
<1>6. CASE /\ ui.screen = "GrooveSlots"
           /\ IF ui.grooveAction = "LoadEditor" THEN LoadGroove ELSE Go(ChooseGroove(ui)) /\ Stay
  <2>1. CASE ui.grooveAction = "LoadEditor"
    BY <1>6, <2>1, LoadGrooveKeeps DEF LoadList
  <2>2. CASE ui.grooveAction # "LoadEditor"
    BY <1>0, <1>1, <1>6, <2>2, ChooseGrooveMoves, Strolled
  <2> QED
    BY <2>1, <2>2
<1>7. CASE /\ ui.screen = "GrooveNameEntry"
           /\ IF ui.char < NameLength - 1 THEN Go([ui EXCEPT !.char = @ + 1]) /\ Stay
              ELSE IF ui.grooveAction = "Rename" THEN RenameGroove ELSE SaveGroove
  BY <1>7, NextCharacterKeeps, NameEntered
<1>8. CASE ui.screen \in Dialogs /\ Go(Declined(ui)) /\ Stay
  BY <1>0, <1>1, <1>8, DeclinedMoves, Strolled
<1>9. CASE ui.screen = "SequencerStepEditor" /\ Stay /\ \E e \in {ui.editing, ~ui.editing} : Go([ui EXCEPT !.editing = e])
  BY <1>9, EditingKeeps
<1>10. CASE ui.screen = "SequencerEditor" /\ Stay
            /\ (IF buttons.tap THEN Go([ui EXCEPT !.screen = "SequencerStepEditor", !.cursor = 0, !.editing = FALSE])
                ELSE UNCHANGED <<ui, agreed>>)
  <2>1. CASE buttons.tap
    <3> DEFINE v == [ui EXCEPT !.screen = "SequencerStepEditor", !.cursor = 0, !.editing = FALSE]
    <3>1. Kept(ui) /\ ~InWorkspace(ui)
      BY <1>0, <1>10, UiIsKept DEF InWorkspace
    <3>2. Kept(v) /\ v.recording = ui.recording /\ v.exit = ui.exit /\ v.screen = "SequencerStepEditor"
      BY <3>1 DEF Kept, Placed, Fields, ScreenNames
    <3>3. Go(v)
      BY <1>10, <2>1
    <3> HIDE DEF v
    <3>4. ~InWorkspace(v)
      BY <3>2 DEF InWorkspace
    <3> QED
      BY <1>0, <1>1, <1>10, <3>1, <3>2, <3>3, <3>4, Elsewhere, GoneOutside
  <2>2. CASE ~buttons.tap
    BY <1>1, <1>10, <2>2, Unmoved
  <2> QED
    BY <2>1, <2>2
<1>11. CASE UNCHANGED <<ui, agreed>> /\ Stay
  BY <1>1, <1>11, Unmoved
<1>12. CASE \/ ui.screen = "ChannelQuickSelect" /\ SelectChannel
            \/ ui.screen = "Settings" /\ ActivateRow
            \/ ui.screen = "Templates" /\ ApplyTemplate
            \/ ui.screen = "PresetSlots" /\ LoadPreset
            \/ ui.screen = "ModeChangeConfirm" /\ ApplyMode
  BY <1>12, SelectChannelKeeps, ActivateRowKeeps, ApplyTemplateKeeps, LoadPresetKeeps, ApplyModeKeeps
<1>13. CASE \/ ui.screen = "HighScoreClearConfirm" /\ ClearHighScores
            \/ ui.screen = "FactoryResetConfirm" /\ FactoryReset
            \/ ui.screen = "GrooveOverwriteConfirm" /\ SaveGroove
            \/ ui.screen = "GrooveDeleteConfirm" /\ RemoveGroove
            \/ ui.screen = "GrooveDiscardConfirm" /\ Discard
  BY <1>0, <1>13, ClearHighScoresKeeps, FactoryResetKeeps, SaveGrooveKeeps, RemoveGrooveKeeps, DiscardKeeps
<1> QED
  BY <1>2, <1>3, <1>4, <1>5, <1>6, <1>7, <1>8, <1>9, <1>10, <1>11, <1>12, <1>13 DEF ShortPress

\* The pages behind a long press. The editor's menu and the recorder's are within the workspace.
LEMMA LongPressedMoves ==
  ASSUME Fine(ui, topology), topology \in Topologies, mode \in [Channels -> Modes],
         ui.screen \in {"GrooveEditor", "GrooveRecorder", "SequencerEditor", "Performance",
                        "ChannelQuickSelect"},
         NEW u, Kept(u), u.screen = ui.screen, u.recording = ui.recording,
         ui.screen # "ChannelQuickSelect" => u.channel = ui.channel
  PROVE  Moved(LongPressed(u), topology)
<1> DEFINE v == LongPressed(u)
<1>1. InWorkspace(ui) <=> ui.screen \in Workspaces
  BY DEF InWorkspace, Workspaces
<1>2. CASE ui.screen \in Workspaces
  <2> DEFINE page == IF ui.screen = "GrooveEditor" THEN "GrooveEditorMenu" ELSE "GrooveRecordMenu"
  <2>1. \E stopped : /\ Kept(stopped) /\ stopped.exit = ui.screen /\ stopped.recording = FALSE
                     /\ stopped.channel = ui.channel /\ v = Open(stopped, page, 0)
    <3>1. CASE ui.screen = "GrooveEditor"
      <4> DEFINE stopped == [u EXCEPT !.exit = "GrooveEditor"]
      <4>1. Kept(stopped) /\ stopped.exit = ui.screen /\ stopped.recording = FALSE
            /\ stopped.channel = ui.channel
        BY <3>1 DEF Kept, Placed, Fields, Fine, Owned
      <4>2. v = Open(stopped, page, 0)
        BY <3>1 DEF LongPressed
      <4> QED
        BY <4>1, <4>2
    <3>2. CASE ui.screen = "GrooveRecorder"
      <4> DEFINE stopped == [u EXCEPT !.exit = "GrooveRecorder", !.recording = FALSE]
      <4>1. Kept(stopped) /\ stopped.exit = ui.screen /\ stopped.recording = FALSE
            /\ stopped.channel = ui.channel
        BY <3>2 DEF Kept, Placed, Fields
      <4>2. v = Open(stopped, page, 0)
        BY <3>2 DEF LongPressed
      <4> QED
        BY <4>1, <4>2
    <3> QED
      BY <1>2, <3>1, <3>2 DEF Workspaces
  <2> HIDE DEF v
  <2>2. /\ Kept(v) /\ v.recording = FALSE /\ v.channel = ui.channel /\ v.screen = "Settings"
        /\ v.page = page /\ v.exit = ui.screen
    BY <2>1, PageOpened
  <2>3. InWorkspace(v) /\ ~LoadList(v)
    BY <2>2 DEF InWorkspace, LoadList
  <2> QED
    BY <1>1, <1>2, <2>2, <2>3, InsideMoves DEF Workspaces, v
<1>3. CASE ui.screen \notin Workspaces
  <2> DEFINE off == [u EXCEPT !.exit = ui.screen]
             page == IF ui.screen = "SequencerEditor" THEN "SequencerPattern" ELSE OwnPage
  <2>1. Kept(off) /\ off.exit = ui.screen /\ off.recording = ui.recording
    BY <1>3 DEF Kept, Placed, Fields, Workspaces
  <2>2. v = Open(off, page, 0)
    BY <1>3 DEF LongPressed, Workspaces
  <2>3. page \notin Menus
    BY ChildIsNoMenu DEF Menus, Fine, Placed
  <2> HIDE DEF off, v, page
  <2>4. /\ Kept(v) /\ v.recording = ui.recording /\ v.screen = "Settings" /\ v.page \notin Menus
        /\ v.exit = ui.screen
    BY <2>1, <2>2, <2>3, PageOpened
  <2>5. ~InWorkspace(v)
    BY <2>4 DEF InWorkspace, Menus
  <2> QED
    BY <1>1, <1>3, <2>4, <2>5, OutsideMoves DEF Workspaces, v
<1> QED
  BY <1>2, <1>3 DEF v

LEMMA LongPressKeeps == ASSUME UserInterfaceAssumption, IInv, LongPress PROVE IInv'
<1>0. /\ Fine(ui, topology) /\ topology \in Topologies /\ mode \in [Channels -> Modes]
      /\ ui.channel \in Channels /\ (ui.screen = "ChannelQuickSelect" => ui.cursor \in Channels)
      /\ Kept(ui)
  BY UiIsKept DEF IInv, Fine, Placed, Returns
<1>1. CASE ui.screen = "NameEntry" /\ SavePreset
  BY <1>1, SavePresetKeeps
<1>2. CASE ui.screen = "GrooveNameEntry" /\ (IF ui.grooveAction = "Rename" THEN RenameGroove ELSE SaveGroove)
  BY <1>2, NameEntered
<1>3. CASE /\ ui.screen \in {"GrooveEditor", "GrooveRecorder", "SequencerEditor", "Performance"}
           /\ Go(LongPressed(ui)) /\ Stay
  <2>1. Moved(LongPressed(ui), topology)
    BY <1>0, <1>3, LongPressedMoves
  <2> QED
    BY <1>3, <2>1, Strolled DEF Stay, world
<1>4. CASE /\ ui.screen = "ChannelQuickSelect"
           /\ \E c \in {ui.cursor, ui.channel} : Go(LongPressed([ui EXCEPT !.channel = c]))
           /\ UNCHANGED <<topology, mode, unsaved>>
  <2>1. PICK c \in {ui.cursor, ui.channel} : Go(LongPressed([ui EXCEPT !.channel = c]))
    BY <1>4
  <2> DEFINE u == [ui EXCEPT !.channel = c]
  <2>2. Kept(u) /\ u.screen = ui.screen /\ u.recording = ui.recording
    BY <1>0, <1>4 DEF Kept, Placed, Fields
  <2> HIDE DEF u
  <2>3. Moved(LongPressed(u), topology)
    BY <1>0, <1>4, <2>2, LongPressedMoves
  <2> QED
    BY <1>4, <2>1, <2>3, Strolled DEF u
<1>5. ui.screen = "ChannelQuickSelect" /\ LongPress =>
        /\ \E c \in {ui.cursor, ui.channel} : Go(LongPressed([ui EXCEPT !.channel = c]))
        /\ UNCHANGED <<topology, mode, unsaved>>
  BY DEF LongPress
<1> QED
  BY <1>1, <1>2, <1>3, <1>4, <1>5 DEF LongPress

\* TAP and encoder from the performance screen: the root of the settings.
LEMMA EncoderPressKeeps == ASSUME UserInterfaceAssumption, IInv, EncoderPress PROVE IInv'
<1>1. UNCHANGED <<topology, mode, unsaved>>
  BY DEF EncoderPress, Stay, world
<1>2. CASE ui.screen = "Performance" /\ buttons.tap
  <2> DEFINE u == [ui EXCEPT !.exit = "Performance"]
             v == Open(u, "Root", 0)
  <2>1. Fine(ui, topology) /\ Kept(ui) /\ ~InWorkspace(ui) /\ topology \in Topologies
        /\ mode \in [Channels -> Modes]
    BY <1>2, UiIsKept DEF IInv, InWorkspace
  <2>2. Kept(u) /\ u.recording = ui.recording /\ u.exit = "Performance"
    BY <2>1 DEF Kept, Placed, Fields
  <2>3. Go(v)
    BY <1>2 DEF EncoderPress
  <2> HIDE DEF u
  <2>4. /\ Kept(v) /\ v.recording = ui.recording /\ v.exit = "Performance"
        /\ v.screen = "Settings" /\ v.page = "Root"
    BY <2>2, PageOpened
  <2> HIDE DEF v
  <2>5. ~InWorkspace(v)
    BY <2>4 DEF InWorkspace
  <2> QED
    BY <1>1, <2>1, <2>3, <2>4, <2>5, Elsewhere, GoneOutside
<1>3. CASE ~(ui.screen = "Performance" /\ buttons.tap)
  BY <1>1, <1>3, Unmoved DEF EncoderPress
<1> QED
  BY <1>2, <1>3

LEMMA EncoderHoldKeeps == ASSUME UserInterfaceAssumption, IInv, EncoderHold PROVE IInv'
BY LongPressKeeps DEF EncoderHold

LEMMA EncoderReleaseKeeps == ASSUME UserInterfaceAssumption, IInv, EncoderRelease PROVE IInv'
<1>1. ShortPress \/ (UNCHANGED ui /\ Stay)
  BY DEF EncoderRelease
<1> QED
  BY <1>1, ShortPressKeeps, Unmoved DEF Stay, world

LEMMA TapReleaseKeeps == ASSUME UserInterfaceAssumption, IInv, TapRelease PROVE IInv'
<1>1. UNCHANGED <<topology, mode, unsaved>>
  BY DEF TapRelease, Stay, world
<1>2. UNCHANGED ui \/ (ui.screen = "ModeSelect" /\ Go(CommitMode(ui)))
  BY DEF TapRelease
<1> QED
  BY <1>1, <1>2, CommitModeMoves, GoneOutside, Unmoved DEF IInv

\* Pressing PLAY or TAP and zooming change nothing that is shown.
LEMMA HeldButtonsKeep == ASSUME IInv, TapPress \/ PlayPress \/ TurnZoom PROVE IInv'
<1>1. UNCHANGED <<ui, topology, mode, unsaved>>
  BY DEF TapPress, PlayPress, TurnZoom, Stay, world
<1> QED
  BY <1>1, Unmoved

LEMMA InitIsFine == ASSUME UserInterfaceAssumption, Init PROVE IInv
<1>1. ui = InitialUi /\ unsaved = FALSE /\ topology \in Topologies /\ mode \in [Channels -> Modes]
  BY StoredType DEF Init
<1>2. 0 \in Channels
  BY DEF UserInterfaceAssumption, Channels
<1>3. ~InWorkspace(ui)
  BY <1>1 DEF InWorkspace, InitialUi
<1>4. Returns(ui)
  BY <1>1, <1>3 DEF Returns, InitialUi, Fields, ScreenNames, Workspaces, GrooveActions
<1>5. Owned(ui, topology) /\ Placed(ui)
  BY <1>1, <1>2, <1>3 DEF Owned, Placed, InitialUi, Functions
<1> QED
  BY <1>1, <1>4, <1>5 DEF IInv, Fine, InitialUi

LEMMA NextKeeps == ASSUME UserInterfaceAssumption, IInv, [Next]_vars PROVE IInv'
<1>1. CASE \E d \in Deltas : TurnList(d) \/ TurnRing(d) \/ OpenCarousel(d)
  BY <1>1, TurnListKeeps, TurnRingKeeps, OpenCarouselKeeps
<1>2. CASE TurnDraft \/ TapRecorded
  BY <1>2, TurnDraftKeeps, TapRecordedKeeps
<1>3. CASE TapPress \/ PlayPress \/ TurnZoom
  BY <1>3, HeldButtonsKeep
<1>4. CASE EncoderPress \/ EncoderHold \/ EncoderRelease
  BY <1>4, EncoderPressKeeps, EncoderHoldKeeps, EncoderReleaseKeeps
<1>5. CASE TapRelease \/ PlayRelease \/ ResetPress \/ RecordingEnds
  BY <1>5, TapReleaseKeeps, PlayReleaseKeeps, ResetPressKeeps, RecordingEndsKeeps
<1>6. CASE UNCHANGED vars
  BY <1>6, Unmoved DEF vars
<1> QED
  BY <1>1, <1>2, <1>3, <1>4, <1>5, <1>6 DEF Next

\* The screens always know where they came from, the draft is owned by the
\* workspace, and an edit that was not saved is still in the draft.
THEOREM InterfaceIsFine == ASSUME UserInterfaceAssumption PROVE Spec => []IInv
<1>1. Init => IInv
  BY InitIsFine
<1>2. IInv /\ [Next]_vars => IInv'
  BY NextKeeps
<1> QED
  BY <1>1, <1>2, PTL DEF Spec

\* The engine plays the draft for exactly the channels under edit and exactly
\* while the editor or the recorder is open (updateGroovePreview and
\* clearGroovePreview, along every path of ui_controller_groove.cpp): no menu,
\* dialog, failed save or change of the topology leaves a channel with a groove
\* that nobody stored.
THEOREM PreviewAlwaysOwned == ASSUME UserInterfaceAssumption PROVE Spec => []PreviewIsOwned
<1>1. IInv => PreviewIsOwned
  BY DEF IInv, Fine, Owned, PreviewIsOwned, Reached, Previewed
<1> QED
  BY <1>1, InterfaceIsFine, PTL

\* A recording never goes on behind another screen: whatever leaves the
\* recorder stops it, also the menu behind a long press and BACK.
THEOREM RecorderNeverHidden == ASSUME UserInterfaceAssumption PROVE Spec => []RecorderRunsOnlyOnItsScreen
<1>1. IInv => RecorderRunsOnlyOnItsScreen
  BY DEF IInv, Fine, Owned, RecorderRunsOnlyOnItsScreen
<1> QED
  BY <1>1, InterfaceIsFine, PTL

\* Edits of the draft that were not saved are only ever lost by a YES to
\* DISCARD CHANGES?: until then the workspace is open and no list from which
\* LOAD would replace the draft is on the display.
THEOREM UnsavedWorkAlwaysAskedFor == ASSUME UserInterfaceAssumption PROVE Spec => []UnsavedWorkIsAskedFor
<1>1. IInv => UnsavedWorkIsAskedFor
  BY DEF IInv, Fine, Owned, LoadList, UnsavedWorkIsAskedFor
<1> QED
  BY <1>1, InterfaceIsFine, PTL
-----------------------------------------------------------------------------
(* A name is typed over nothing that the user did not agree to lose. *)

\* The screens that take a name.
Entries == {"NameEntry", "GrooveNameEntry"}

LEMMA SettledEntry ==
  ASSUME NEW u, DOMAIN u = Fields
  PROVE  LET s == Settled(u)
         IN /\ s.screen = u.screen /\ s.presetSlot = u.presetSlot
            /\ u.screen = "GrooveNameEntry" => s.grooveAction = u.grooveAction /\ s.grooveSlot = u.grooveSlot
BY DEF Settled, Fields

\* Steps to a screen that takes no name, steps that change no name's slot, and no step.
LEMMA NoEntry ==
  ASSUME NEW u, DOMAIN u = Fields, u.screen \notin Entries, Go(u)
  PROVE  NothingOverwrittenUnasked'
BY SettledEntry DEF Go, Entries, NothingOverwrittenUnasked

LEMMA SameEntry ==
  ASSUME NothingOverwrittenUnasked, NEW u, DOMAIN u = Fields, u.screen = ui.screen,
         u.presetSlot = ui.presetSlot, u.grooveSlot = ui.grooveSlot, u.grooveAction = ui.grooveAction,
         Go(u), UNCHANGED <<presets, grooves>>
  PROVE  NothingOverwrittenUnasked'
<1>1. ui' = Settled(u) /\ (ui'.screen = "NameEntry" => agreed' = agreed)
  BY SettledEntry DEF Go
<1> QED
  BY <1>1, SettledEntry DEF NothingOverwrittenUnasked

LEMMA NoStep ==
  ASSUME NothingOverwrittenUnasked, UNCHANGED <<ui, agreed, presets, grooves>>
  PROVE  NothingOverwrittenUnasked'
BY DEF NothingOverwrittenUnasked

\* BACK leads to no screen that takes a name.
LEMMA BackIsNoEntry ==
  ASSUME Fine(ui, topology)
  PROVE  Back(ui).screen \notin Entries
<1>1. /\ DOMAIN ui = Fields /\ ui.exit \notin Entries /\ ui.workspace \notin Entries
      /\ ui.modeReturn \notin Entries
  BY DEF Fine, Returns, Workspaces, Entries
<1>2. CASE ui.screen = "Settings"
  <2>1. LeftPage(ui).screen \notin Entries /\ DOMAIN LeftPage(ui) = Fields
    BY <1>1, <1>2 DEF LeftPage, ToExit, Fields, Entries
  <2>2. Back(ui).screen = LeftPage(ui).screen
    BY <1>2, <2>1 DEF Back, BackFromSettings, Fields
  <2> QED
    BY <2>1, <2>2
<1>3. CASE ui.screen \in Workspaces
  <2> DEFINE stopped == [ui EXCEPT !.workspace = ui.screen, !.recording = FALSE]
  <2>1. Back(ui) = IF ui.dirty THEN Ask([stopped EXCEPT !.loading = FALSE], "GrooveDiscardConfirm")
                   ELSE LeaveWorkspace(stopped)
    BY <1>3 DEF Back, BackFromWorkspace, Workspaces
  <2> QED
    BY <1>1, <2>1 DEF Ask, LeaveWorkspace, ToGroovePage, Open, Fields, Entries
<1>4. CASE ui.screen = "GrooveSlots"
  BY <1>1, <1>4 DEF Back, BackFromGrooveSlots, Open, Fields, Entries
<1>5. CASE ui.screen \in {"SequencerEditor", "Templates", "PresetSlots", "HighScoreClearConfirm",
                         "FactoryResetConfirm"}
  BY <1>1, <1>5 DEF Back, Open, Fields, Entries
<1>6. CASE ui.screen \in {"Performance", "SequencerStepEditor", "GrooveNameEntry", "GrooveOverwriteConfirm",
                         "GrooveDeleteConfirm", "GrooveDiscardConfirm", "NameEntry", "OverwriteConfirm"}
  BY <1>1, <1>6 DEF Back, Fields, Entries
<1>7. CASE ui.screen \in {"ModeChangeConfirm", "ModeSelect", "InformationPopover", "ChannelQuickSelect"}
  BY <1>1, <1>7 DEF Back, Fields, Entries
<1> QED
  BY <1>2, <1>3, <1>4, <1>5, <1>6, <1>7 DEF Fine, Returns, ScreenNames, Workspaces

\* Nor do the carousel, the rows of the pages and the NO of a dialog.
LEMMA AfterModeIsNoEntry ==
  ASSUME DOMAIN ui = Fields, NEW f
  PROVE  AfterMode(ui, f).screen \notin Entries /\ DOMAIN AfterMode(ui, f) = Fields
BY DEF AfterMode, Open, Fields, Entries

LEMMA CommitModeIsNoEntry ==
  ASSUME DOMAIN ui = Fields
  PROVE  CommitMode(ui).screen \notin Entries /\ DOMAIN CommitMode(ui) = Fields
BY AfterModeIsNoEntry DEF CommitMode, Ask, Fields, Entries

LEMMA RowCommandIsNoEntry ==
  ASSUME DOMAIN ui = Fields, ui.screen = "Settings"
  PROVE  RowCommand(ui).screen \notin Entries /\ DOMAIN RowCommand(ui) = Fields
<1>1. CASE ui.page = "GrooveEditorMenu"
  BY <1>1 DEF RowCommand, ActivateEditorMenu, OpenGrooveSlots, Ask, Fields, Entries
<1>2. CASE ui.page = "GrooveRecordMenu"
  <2>1. RowCommand(ui) = ActivateRecordMenu(ui)
    BY <1>2 DEF RowCommand
  <2> QED
    BY <2>1 DEF ActivateRecordMenu, OpenGrooveSlots, Fields, Entries
<1>3. CASE ui.page = "Groove"
  <2>1. CASE ui.cursor \in {3, 6, 7}
    BY <1>3, <2>1 DEF RowCommand, OpenGrooveSlots, Fields, Entries
  <2>2. CASE ui.cursor \notin {3, 6, 7}
    BY <1>3, <2>2 DEF RowCommand, OpenGrooveEditor, OpenGrooveRecorder, OpenWorkspace, Fields, Entries
  <2> QED
    BY <2>1, <2>2
<1>4. CASE ui.page \notin Menus \cup {"Groove"}
  <2>1. \/ RowCommand(ui) \in {ui, OpenModeSelect(ui, "Settings"), Ask(ui, "Templates"),
                               OpenPresetSlots(ui, "Load"), OpenPresetSlots(ui, "Save"),
                               [ui EXCEPT !.screen = "SequencerEditor", !.editing = FALSE],
                               [Ask(ui, "HighScoreClearConfirm") EXCEPT !.editing = FALSE],
                               [Ask(ui, "FactoryResetConfirm") EXCEPT !.editing = FALSE]}
    BY <1>4 DEF RowCommand, Menus
  <2> QED
    BY <2>1 DEF OpenModeSelect, Ask, OpenPresetSlots, Fields, Entries
<1> QED
  BY <1>1, <1>2, <1>3, <1>4 DEF Menus

LEMMA DeclinedIsNoEntry ==
  ASSUME Fine(ui, topology), ui.screen \in Dialogs
  PROVE  Declined(ui).screen \notin Entries /\ DOMAIN Declined(ui) = Fields
<1>1. DOMAIN ui = Fields /\ ui.workspace \notin Entries
  BY DEF Fine, Returns, Workspaces, Entries
<1> QED
  BY <1>1 DEF Declined, Dialogs, Open, Fields, Entries

LEMMA LeavingIsNoEntry ==
  ASSUME DOMAIN ui = Fields
  PROVE  LeaveWorkspace(ui).screen \notin Entries /\ DOMAIN LeaveWorkspace(ui) = Fields
BY DEF LeaveWorkspace, ToGroovePage, Open, Fields, Entries
\* The preset's name: an empty slot, or one whose overwriting was just agreed to.
LEMMA PresetEntry ==
  ASSUME DOMAIN ui = Fields, UNCHANGED presets,
         \/ ui.screen = "PresetSlots" /\ Go(ChoosePreset(ui))
         \/ ui.screen = "OverwriteConfirm" /\ Go([ui EXCEPT !.screen = "NameEntry", !.char = 0])
  PROVE  NothingOverwrittenUnasked'
<1>1. CASE ui.screen = "PresetSlots" /\ Go(ChoosePreset(ui))
  <2>1. CASE ui.cursor \in presets
    <3>1. DOMAIN ChoosePreset(ui) = Fields /\ ChoosePreset(ui).screen = "OverwriteConfirm"
      BY <2>1 DEF ChoosePreset, Ask, Fields
    <3> QED
      BY <1>1, <3>1, NoEntry DEF Entries
  <2>2. CASE ui.cursor \notin presets
    <3> DEFINE v == ChoosePreset(ui)
    <3>1. DOMAIN v = Fields /\ v.screen = "NameEntry" /\ v.presetSlot = ui.cursor
      BY <2>2 DEF ChoosePreset, Fields
    <3> HIDE DEF v
    <3>2. ui'.screen = "NameEntry" /\ ui'.presetSlot = ui.cursor
      BY <1>1, <3>1, SettledEntry DEF Go, v
    <3> QED
      BY <2>2, <3>2 DEF NothingOverwrittenUnasked
  <2> QED
    BY <2>1, <2>2
<1>2. CASE ui.screen = "OverwriteConfirm" /\ Go([ui EXCEPT !.screen = "NameEntry", !.char = 0])
  <2> DEFINE v == [ui EXCEPT !.screen = "NameEntry", !.char = 0]
  <2>1. DOMAIN v = Fields /\ v.screen = "NameEntry" /\ v.presetSlot = ui.presetSlot
    BY DEF Fields
  <2>2. Go(v)
    BY <1>2
  <2> HIDE DEF v
  <2>3. ui'.screen = "NameEntry" /\ ui'.presetSlot = ui.presetSlot /\ agreed' = ui.presetSlot
    BY <1>2, <2>1, <2>2, SettledEntry DEF Go
  <2> QED
    BY <2>3 DEF NothingOverwrittenUnasked
<1> QED
  BY <1>1, <1>2

\* The groove's name: of a groove that exists, to rename it, or of an empty slot.
LEMMA GrooveEntry ==
  ASSUME DOMAIN ui = Fields, ui.screen = "GrooveSlots", Go(ChooseGroove(ui)), UNCHANGED grooves
  PROVE  NothingOverwrittenUnasked'
<1> DEFINE v == ChooseGroove(ui)
<1>1. /\ DOMAIN v = Fields /\ v.grooveSlot = ui.cursor /\ v.grooveAction = ui.grooveAction
      /\ v.screen # "NameEntry"
      /\ v.screen = "GrooveNameEntry" /\ ui.grooveAction = "Save" => ui.cursor \notin grooves
  <2>1. CASE ui.grooveAction = "Activate"
    BY <2>1 DEF ChooseGroove, Open, Fields
  <2>2. CASE ui.grooveAction # "Activate"
    BY <2>2 DEF ChooseGroove, Ask, Fields
  <2> QED
    BY <2>1, <2>2
<1>2. ui' = Settled(v)
  BY DEF Go
<1> HIDE DEF v
<1> QED
  BY <1>1, <1>2, SettledEntry DEF NothingOverwrittenUnasked

\* Saving and renaming end the entry of the name.
LEMMA EntryEnds ==
  ASSUME IInv, NothingOverwrittenUnasked, SavePreset \/ SaveGroove \/ RenameGroove
  PROVE  NothingOverwrittenUnasked'
<1>1. DOMAIN ui = Fields /\ ui.workspace \notin Entries
  BY DEF IInv, Fine, Returns, Workspaces, Entries
<1>2. CASE SavePreset
  <2>1. DOMAIN OpenPresetSlots(ui, "Save") = Fields /\ OpenPresetSlots(ui, "Save").screen = "PresetSlots"
    BY <1>1 DEF OpenPresetSlots, Fields
  <2> QED
    BY <1>2, <2>1, NoEntry DEF SavePreset, Entries
<1>3. CASE SaveGroove
  <2> DEFINE v == [ui EXCEPT !.screen = ui.workspace]
  <2>1. DOMAIN v = Fields /\ v.screen \notin Entries
    BY <1>1 DEF Fields
  <2>2. Go(LeaveWorkspace(ui)) \/ Go(v)
    BY <1>3 DEF SaveGroove
  <2> HIDE DEF v
  <2> QED
    BY <1>1, <2>1, <2>2, LeavingIsNoEntry, NoEntry
<1>4. CASE RenameGroove
  <2> DEFINE v == [ui EXCEPT !.screen = "GrooveSlots", !.cursor = ui.grooveSlot]
  <2>1. DOMAIN v = Fields /\ v.screen \notin Entries
    BY <1>1 DEF Fields, Entries
  <2>2. Go(v) \/ (UNCHANGED <<ui, agreed>> /\ Stay)
    BY <1>4 DEF RenameGroove
  <2> HIDE DEF v
  <2> QED
    BY <2>1, <2>2, NoEntry, NoStep DEF Stay, world
<1> QED
  BY <1>2, <1>3, <1>4

LEMMA ActivateRowAsks ==
  ASSUME DOMAIN ui = Fields, ui.screen = "Settings", ActivateRow
  PROVE  NothingOverwrittenUnasked'
<1>1. CASE Go([ui EXCEPT !.editing = ~@])
  <2>1. DOMAIN [ui EXCEPT !.editing = ~@] = Fields /\ [ui EXCEPT !.editing = ~@].screen = "Settings"
    BY DEF Fields
  <2> QED
    BY <1>1, <2>1, NoEntry DEF Entries
<1>2. CASE Go(Open([ui EXCEPT !.exit = IF ui.page = "Root" /\ ui.cursor = 1 THEN "Settings" ELSE @],
                   Child(ui), 0))
  <2> DEFINE v == Open([ui EXCEPT !.exit = IF ui.page = "Root" /\ ui.cursor = 1 THEN "Settings" ELSE @],
                       Child(ui), 0)
  <2>1. DOMAIN v = Fields /\ v.screen = "Settings"
    BY DEF Open, Fields
  <2>2. Go(v)
    BY <1>2
  <2> HIDE DEF v
  <2> QED
    BY <2>1, <2>2, NoEntry DEF Entries
<1>3. CASE Go(RowCommand(ui))
  BY <1>3, RowCommandIsNoEntry, NoEntry
<1>4. CASE Go([ui EXCEPT !.screen = "InformationPopover", !.editing = FALSE])
  <2> DEFINE v == [ui EXCEPT !.screen = "InformationPopover", !.editing = FALSE]
  <2>1. DOMAIN v = Fields /\ v.screen \notin Entries
    BY DEF Fields, Entries
  <2> QED
    BY <1>4, <2>1, NoEntry
<1> QED
  BY <1>1, <1>2, <1>3, <1>4 DEF ActivateRow

\* Choices and dialogs that lead on to one screen.
LEMMA ChoicesAsk ==
  ASSUME IInv, NothingOverwrittenUnasked,
         \/ LoadPreset /\ ui.screen = "PresetSlots"
         \/ SelectChannel \/ ApplyTemplate
         \/ ClearHighScores \/ FactoryReset \/ RemoveGroove \/ Discard \/ LoadGroove \/ ApplyMode
  PROVE  NothingOverwrittenUnasked'
<1>1. DOMAIN ui = Fields /\ ui.workspace \notin Entries
  BY DEF IInv, Fine, Returns, Workspaces, Entries
<1>2. CASE SelectChannel
  <2>1. PICK c \in {ui.cursor, ui.channel} :
          Go([ui EXCEPT !.screen = "Performance", !.channel = c, !.cursor = c, !.editing = FALSE])
    BY <1>2 DEF SelectChannel
  <2> DEFINE v == [ui EXCEPT !.screen = "Performance", !.channel = c, !.cursor = c, !.editing = FALSE]
  <2>2. DOMAIN v = Fields /\ v.screen \notin Entries
    BY <1>1 DEF Fields, Entries
  <2> QED
    BY <2>1, <2>2, NoEntry
<1>3. CASE ApplyTemplate
  <2> DEFINE v == [ui EXCEPT !.screen = "Performance"]
  <2>1. DOMAIN v = Fields /\ v.screen \notin Entries
    BY <1>1 DEF Fields, Entries
  <2> QED
    BY <1>3, <2>1, NoEntry DEF ApplyTemplate
<1>4. CASE LoadPreset /\ ui.screen = "PresetSlots"
  <2> DEFINE v == [ui EXCEPT !.presetSlot = ui.cursor]
             w == [ui EXCEPT !.screen = "Performance", !.presetSlot = ui.cursor]
  <2>1. DOMAIN v = Fields /\ v.screen \notin Entries /\ DOMAIN w = Fields /\ w.screen \notin Entries
    BY <1>1, <1>4 DEF Fields, Entries
  <2>2. Go(v) \/ Go(w)
    BY <1>4 DEF LoadPreset
  <2> HIDE DEF v, w
  <2> QED
    BY <2>1, <2>2, NoEntry
<1>5. CASE ClearHighScores
  <2>1. DOMAIN Open(ui, "Root", 4) = Fields /\ Open(ui, "Root", 4).screen \notin Entries
    BY <1>1 DEF Open, Fields, Entries
  <2> QED
    BY <1>5, <2>1, NoEntry DEF ClearHighScores
<1>6. CASE FactoryReset
  <2> DEFINE v == [ui EXCEPT !.screen = "Performance", !.channel = 0, !.cursor = 0, !.editing = FALSE]
  <2>1. /\ DOMAIN v = Fields /\ v.screen \notin Entries
        /\ DOMAIN Open(ui, "Info", 5) = Fields /\ Open(ui, "Info", 5).screen \notin Entries
    BY <1>1 DEF Open, Fields, Entries
  <2>2. Go(v) \/ Go(Open(ui, "Info", 5))
    BY <1>6 DEF FactoryReset
  <2> HIDE DEF v
  <2> QED
    BY <2>1, <2>2, NoEntry
<1>7. CASE RemoveGroove
  <2> DEFINE v == [ui EXCEPT !.screen = "GrooveSlots", !.cursor = ui.grooveSlot]
  <2>1. DOMAIN v = Fields /\ v.screen \notin Entries
    BY <1>1 DEF Fields, Entries
  <2> QED
    BY <1>7, <2>1, NoEntry DEF RemoveGroove
<1>8. CASE Discard
  <2> DEFINE v == OpenGrooveSlots([ui EXCEPT !.dirty = FALSE, !.loading = FALSE], "LoadEditor")
  <2>1. DOMAIN v = Fields /\ v.screen \notin Entries
    BY <1>1 DEF OpenGrooveSlots, Fields, Entries
  <2>2. Go(v) \/ Go(LeaveWorkspace(ui))
    BY <1>8 DEF Discard
  <2> HIDE DEF v
  <2> QED
    BY <1>1, <2>1, <2>2, LeavingIsNoEntry, NoEntry
<1>9. CASE LoadGroove
  <2> DEFINE v == [ui EXCEPT !.screen = ui.workspace, !.dirty = FALSE, !.recording = FALSE,
                             !.preview = @ \cup Previewed(ui)]
  <2>1. DOMAIN v = Fields /\ v.screen \notin Entries
    BY <1>1 DEF Fields
  <2>2. Go(v) \/ (UNCHANGED <<ui, agreed>> /\ Stay)
    BY <1>9 DEF LoadGroove
  <2> HIDE DEF v
  <2> QED
    BY <2>1, <2>2, NoEntry, NoStep DEF Stay, world
<1>10. CASE ApplyMode
  BY <1>1, <1>10, AfterModeIsNoEntry, NoEntry DEF ApplyMode
<1> QED
  BY <1>2, <1>3, <1>4, <1>5, <1>6, <1>7, <1>8, <1>9, <1>10

\* The next character of the same name.
LEMMA NextCharacterAsks ==
  ASSUME DOMAIN ui = Fields, NothingOverwrittenUnasked, Go([ui EXCEPT !.char = @ + 1]), Stay
  PROVE  NothingOverwrittenUnasked'
<1> DEFINE v == [ui EXCEPT !.char = @ + 1]
<1>1. /\ DOMAIN v = Fields /\ v.screen = ui.screen /\ v.presetSlot = ui.presetSlot
      /\ v.grooveSlot = ui.grooveSlot /\ v.grooveAction = ui.grooveAction
  BY DEF Fields
<1>2. Go(v) /\ UNCHANGED <<presets, grooves>>
  BY DEF Stay, world
<1> HIDE DEF v
<1> QED
  BY <1>1, <1>2, SameEntry
LEMMA ShortPressAsks ==
  ASSUME IInv, NothingOverwrittenUnasked, ShortPress
  PROVE  NothingOverwrittenUnasked'
<1>0. DOMAIN ui = Fields /\ Fine(ui, topology)
  BY DEF IInv, Fine, Returns
<1>1. Stay => UNCHANGED <<presets, grooves>>
  BY DEF Stay, world
<1>2. CASE ui.screen = "Performance" /\ Go([ui EXCEPT !.screen = "ChannelQuickSelect", !.cursor = ui.channel,
                                                     !.editing = FALSE])
  <2> DEFINE v == [ui EXCEPT !.screen = "ChannelQuickSelect", !.cursor = ui.channel, !.editing = FALSE]
  <2>1. DOMAIN v = Fields /\ v.screen \notin Entries
    BY <1>0 DEF Fields, Entries
  <2> QED
    BY <1>2, <2>1, NoEntry
<1>3. CASE ui.screen = "InformationPopover" /\ Go([ui EXCEPT !.screen = "Settings"])
  <2> DEFINE v == [ui EXCEPT !.screen = "Settings"]
  <2>1. DOMAIN v = Fields /\ v.screen \notin Entries
    BY <1>0 DEF Fields, Entries
  <2> QED
    BY <1>3, <2>1, NoEntry
<1>4. CASE /\ Stay
           /\ \/ ui.screen = "PresetSlots" /\ Go(ChoosePreset(ui))
              \/ ui.screen = "OverwriteConfirm" /\ Go([ui EXCEPT !.screen = "NameEntry", !.char = 0])
  BY <1>0, <1>1, <1>4, PresetEntry
<1>5. CASE ui.screen = "ModeSelect" /\ Go(CommitMode(ui))
  BY <1>0, <1>5, CommitModeIsNoEntry, NoEntry
<1>6. CASE Stay /\ Go([ui EXCEPT !.char = @ + 1])
  BY <1>0, <1>6, NextCharacterAsks
<1>7. CASE SavePreset \/ SaveGroove \/ RenameGroove
  BY <1>7, EntryEnds
<1>8. CASE ui.screen = "GrooveSlots" /\ Go(ChooseGroove(ui)) /\ Stay
  BY <1>0, <1>1, <1>8, GrooveEntry
<1>9. CASE ui.screen \in Dialogs /\ Go(Declined(ui))
  BY <1>0, <1>9, DeclinedIsNoEntry, NoEntry
<1>10. CASE ui.screen = "SequencerStepEditor" /\ \E e \in {ui.editing, ~ui.editing} : Go([ui EXCEPT !.editing = e])
  <2>1. PICK e : Go([ui EXCEPT !.editing = e])
    BY <1>10
  <2>2. DOMAIN [ui EXCEPT !.editing = e] = Fields /\ [ui EXCEPT !.editing = e].screen \notin Entries
    BY <1>0, <1>10 DEF Fields, Entries
  <2> QED
    BY <2>1, <2>2, NoEntry
<1>11. CASE Go([ui EXCEPT !.screen = "SequencerStepEditor", !.cursor = 0, !.editing = FALSE])
  <2> DEFINE v == [ui EXCEPT !.screen = "SequencerStepEditor", !.cursor = 0, !.editing = FALSE]
  <2>1. DOMAIN v = Fields /\ v.screen \notin Entries
    BY <1>0 DEF Fields, Entries
  <2> QED
    BY <1>11, <2>1, NoEntry
<1>12. CASE UNCHANGED <<ui, agreed>> /\ Stay
  BY <1>1, <1>12, NoStep
<1>13. CASE ui.screen = "Settings" /\ ActivateRow
  BY <1>0, <1>13, ActivateRowAsks
<1>14. CASE \/ LoadPreset /\ ui.screen = "PresetSlots"
            \/ SelectChannel \/ ApplyTemplate
            \/ ClearHighScores \/ FactoryReset \/ RemoveGroove \/ Discard \/ LoadGroove \/ ApplyMode
  BY <1>14, ChoicesAsk
<1> QED
  BY <1>2, <1>3, <1>4, <1>5, <1>6, <1>7, <1>8, <1>9, <1>10, <1>11, <1>12, <1>13, <1>14 DEF ShortPress

LEMMA LongPressAsks ==
  ASSUME IInv, NothingOverwrittenUnasked, LongPress
  PROVE  NothingOverwrittenUnasked'
<1>1. CASE SavePreset \/ SaveGroove \/ RenameGroove
  BY <1>1, EntryEnds
<1>2. CASE \E c : Go(LongPressed([ui EXCEPT !.channel = c])) \/ Go(LongPressed(ui))
  <2>1. DOMAIN ui = Fields
    BY DEF IInv, Fine, Returns
  <2>2. \A u : DOMAIN u = Fields => DOMAIN LongPressed(u) = Fields /\ LongPressed(u).screen = "Settings"
    BY DEF LongPressed, Open, Fields
  <2>3. \A c : DOMAIN [ui EXCEPT !.channel = c] = Fields
    BY <2>1
  <2> QED
    BY <1>2, <2>1, <2>2, <2>3, NoEntry DEF Entries
<1> QED
  BY <1>1, <1>2 DEF LongPress

\* Turns leave the slot alone; TAP and turn opens the carousel.
LEMMA TurnsAsk ==
  ASSUME IInv, NothingOverwrittenUnasked, NEW d \in Deltas,
         TurnList(d) \/ TurnRing(d) \/ OpenCarousel(d)
  PROVE  NothingOverwrittenUnasked'
<1>1. DOMAIN ui = Fields
  BY DEF IInv, Fine, Returns
<1>2. CASE TurnList(d) \/ TurnRing(d)
  <2>1. PICK c : Go([ui EXCEPT !.cursor = c])
    BY <1>2 DEF TurnList, TurnRing
  <2>2. UNCHANGED <<presets, grooves>>
    BY <1>2 DEF TurnList, TurnRing, Stay, world
  <2> DEFINE v == [ui EXCEPT !.cursor = c]
  <2>3. /\ DOMAIN v = Fields /\ v.screen = ui.screen /\ v.presetSlot = ui.presetSlot
        /\ v.grooveSlot = ui.grooveSlot /\ v.grooveAction = ui.grooveAction
    BY <1>1 DEF Fields
  <2> HIDE DEF v
  <2> QED
    BY <2>1, <2>2, <2>3, SameEntry DEF v
<1>3. CASE OpenCarousel(d)
  <2>1. PICK c : Go([OpenModeSelect([ui EXCEPT !.channel = c], "ChannelQuickSelect")
                       EXCEPT !.cursor = (@ + d) % 6])
    BY <1>3 DEF OpenCarousel
  <2> DEFINE v == [OpenModeSelect([ui EXCEPT !.channel = c], "ChannelQuickSelect")
                     EXCEPT !.cursor = (@ + d) % 6]
  <2>2. DOMAIN v = Fields /\ v.screen \notin Entries
    BY <1>1 DEF OpenModeSelect, Fields, Entries
  <2> HIDE DEF v
  <2> QED
    BY <2>1, <2>2, NoEntry DEF v
<1> QED
  BY <1>2, <1>3

LEMMA ButtonsAsk ==
  ASSUME UserInterfaceAssumption, IInv, NothingOverwrittenUnasked,
         \/ TapPress \/ PlayPress \/ TurnZoom \/ EncoderPress \/ TapRelease \/ PlayRelease
         \/ ResetPress \/ RecordingEnds
  PROVE  NothingOverwrittenUnasked'
<1>1. DOMAIN ui = Fields /\ UNCHANGED <<presets, grooves>>
  BY DEF IInv, Fine, Returns, TapPress, PlayPress, TurnZoom, EncoderPress, TapRelease, PlayRelease,
         ResetPress, RecordingEnds, Stay, world
<1>2. CASE UNCHANGED <<ui, agreed>>
  BY <1>1, <1>2, NoStep
<1>3. CASE Go(Open([ui EXCEPT !.exit = "Performance"], "Root", 0))
  <2> DEFINE v == Open([ui EXCEPT !.exit = "Performance"], "Root", 0)
  <2>1. DOMAIN v = Fields /\ v.screen \notin Entries
    BY <1>1 DEF Open, Fields, Entries
  <2> HIDE DEF v
  <2> QED
    BY <1>3, <2>1, NoEntry DEF v
<1>4. CASE Go(CommitMode(ui))
  BY <1>1, <1>4, CommitModeIsNoEntry, NoEntry
<1>5. CASE \E on : Go([ui EXCEPT !.recording = on])
  <2>1. PICK on : Go([ui EXCEPT !.recording = on])
    BY <1>5
  <2> DEFINE v == [ui EXCEPT !.recording = on]
  <2>2. /\ DOMAIN v = Fields /\ v.screen = ui.screen /\ v.presetSlot = ui.presetSlot
        /\ v.grooveSlot = ui.grooveSlot /\ v.grooveAction = ui.grooveAction
    BY <1>1 DEF Fields
  <2> HIDE DEF v
  <2> QED
    BY <1>1, <2>1, <2>2, SameEntry DEF v
<1>6. CASE Go(Back(ui))
  <2>1. Fine(ui, topology)
    BY DEF IInv
  <2>2. Back(ui).screen \notin Entries
    BY <2>1, BackIsNoEntry
  <2> QED
    BY <1>6, <2>2, NoEntry, BackMoves DEF IInv, Moved, Fine, Returns
<1> QED
  BY <1>2, <1>3, <1>4, <1>5, <1>6
  DEF TapPress, PlayPress, TurnZoom, EncoderPress, TapRelease, PlayRelease, ResetPress, RecordingEnds

LEMMA NextAsks ==
  ASSUME UserInterfaceAssumption, IInv, NothingOverwrittenUnasked, [Next]_vars
  PROVE  NothingOverwrittenUnasked'
<1>1. CASE \E d \in Deltas : TurnList(d) \/ TurnRing(d) \/ OpenCarousel(d)
  BY <1>1, TurnsAsk
<1>2. CASE TurnDraft \/ TapRecorded
  <2>1. DOMAIN Capture(ui) = Fields /\ Capture(ui).screen = ui.screen
    BY DEF IInv, Fine, Returns, Capture, Fields
  <2>2. Go(Capture(ui)) /\ ui.screen \notin Entries
    BY <1>2 DEF TurnDraft, TapRecorded, Capture, Entries
  <2> QED
    BY <2>1, <2>2, NoEntry
<1>3. CASE \/ TapPress \/ PlayPress \/ TurnZoom \/ EncoderPress \/ TapRelease \/ PlayRelease
           \/ ResetPress \/ RecordingEnds
  BY <1>3, ButtonsAsk
<1>4. CASE EncoderHold
  BY <1>4, LongPressAsks DEF EncoderHold
<1>5. CASE EncoderRelease
  <2>1. ShortPress \/ (UNCHANGED <<ui, agreed>> /\ Stay)
    BY <1>5 DEF EncoderRelease
  <2> QED
    BY <2>1, ShortPressAsks, NoStep DEF Stay, world
<1>6. CASE UNCHANGED vars
  BY <1>6, NoStep DEF vars
<1> QED
  BY <1>1, <1>2, <1>3, <1>4, <1>5, <1>6 DEF Next

\* A name is typed over a preset only after the YES given for that very slot,
\* and over a groove never (saveNamedPreset, saveCustomGroove): no way into the
\* entry of a name goes around the question, and no question about one slot
\* counts for another.
THEOREM NothingEverOverwrittenUnasked == ASSUME UserInterfaceAssumption PROVE Spec => []NothingOverwrittenUnasked
<1>1. Init => NothingOverwrittenUnasked
  BY DEF Init, InitialUi, NothingOverwrittenUnasked
<1>2. IInv /\ NothingOverwrittenUnasked /\ [Next]_vars => NothingOverwrittenUnasked'
  BY NextAsks
<1> QED
  BY <1>1, <1>2, InterfaceIsFine, PTL DEF Spec
=============================================================================
