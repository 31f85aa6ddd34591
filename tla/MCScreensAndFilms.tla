------------------------- MODULE MCScreensAndFilms -------------------------
(***************************************************************************)
(* One run for the Flash sectors, the parts that show the module to its    *)
(* user (screens, groove recorder, tutorial films and their publication),  *)
(* the times and steps of a channel's events, and the hosts that run the   *)
(* firmware on a desk (the simulator and the Rack module).  They share no  *)
(* state: a behaviour is about one of them, `part'.  The Flash has its own *)
(* variables, which rest in the other behaviours; the other modules take   *)
(* turns with v1, v2, ...                                                  *)
(*                                                                         *)
(* Images have two words, of which a legacy image has one; there are four  *)
(* generations, so that the counter wraps within a few commits.            *)
(***************************************************************************)
EXTENDS FlashStorage

CONSTANT Malformed

VARIABLES
  part,
  v1, v2, v3, v4, v5, v6, v7, v8, v9, v10, v11, v12, v13, v14, v15, v16

v1to10 == <<v1, v2, v3, v4, v5, v6, v7, v8, v9, v10>>
v11to14 == <<v11, v12, v13, v14>>
v15to16 == <<v15, v16>>
everything == <<part, vars, v1to10, v11to14, v15to16>>

ThreeFaces == {[shown |-> 0, traces |-> 0], [shown |-> 0, traces |-> 1],
               [shown |-> 1, traces |-> 0]}

\* Six channels, as many as the carousel has entries; two presets, so that the
\* one agreed to be overwritten may be another than the one that is.  Every other mode
\* and topology is one change away from the first.
Screens == INSTANCE SettingsMenu WITH
  ChannelCount <- 6, PresetCount <- 2, GrooveCount <- 1, NameLength <- 1,
  Deltas <- {-1, 1},
  Configurations <- {<<"Independent", "Euclid">>},
  MaxChanges <- 1, ui <- v1, topology <- v2, mode <- v3, changes <- v4,
  presets <- v5, grooves <- v6, leaderboard <- v7, buttons <- v8,
  unsaved <- v9, agreed <- v10

\* A pattern of two steps, over which the clock passes more than once.
Recorder == INSTANCE GrooveRecorder WITH
  Step <- 4, Beat <- 4, Length <- 2, MaxOffset <- 120, CountIns <- {0, 1},
  Debounce <- 1, RewindCap <- 3, Rates <- {1}, MaxDelay <- 1,
  MaxPosition <- 9, moving <- v1, position <- v2, rate <- v3, wait <- v4,
  contact <- v5, raw <- v6, stable <- v7, rawAge <- v8, mode <- v9,
  state <- v10, countIn <- v11, epoch <- v12, playhead <- v13,
  captured <- v14, heard <- v15, astray <- v16

\* Frames that fall between and onto the ends of actions, scenes and beats.
Film == INSTANCE StoryFrames WITH
  PeriodNum <- 3, PeriodDen <- 2, Durations <- {1, 2}, Texts <- {"a"},
  Faces <- ThreeFaces, Linger <- 1, MaxTime <- 1, MaxScenes <- 2,
  sparse <- v1, now <- v2, scene <- v3, subtitle <- v4, todo <- v5,
  beat <- v6, face <- v7, panel <- v8, count <- v9, frame <- v10,
  static <- v11, last <- v12, cues <- v13, spoken <- v14

Node(name, given) == [name |-> name, given |-> given]
NoFields == [field \in {} |-> None]
\* Nodes of every kind, most of them in a form that is accepted and in one that is not.
Cards ==
  {Node("chapter", [duration_ms |-> 1, title |-> "t", narration |-> id]) : id \in {"a", "A"}}
  \cup {Node("chapter", g) : g \in
          {[duration_ms |-> 1, title |-> "t", transition |-> "fade"], [title |-> "t"]}}
  \cup {Node("text", g) : g \in
          {[duration_ms |-> 1, title |-> "t", body |-> "b", type |-> Malformed],
           [duration_ms |-> 1, title |-> "t"]}}
  \cup {Node("callout", [duration_ms |-> 1, title |-> "t", type |-> "recipe", steps |-> s]) :
          s \in {"none", "some"}}
  \cup {Node("callout", [duration_ms |-> 1, title |-> "t", type |-> "tip"]),
        Node("tutorial", [actions |-> "list"]), Node("tutorial", [actions |-> Malformed])}
Controls ==
  {Node("encoder", g) : g \in
     {[direction |-> "clockwise"], [detents |-> 2], [direction |-> "left"],
      [direction |-> "counter_clockwise", detents |-> 0]}}
  \cup {Node("encoder_push", NoFields)}
  \cup {Node("button", [name |-> n, state |-> s]) : n \in {"PLAY", "STOP"}, s \in {"down", "up"}}
  \cup {Node("button", g) : g \in {[name |-> "PLAY"], [state |-> "down"]}}
  \cup {Node("power", [state |-> s]) : s \in {"on", "off"}}
Signals ==
  {Node(n, [state |-> s]) :
     n \in {"sync_cable", "rst_cable"}, s \in {"connect", "disconnect", "on"}}
  \cup {Node(n, [state |-> "run"]) : n \in {"sync_generator", "rst_generator"}}
  \cup {Node("rst_pulse", NoFields)}
  \cup {Node("sync_source", g) : g \in
          {[bpm |-> 999], [bpm |-> 1000], [ppqn |-> 24], [ppqn |-> 3], NoFields}}
Remarks ==
  {Node("beat", [narration |-> id, duration_ms |-> 1]) : id \in {"a", "b"}}
  \cup {Node("beat_end", [value |-> id]) : id \in {"a", "b", Malformed}}
  \cup {Node("wait_ms", [value |-> 0]), Node("banner", NoFields)}
  \cup {Node("subtitle", g) : g \in {[text |-> "t"], [label |-> "t"]}}
  \cup {Node("scope", g) : g \in {[state |-> "show"], [state |-> "show", channel |-> "visible"]}}
  \cup {Node("focus", g) : g \in
          {[target |-> "play", x |-> 500], [target |-> "screen"],
           [target |-> "oled_region", x |-> 127, y |-> 0, width |-> 2, height |-> 1],
           [target |-> "oled_region", x |-> 0, y |-> 0, width |-> 2]}}
  \cup {Node("wait_until", g) : g \in
          {[power |-> "on"], [transport |-> "running"], [external_sync |-> "locked"],
           [power |-> "on", transport |-> "playing"]}}
  \cup {Node("assert", g) : g \in
          {[sync_cable |-> "connected"], [transport |-> "playing"], [clock_source |-> "none"]}}
Nodes == Cards \cup Controls \cup Signals \cup Remarks

Story == INSTANCE StoryRules WITH
  Entries <- Nodes, WellFormed <- {"a", "b"}, Regions <- {"oled_full"},
  place <- v1, filled <- v2, checked <- v3, run <- v4

\* Three runs: one to publish, one to fail or die, one to find what it left.
Output == INSTANCE StoryOutput WITH
  Commands <- {"frames", "video"}, MaxRuns <- 3, Absent <- None,
  command <- v1, staging <- v2, output <- v3, previous <- v4, runs <- v5,
  step <- v6, had <- v7, result <- v8, was <- v9, failure <- v10

\* Tempos and rates whose fractions leave a remainder in every division; few
\* ticks between events, so that every limit is reached.
Straight ==
  [tempo : {[num |-> 1, den |-> 12], [num |-> 3, den |-> 40]}, mode : {"Clock", "Euclid"},
   rate : {[num |-> 1, den |-> 1, factor |-> 3, multiply |-> TRUE],
           [num |-> 3, den |-> 2, factor |-> 1, multiply |-> FALSE]},
   local : {4}, unit : {4, 8}, phase : {0}, swing : {0}, preset : {"Off"}, amount : {0},
   rotation : {0}, custom : {<<0>>}, humanize : {0}]
Shaped ==
  [tempo : {[num |-> 3, den |-> 40]}, mode : {"Clock"},
   rate : {[num |-> 1, den |-> 1, factor |-> f, multiply |-> TRUE] : f \in {1, 3}},
   local : {4}, unit : {4}, phase : {0, 99}, swing : {0, 50},
   preset : {"Off", "Swing66", "PocketB"}, amount : {100}, rotation : {0, 1},
   custom : {<<0>>}, humanize : {0, 250}]
Customs ==
  [tempo : {[num |-> 3, den |-> 40]}, mode : {"Clock"},
   rate : {[num |-> 1, den |-> 1, factor |-> f, multiply |-> TRUE] : f \in {1, 3}},
   local : {4}, unit : {4}, phase : {0}, swing : {0, 50}, preset : {"Custom"},
   amount : {50, 100}, rotation : {0}, custom : {<<-120, 120>>, <<60, -30, 7>>},
   humanize : {0}]

Grid == INSTANCE EventGrid WITH
  One <- 65536, TickUs <- 50, MaxHumanize <- 2000, MaxSerial <- 4,
  Configurations <- Straight \cup Shaped \cup Customs, config <- v1, ticks <- v2,
  master <- v3, remainder <- v4, serial <- v5, next <- v6, previous <- v7, guard <- v8

\* Every pattern of up to four steps in every direction, and every Euclidean rhythm
\* of up to eight; the patterns come round at least twice.
Drawn(n) ==
  [kind : {"Sequencer"}, length : {n}, rotation : 0..n - 1, gates : SUBSET (0..n - 1),
   direction : {"Forward", "Reverse", "PingPong", "Random"}, once : BOOLEAN]
DrawnBefore(n) ==
  [kind : {"Legacy"}, length : {n}, rotation : 0..n - 1, gates : SUBSET (0..n - 1),
   direction : {"Forward"}, once : {FALSE}]
Rhythms(n) ==
  [kind : {"Euclid"}, length : {n}, rotation : 0..n - 1, hits : 0..n + 1,
   direction : {"Forward"}, once : {FALSE}]

Order == INSTANCE StepOrder WITH
  Voices <- UNION ({Drawn(n) : n \in 1..4} \cup {DrawnBefore(n) : n \in 1..3}
                   \cup {Rhythms(n) : n \in 1..8}),
  Mix <- LAMBDA n : (n * n * 7 + n) \div 3, MaxEvents <- 16, voice <- v1,
  serial <- v2, step <- v3, played <- v4, walker <- v5, rounds <- v6

\* The push button has two keys beside the mouse; a click is told from a bounce after
\* a pass and lasts three on the pin.
Panel == INSTANCE SimulatorPanel WITH
  Keys <- {"return", "e"}, MinPulse <- 3, Debounce <- 1, MaxPending <- 1, MaxTurned <- 1,
  powered <- v1, life <- v2, keysDown <- v3, clicking <- v4, button <- v5, contact <- v6,
  owed <- v7, missed <- v8, turning <- v9, turned <- v10, counted <- v11

Jacks == INSTANCE SimulatorJacks WITH
  host <- v1, life <- v2, sync <- v3, reset <- v4, told <- v5, locked <- v6, followed <- v7

File == INSTANCE SimulatorFile WITH
  Images <- {"erased", "a", "b"}, Erased <- "erased", Missing <- None, FlushPeriod <- 3,
  process <- v1, powered <- v2, flash <- v3, file <- v4, last <- v5, since <- v6, late <- v7

\* Two presses of the mouse, the second of which may come between two steps of the audio
\* thread; and one while keys are held that press two of the panel's controls.
Gesture == INSTANCE RackEncoder WITH
  Gestures <- {1, 2}, Arm <- 2, Pulse <- 2, MaxTurned <- 1, Holds <- <<>>,
  mode <- v1, clicked <- v2, held <- v3, gesture <- v4, pointer <- v5, at <- v6, seen <- v7,
  pending <- v8, pulse <- v9, pressed <- v10, meanings <- v11, detents <- v12, settings <- v13,
  handler <- v14, heard <- v15
Hands == INSTANCE RackEncoder WITH
  Gestures <- {1}, Arm <- 1, Pulse <- 1, MaxTurned <- 0,
  Holds <- <<[key |-> "enter", control |-> "encoder"], [key |-> "left", control |-> "tap"],
             [key |-> "right", control |-> "tap"]>>,
  mode <- v1, clicked <- v2, held <- v3, gesture <- v4, pointer <- v5, at <- v6, seen <- v7,
  pending <- v8, pulse <- v9, pressed <- v10, meanings <- v11, detents <- v12, settings <- v13,
  handler <- v14, heard <- v15

\* A jack that changes faster than the firmware ticks, past the end of its queue.
Jack == INSTANCE RackInput WITH
  Capacity <- 3, MaxTicks <- 2, MaxEdges <- 9, connected <- v1, sampled <- v2,
  pending <- v3, level <- v4, edges <- v5, delivered <- v6, overflowed <- v7

\* What the modules assume of their constants; FlashStorage's own are ASSUMEd there.
ASSUME ScreensAssumption == Screens!UserInterfaceAssumption
ASSUME OutputAssumption == Output!OutputAssumption
ASSUME GridAssumption == Grid!GridAssumption
ASSUME PanelAssumption == Panel!SimulatorPanelAssumption
ASSUME FileAssumption == File!SimulatorFileAssumption
ASSUME JackAssumption == Jack!RackInputAssumption
ASSUME GestureAssumption == Gesture!RackEncoderAssumption
ASSUME HandsAssumption == Hands!RackEncoderAssumption

Unused8to10 == v8 = None /\ v9 = None /\ v10 = None
Unused7to10 == v7 = None /\ Unused8to10
Unused5to10 == v5 = None /\ v6 = None /\ Unused7to10
Unused1 ==
  v1 = None /\ v2 = None /\ v3 = None /\ v4 = None /\ Unused5to10
Unused13to14 == v13 = None /\ v14 = None
Unused2 == v11 = None /\ v12 = None /\ Unused13to14
Unused3 == v15 = None /\ v16 = None

JointInit ==
  /\ Init
  /\ \/ part = "flash" /\ Unused1 /\ Unused2 /\ Unused3
     \/ part = "screens" /\ Screens!Init /\ Unused2 /\ Unused3
     \/ part = "recorder" /\ Recorder!Init
     \/ part = "film" /\ Film!Init /\ Unused3
     \/ part = "story" /\ Story!Init /\ Unused5to10 /\ Unused2 /\ Unused3
     \/ part = "output" /\ Output!Init /\ Unused2 /\ Unused3
     \/ part = "grid" /\ Grid!Init /\ v9 = None /\ v10 = None /\ Unused2 /\ Unused3
     \/ part = "order" /\ Order!Init /\ Unused7to10 /\ Unused2 /\ Unused3
     \/ part = "panel" /\ Panel!Init /\ v12 = None /\ Unused13to14 /\ Unused3
     \/ part = "jacks" /\ Jacks!Init /\ Unused8to10 /\ Unused2 /\ Unused3
     \/ part = "file" /\ File!Init /\ Unused8to10 /\ Unused2 /\ Unused3
     \/ part = "gesture" /\ Gesture!Init /\ v16 = None
     \/ part = "hands" /\ Hands!Init /\ v16 = None
     \/ part = "jack" /\ Jack!Init /\ Unused8to10 /\ Unused2 /\ Unused3
  /\ (part # "flash" => slot = [s \in Slots |-> BlankSlot])

JointNext ==
  \/ part = "flash" /\ Next /\ UNCHANGED <<part, v1to10, v11to14, v15to16>>
  \/ part = "screens" /\ Screens!Next /\ UNCHANGED <<part, vars, v11to14, v15to16>>
  \/ part = "recorder" /\ Recorder!Next /\ UNCHANGED <<part, vars>>
  \/ part = "film" /\ Film!Next /\ UNCHANGED <<part, vars, v15to16>>
  \/ /\ part = "story" /\ Story!Next
     /\ UNCHANGED <<part, vars, v5, v6, v7, v8, v9, v10, v11to14, v15to16>>
  \/ part = "output" /\ Output!Next /\ UNCHANGED <<part, vars, v11to14, v15to16>>
  \/ part = "grid" /\ Grid!Next /\ UNCHANGED <<part, vars, v9, v10, v11to14, v15to16>>
  \/ part = "order" /\ Order!Next /\ UNCHANGED <<part, vars, v7, v8, v9, v10, v11to14, v15to16>>
  \/ part = "panel" /\ Panel!Next /\ UNCHANGED <<part, vars, v12, v13, v14, v15to16>>
  \/ part = "jacks" /\ Jacks!Next /\ UNCHANGED <<part, vars, v8, v9, v10, v11to14, v15to16>>
  \/ part = "file" /\ File!Next /\ UNCHANGED <<part, vars, v8, v9, v10, v11to14, v15to16>>
  \/ part = "gesture" /\ Gesture!Next /\ UNCHANGED <<part, vars, v16>>
  \/ part = "hands" /\ Hands!Next /\ UNCHANGED <<part, vars, v16>>
  \/ part = "jack" /\ Jack!Next /\ UNCHANGED <<part, vars, v8, v9, v10, v11to14, v15to16>>

JointSpec == JointInit /\ [][JointNext]_everything

\* UserInterface!PreviewIsOwned, RecorderRunsOnlyOnItsScreen, UnsavedWorkIsAskedFor and
\* NothingOverwrittenUnasked: the engine plays a draft for exactly the channels being
\* edited, no screen hides a running recorder, and an edited draft is lost and a preset
\* or a groove overwritten under a new name after a YES only.
DraftsAreOwnedAndAskedFor ==
  part = "screens" =>
    /\ Screens!PreviewIsOwned /\ Screens!RecorderRunsOnlyOnItsScreen
    /\ Screens!UnsavedWorkIsAskedFor /\ Screens!NothingOverwrittenUnasked

\* SettingsMenu!RowsShowWhatTheyEdit: the row under the cursor shows the setting that a
\* turn changes, one that the outputs use.
RowsShowWhatTheyEdit == part = "screens" => Screens!RowsShowWhatTheyEdit

\* EventGrid!EventsKeepTime and OrderedButForHumanizedCustom: neither the grid nor the
\* master position drifts, and Swing, Groove and Humanize leave a quantum between events.
EventsKeepTimeAndOrder ==
  part = "grid" => Grid!EventsKeepTime /\ Grid!OrderedButForHumanizedCustom

\* GrooveRecorder!TapsLandWhereTheyWereHeard: captureGrooveTap writes the step the
\* clock was at when the pin changed.
TapsLandWhereTheyWereHeard == part = "recorder" => Recorder!TapsLandWhereTheyWereHeard

\* StoryFrames!FramesShowTheirMoment and BurnedInMatchesCues, StoryRules!AcceptedStoriesRun
\* and StoriesEndAtRest: a reused frame shows what a new one would, with the text of the
\* cue at its time; a story that is accepted runs through and leaves no button down.
StoriesPlayAsWritten ==
  /\ part = "film" => Film!FramesShowTheirMoment /\ Film!BurnedInMatchesCues
  /\ part = "story" => Story!AcceptedStoriesRun /\ Story!StoriesEndAtRest

\* StepOrder!PatternsAreWalked and EuclidIsEven: the step computed from an event's
\* number is where the playhead is, and hits lie as evenly as they can.
EventsSoundAsDrawn ==
  part = "order" => Order!PatternsAreWalked /\ Order!EuclidIsEven

\* StoryOutput!FailedPublishKeepsOutput: publishStagingDirectory undoes what it began.
FailedPublishKeepsOutput == part = "output" => Output!FailedPublishKeepsOutput

\* SimulatorPanel!NoButtonHangs, ClicksAreHeard and DetentsAreWhole, RackEncoder!OneMeaning,
\* NothingIsLost and ControlsAreMeant: a click is seen, a button let go is up, a detent is
\* four transitions, a press of the mouse is a click, a push or a rotation, no turn gets
\* lost, and the firmware is shown the controls that are held.
HostPanelIsHeard ==
  /\ part = "panel" => Panel!NoButtonHangs /\ Panel!ClicksAreHeard /\ Panel!DetentsAreWhole
  /\ part = "gesture" => Gesture!OneMeaning /\ Gesture!NothingIsLost /\ Gesture!ControlsAreMeant
  /\ part = "hands" => Hands!OneMeaning /\ Hands!NothingIsLost /\ Hands!ControlsAreMeant

\* SimulatorJacks!NoLevelHangs and RackInput!EdgesArrive: the firmware is told of the
\* levels of the host's jacks to the last one.
HostJacksAreHeard ==
  /\ part = "jacks" => Jacks!NoLevelHangs
  /\ part = "jack" => Jack!EdgesArrive

\* SimulatorFile!StateIsFoundAgain: what the module stored is there after power and
\* program were switched off and on.
StateIsFoundAgain == part = "file" => File!StateIsFoundAgain
=============================================================================
