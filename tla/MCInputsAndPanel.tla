--------------------------- MODULE MCInputsAndPanel ---------------------------
(***************************************************************************)
(* One run for the parts between the user's hands and the firmware's       *)
(* state: the edge queue of the jacks, the TAP estimator, the encoder, the *)
(* settings it edits, the display panel and the leaderboard of the hidden  *)
(* games.  They share no state: a behaviour is about one of them, `part'.  *)
(* The queue has its own variables, which rest in the other behaviours;    *)
(* the other modules take turns with v1, v2, ...                           *)
(*                                                                         *)
(* The ring has three slots instead of 16, with more edges than slots, so  *)
(* that it fills, drains and overflows again.                              *)
(***************************************************************************)
EXTENDS EdgeQueue

CONSTANTS None

VARIABLES
  part,
  v1, v2, v3, v4, v5, v6, v7, v8, v9, v10, v11, v12, v13, v14, v15, v16

v1to4 == <<v1, v2, v3, v4>>
v5to8 == <<v5, v6, v7, v8>>
v9to10 == <<v9, v10>>
v11only == <<v11>>
v12to16 == <<v12, v13, v14, v15, v16>>
everything == <<part, vars, v1to4, v5to8, v9to10, v11only, v12to16>>

\* Two gaps are averaged; the tempo range cuts the longest and the shortest.
Taps == INSTANCE TapTempo WITH
  MinGap <- 2, MaxGap <- 4, Window <- 2, Minute <- 60, MinBpm <- 16,
  MaxBpm <- 28, MicrosWrap <- 50, MaxDelay <- 2, MaxTime <- 10, now <- v1,
  passAt <- v2, slot <- v3, previous <- v4, intervals <- v5, sequenceAt <- v6,
  bpm <- v7, heard <- v8

\* Turns of more detents than one report may carry, in either direction.
Encoder == INSTANCE RotaryEncoder WITH
  PerDetent <- 4, MaximumPending <- 6, MaximumReport <- 1, MaxTurn <- 6,
  shaft <- v1, unread <- v2, anchor <- v3, remainder <- v4, pending <- v5,
  pushed <- v6, rest <- v7, counted <- v8, bounced <- v9, slip <- v10

\* Two channels, and every sequence of three edits of any kind.
Settings == INSTANCE SettingsEditor WITH
  Channels <- {1, 2}, Deltas <- {-2, 1}, LowestBpm <- 1, HighestBpm <- 3,
  MaxMinutes <- 2, LastRole <- 3, MaxSteps <- 2, GrooveLengths <- <<1, 2>>,
  CustomLength <- 3, MaxPlain <- 1, MaxEdits <- 3, state <- v1, engine <- v2,
  clipboard <- v3, edits <- v4

\* Three runs on a board of two entries, signed with two initials: it fills, and then an
\* entry falls off it.
Scores == INSTANCE Arcade WITH
  MaxEntries <- 2, VisibleRows <- 1, Letters <- 2, NameLength <- 2,
  MaxScore <- 2, MaxRuns <- 3, Outcomes <- {"ok", "failed", "late"},
  NoRecord <- None, record <- v1, legacy <- v2, mode <- v3, table <- v4,
  pending <- v5, initials <- v6, position <- v7, letter <- v8, scroll <- v9,
  rank <- v10, history <- v11

\* Both buses, with and without a screensaver, refreshes that are not answered.
Oled == INSTANCE Display WITH
  Buses <- {"spi", "i2c"}, Savers <- BOOLEAN, SaverAfter <- 1, DimAfter <- 1,
  OffAfter <- 2, MaxEvents <- 2, Losses <- {"nak"}, bus <- v1, hasSaver <- v2,
  screen <- v3, step <- v4, stopped <- v5, idle <- v6, turned <- v7, ui <- v8,
  queued <- v9, presented <- v10, fresh <- v11, transfer <- v12, ram <- v13,
  column <- v14, panel <- v15, events <- v16

ASSUME ScoresAssumption == Scores!ArcadeAssumption

Unused1 == v1 = None /\ v2 = None /\ v3 = None /\ v4 = None
Unused2 == v5 = None /\ v6 = None /\ v7 = None /\ v8 = None
Unused3 == v9 = None /\ v10 = None
Unused4 == v11 = None
Unused5 == v12 = None /\ v13 = None /\ v14 = None /\ v15 = None
   /\ v16 = None

JointInit ==
  /\ Init
  /\ \/ part = "queue" /\ Unused1 /\ Unused2 /\ Unused3 /\ Unused4 /\ Unused5
     \/ part = "taps" /\ Taps!Init /\ Unused3 /\ Unused4 /\ Unused5
     \/ part = "encoder" /\ Encoder!Init /\ Unused4 /\ Unused5
     \/ part = "settings" /\ Settings!Init /\ Unused2 /\ Unused3 /\ Unused4 /\ Unused5
     \/ part = "arcade" /\ Scores!Init /\ Unused5
     \/ part = "display" /\ Oled!Init

JointNext ==
  \/ part = "queue" /\ Next /\ UNCHANGED <<part, v1to4, v5to8, v9to10, v11only, v12to16>>
  \/ part = "taps" /\ Taps!Next /\ UNCHANGED <<part, vars, v9to10, v11only, v12to16>>
  \/ part = "encoder" /\ Encoder!Next /\ UNCHANGED <<part, vars, v11only, v12to16>>
  \/ part = "settings" /\ Settings!Next /\ UNCHANGED <<part, vars, v5to8, v9to10, v11only, v12to16>>
  \/ part = "arcade" /\ Scores!Next /\ UNCHANGED <<part, vars, v12to16>>
  \/ part = "display" /\ Oled!Next /\ UNCHANGED <<part, vars>>

\* EdgeQueue's Fairness, for the behaviours that are about the queue.
JointSpec ==
  /\ JointInit /\ [][JointNext]_everything
  /\ WF_vars(part = "queue" /\ TickBegin)
  /\ WF_vars(part = "queue" /\ Pop)
  /\ WF_vars(part = "queue" /\ TickEnd)
  /\ SF_vars(part = "queue" /\ Push)

\* TapTempo!AverageOfRecentTaps: registerTap sets the tempo of the taps heard.
AverageOfRecentTaps == part = "taps" => Taps!AverageOfRecentTaps

\* RotaryEncoder!TurnsAreCountedAtRest: from rest to rest the panel hands out
\* exactly the detents turned.
TurnsAreCountedAtRest == part = "encoder" => Encoder!TurnsAreCountedAtRest

\* SettingsEditor!EngineHearsEveryEdit and EditsStayLoadable: the engine has the
\* configuration on display, and that passes the validation of a saved state, so that
\* the next boot restores it.
EditsAreHeardAndLoadable ==
  part = "settings" => Settings!EngineHearsEveryEdit /\ Settings!EditsStayLoadable

\* Arcade!BoardIsTopOfHistory: the board holds the best of all scores entered.
BoardIsTopOfHistory == part = "arcade" => Scores!BoardIsTopOfHistory

\* Display!PanelShowsTheScreen: the glass holds the interface's last frame.
PanelShowsTheScreen == part = "display" => Oled!PanelShowsTheScreen
=============================================================================
