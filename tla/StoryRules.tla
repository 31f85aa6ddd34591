------------------------------ MODULE StoryRules ------------------------------
(* Which stories the Storybook tool accepts, and what becomes of one that it    *)
(* accepts.  An entry of the YAML document is decoded                           *)
(* (sim/tutorial/story_parser.cpp), checked (story_validator.cpp) and carried   *)
(* out (story_runner.cpp) through the port to the simulator                     *)
(* (story_simulator_port.cpp).  Each of them walks the story from the front,    *)
(* the later ones only if the earlier ones found nothing; here they walk it     *)
(* side by side, up to the first issue or failure.  StoryFrames has what the    *)
(* same run makes of time, frames and cues.                                     *)
(*                                                                              *)
(* A node is its name and its fields.  A field is a number, a text or Malformed *)
(* (empty, or of another shape than its decoder reads); a node that is no       *)
(* mapping, where one is read, has a field nobody knows.                        *)
EXTENDS Integers

CONSTANTS
  Entries,     \* nodes a story may be made of: [name, given: fields to values]
  WellFormed,  \* narration ids in lower-case kebab-case
  Regions,     \* names of OLED regions (story_focus_regions.cpp)
  Malformed,   \* no text
  None         \* no narration id

VARIABLES
  place,    \* where the story stands: "between" scenes, in a "tutorial", at its "end"
  filled,   \* the story has scenes, and the tutorial it is in has actions
  checked,  \* validateStory: [issue, sync, reset, held, ids, open]
  run       \* runner and simulator: [power, sync, reset, down, source, beat, begun, again, failure]

vars == <<place, filled, checked, run>>

-----------------------------------------------------------------------------
(* Decoding.                                                                  *)

\* required: the fields a node must have.
Required ==
  [chapter |-> {"duration_ms"}, text |-> {"duration_ms"}, callout |-> {"duration_ms", "type"},
   tutorial |-> {"actions"},
   wait_ms |-> {"value"}, beat_end |-> {"value"}, beat |-> {"narration", "duration_ms"},
   encoder |-> {"direction"}, encoder_push |-> {}, button |-> {"name"}, power |-> {"state"},
   sync_cable |-> {"state"}, rst_cable |-> {"state"}, sync_generator |-> {"state"},
   rst_generator |-> {"state"}, sync_source |-> {}, rst_pulse |-> {}, subtitle |-> {"text"},
   scope |-> {"state"}, focus |-> {"target"}, wait_until |-> {}, assert |-> {}]

Card == {"number", "type", "title", "subtitle", "body", "steps", "duration_ms", "transition",
         "narration"}

\* rejectUnknown: the fields a node may have.
Known ==
  [chapter |-> Card, text |-> Card, callout |-> Card,
   tutorial |-> {"subtitle", "actions", "transition"},
   wait_ms |-> {"value"}, beat_end |-> {"value"}, beat |-> {"narration", "duration_ms"},
   encoder |-> {"direction", "detents", "speed"}, encoder_push |-> {"hold_ms"},
   button |-> {"name", "state"}, power |-> {"state"}, sync_cable |-> {"state"},
   rst_cable |-> {"state"}, sync_generator |-> {"state"}, rst_generator |-> {"state"},
   sync_source |-> {"bpm", "ppqn", "waveform"}, rst_pulse |-> {}, subtitle |-> {"text"},
   scope |-> {"state", "channel"},
   focus |-> {"target", "label", "placement", "duration_ms", "x", "y", "width", "height"},
   wait_until |-> {"external_sync", "transport", "power", "timeout_ms"},
   assert |-> {"clock_source", "transport", "power", "sync_cable", "rst_cable"}]

Conditions == [wait_until |-> Known.wait_until \ {"timeout_ms"}, assert |-> Known.assert]
Scenes == {"chapter", "text", "callout", "tutorial"}
Actions == DOMAIN Known \ Scenes

Targets == Regions \cup {"encoder", "play", "tap", "stop", "stop_back", "sync", "rst", "reset",
                         "oled_region"}
Milliseconds == 1..3600000

\* What the decoder of a field takes where it does not depend on the node.
Legal ==
  [direction |-> {"clockwise", "counter_clockwise", "counter-clockwise"}, detents |-> 1..4096,
   speed |-> {"fast", "normal"}, hold_ms |-> 1..10000,
   name |-> {"PLAY", "TAP", "STOP", "STOP_BACK"},
   bpm |-> 1..999, ppqn |-> {1, 2, 4, 24}, waveform |-> {"square", "sine", "triangle"},
   channel |-> {"visible"}, target |-> Targets,
   placement |-> {"auto", "left", "right", "above", "below"},
   x |-> 0..127, y |-> 0..63, width |-> 1..128, height |-> 1..64, timeout_ms |-> Milliseconds,
   number |-> 1..9999, type |-> {"tip", "warning", "recipe"}, transition |-> {"cut", "fade"}]

States ==
  [button |-> {"down", "up"}, power |-> {"on", "off"}, scope |-> {"show", "hide"},
   sync_cable |-> {"connect", "disconnect"}, rst_cable |-> {"connect", "disconnect"},
   sync_generator |-> {"run", "hold"}, rst_generator |-> {"run", "hold"}]

\* Any text goes where nothing else is said.
IsLegal(name, field, value) ==
  /\ value # Malformed
  /\ field \in DOMAIN Legal => value \in Legal[field]
  /\ field = "state" => value \in States[name]
  /\ field = "duration_ms" => value \in IF name = "focus" THEN 0..60000 ELSE Milliseconds
  /\ name = "wait_ms" => value \in Milliseconds

Has(e, field) == field \in DOMAIN e.given
Value(e, field, default) == IF Has(e, field) THEN e.given[field] ELSE default
Region == {"x", "y", "width", "height"}
OnOled(e) == e.name = "focus" /\ Value(e, "target", "") = "oled_region"

\* The fields that are decoded at all.
Decoded(e) ==
  DOMAIN e.given \ (IF e.name = "focus" /\ ~OnOled(e) THEN Region
                    ELSE IF e.name \in {"chapter", "text"} THEN {"type", "steps"} ELSE {})

\* decodeAction, or decodeScene, has nothing to object to.
Parses(e, names) ==
  /\ e.name \in names
  /\ Required[e.name] \subseteq DOMAIN e.given /\ DOMAIN e.given \subseteq Known[e.name]
  /\ \A field \in Decoded(e) : IsLegal(e.name, field, e.given[field])
  /\ OnOled(e) => Region \subseteq DOMAIN e.given
  /\ e.name = "scope" /\ Value(e, "state", "") = "show" => Has(e, "channel")
  /\ e.name = "sync_source" => DOMAIN e.given # {}
  /\ e.name \in DOMAIN Conditions =>
       \E c \in Conditions[e.name] : DOMAIN e.given \cap Conditions[e.name] = {c}

\* Fields as the runner finds them: StoryAction's default stays where none was given.
Direction(e) ==
  IF Value(e, "direction", "") = "clockwise" THEN 1
  ELSE IF Value(e, "direction", "") \in {"counter_clockwise", "counter-clockwise"} THEN -1 ELSE 0
Control(e) == IF Value(e, "name", "PLAY") = "STOP" THEN "STOP_BACK" ELSE Value(e, "name", "PLAY")
On(e) == Value(e, "state", "off") \in {"on", "connect", "run", "down"}
Condition(e) == CHOOSE c \in Conditions[e.name] : Has(e, c)
Id(e) == IF e.name = "beat_end" THEN Value(e, "value", None) ELSE Value(e, "narration", None)
Holds(e) == e.name = "button" /\ Has(e, "state")

-----------------------------------------------------------------------------
(* What the validator objects to.                                             *)

\* expectedValid
Expected ==
  [external_sync |-> {"locked", "unlocked"}, transport |-> {"playing", "paused", "stopped"},
   power |-> {"on", "off"}, clock_source |-> {"auto", "internal", "external"},
   sync_cable |-> {"connected", "disconnected"}, rst_cable |-> {"connected", "disconnected"}]

IdIssue(e) == Id(e) \notin WellFormed \/ Id(e) \in checked.ids

\* A scene, before its actions are looked at.
SceneIssue(e) ==
  \/ Value(e, "transition", "cut") # "cut"
  \/ Has(e, "narration") /\ IdIssue(e)
  \/ e.name # "tutorial" /\ ~Has(e, "title")
  \/ e.name = "text" /\ ~Has(e, "body")
  \/ /\ e.name = "callout"
     /\ IF e.given.type = "recipe" THEN Value(e, "steps", "none") = "none" ELSE ~Has(e, "body")

ActionIssue(e) ==
  \/ e.name = "beat" /\ (IdIssue(e) \/ checked.open # None)
  \/ e.name = "beat_end" /\ (Id(e) \notin WellFormed \/ checked.open # Id(e))
  \/ Holds(e) /\ (On(e) <=> Control(e) \in checked.held)
  \/ e.name = "sync_generator" /\ ~checked.sync
  \/ e.name \in {"rst_generator", "rst_pulse"} /\ ~checked.reset
  \/ OnOled(e) /\ (e.given.x + e.given.width > 128 \/ e.given.y + e.given.height > 64)
  \/ e.name \in DOMAIN Conditions /\ e.given[Condition(e)] \notin Expected[Condition(e)]

-----------------------------------------------------------------------------
\* A simulator as it starts, and the setup of the story.
Init ==
  /\ place = "between" /\ filled = FALSE
  /\ checked = [issue |-> FALSE, sync |-> FALSE, reset |-> FALSE, held |-> {}, ids |-> {}, open |-> None]
  /\ \E power \in BOOLEAN :
       run = [power |-> power, sync |-> FALSE, reset |-> FALSE, down |-> {},
              source |-> [milli |-> 120000, ppqn |-> 1], beat |-> None, begun |-> {},
              again |-> FALSE, failure |-> "none"]

Going == ~checked.issue /\ run.failure = "none"
Reject == checked' = [checked EXCEPT !.issue = TRUE] /\ UNCHANGED <<place, filled, run>>

\* The runner goes on with `next' unless the port objects (requirePort, addIssue).
RunsOn(error, next) == run' = IF error = "none" THEN next ELSE [run EXCEPT !.failure = error]
Powered == IF run.power THEN "none" ELSE "poweredOff"
Cable(connected) == IF connected THEN "none" ELSE "cableRequired"

\* NarrationBegin of a scene or beat.
Narrated(id) == [run EXCEPT !.begun = @ \cup {id}, !.again = @ \/ id \in run.begun]

-----------------------------------------------------------------------------
(* Actions of a tutorial: what the validator remembers of one it has no issue *)
(* with, and what runner and port do.                                         *)

\* StoryNarrationBeat::begin
BeginBeat(e) ==
  /\ e.name = "beat"
  /\ checked' = [checked EXCEPT !.ids = @ \cup {Id(e)}, !.open = Id(e)]
  /\ RunsOn(IF run.beat = None THEN "none" ELSE "nestedBeat", [Narrated(Id(e)) EXCEPT !.beat = Id(e)])

\* StoryNarrationBeat::finish; late: the actions in the beat took longer than its audio.
EndBeat(e, late) ==
  /\ e.name = "beat_end"
  /\ checked' = [checked EXCEPT !.open = None]
  /\ RunsOn(IF run.beat # Id(e) THEN "noSuchBeat" ELSE IF late THEN "overBudget" ELSE "none",
            [run EXCEPT !.beat = None])

\* rotateEncoderDetent for every detent.
Rotate(e) ==
  /\ e.name = "encoder" /\ UNCHANGED checked
  /\ RunsOn(IF run.power /\ Direction(e) = 0 THEN "invalidParameter" ELSE Powered, run)

\* executeButton: down and up again, also of a button that was held down before.
Click(e) ==
  /\ e.name \in {"encoder_push", "button"} /\ ~Holds(e) /\ UNCHANGED checked
  /\ RunsOn(Powered, [run EXCEPT !.down = IF e.name = "button" THEN @ \ {Control(e)} ELSE @])

\* setModuleControl with a level of its own.
Hold(e) ==
  LET with(held) == IF On(e) THEN held \cup {Control(e)} ELSE held \ {Control(e)}
  IN  /\ Holds(e)
      /\ checked' = [checked EXCEPT !.held = with(@)]
      /\ RunsOn(Powered, [run EXCEPT !.down = with(@)])

SetPower(e) == e.name = "power" /\ UNCHANGED checked /\ run' = [run EXCEPT !.power = On(e)]

\* setPatchConnected
Patch(e) ==
  \/ /\ e.name = "sync_cable"
     /\ checked' = [checked EXCEPT !.sync = On(e)] /\ run' = [run EXCEPT !.sync = On(e)]
  \/ /\ e.name = "rst_cable"
     /\ checked' = [checked EXCEPT !.reset = On(e)] /\ run' = [run EXCEPT !.reset = On(e)]

\* setGeneratorRunning
Generator(e) ==
  /\ e.name \in {"sync_generator", "rst_generator"} /\ UNCHANGED checked
  /\ RunsOn(Cable(IF e.name = "sync_generator" THEN run.sync ELSE run.reset), run)

\* configureSyncSource, with what the simulator is set to for what the story leaves out.
Source(e) ==
  LET source == [milli |-> IF Has(e, "bpm") THEN e.given.bpm * 1000 ELSE run.source.milli,
                 ppqn  |-> Value(e, "ppqn", run.source.ppqn)]
  IN  /\ e.name = "sync_source" /\ UNCHANGED checked
      /\ RunsOn(IF source.milli < 1000 \/ source.milli > 999000 \/ source.ppqn \notin {1, 2, 4, 24}
                THEN "invalidParameter" ELSE "none",
                [run EXCEPT !.source = source])

\* triggerResetPulse asks for the cable first.
PulseReset(e) ==
  /\ e.name = "rst_pulse" /\ UNCHANGED checked
  /\ RunsOn(IF run.reset THEN Powered ELSE "cableRequired", run)

\* waitConditionMatches and assertionMatches: power and cables are known here; lock,
\* transport and clock source are the firmware's and may be anything.
Matches(e, other) ==
  LET c == Condition(e)
      is == e.given[c]
  IN  IF c = "power" THEN run.power = (is = "on")
      ELSE IF c = "sync_cable" THEN run.sync = (is = "connected")
      ELSE IF c = "rst_cable" THEN run.reset = (is = "connected")
      ELSE is \in Expected[c] /\ other
Await(e, other) ==
  /\ e.name \in DOMAIN Conditions /\ UNCHANGED checked
  /\ RunsOn(IF Matches(e, other) THEN "none"
            ELSE IF e.name = "assert" THEN "assertionFailed" ELSE "timeout", run)

\* Waits, subtitles, scope and focus are StoryFrames' matter.
Present(e) ==
  e.name \in {"wait_ms", "subtitle", "scope", "focus"} /\ UNCHANGED <<checked, run>>

-----------------------------------------------------------------------------
\* A title card, with or without a narration.
ShowCard(e) ==
  /\ Going /\ place = "between" /\ e.name # "tutorial"
  /\ IF Parses(e, Scenes) /\ ~SceneIssue(e)
     THEN /\ IF Has(e, "narration")
             THEN checked' = [checked EXCEPT !.ids = @ \cup {Id(e)}] /\ run' = Narrated(Id(e))
             ELSE UNCHANGED <<checked, run>>
          /\ filled' = TRUE /\ UNCHANGED place
     ELSE Reject

BeginTutorial(e) ==
  /\ Going /\ place = "between" /\ e.name = "tutorial"
  /\ IF Parses(e, Scenes) /\ ~SceneIssue(e)
     THEN place' = "tutorial" /\ filled' = FALSE /\ UNCHANGED <<checked, run>>
     ELSE Reject

\* other: what time and firmware decide.
Act(e, other) ==
  /\ Going /\ place = "tutorial"
  /\ IF Parses(e, Actions) /\ ~ActionIssue(e)
     THEN /\ filled' = TRUE /\ UNCHANGED place
          /\ \/ BeginBeat(e) \/ EndBeat(e, other)
             \/ Rotate(e) \/ Click(e) \/ Hold(e) \/ SetPower(e)
             \/ Patch(e) \/ Generator(e) \/ Source(e) \/ PulseReset(e)
             \/ Await(e, other) \/ Present(e)
     ELSE Reject

\* A tutorial has actions and leaves no beat open.
EndTutorial ==
  /\ Going /\ place = "tutorial"
  /\ IF filled /\ checked.open = None
     THEN place' = "between" /\ UNCHANGED <<filled, checked, run>>
     ELSE Reject

\* The last scene was read: there was one, and no button may be held.
EndStory ==
  /\ Going /\ place = "between"
  /\ IF filled /\ checked.held = {}
     THEN place' = "end" /\ UNCHANGED <<filled, checked, run>>
     ELSE Reject

Next ==
  \/ \E e \in Entries : ShowCard(e) \/ BeginTutorial(e) \/ \E other \in BOOLEAN : Act(e, other)
  \/ EndTutorial \/ EndStory

Spec == Init /\ [][Next]_vars

-----------------------------------------------------------------------------
\* A story that parser and validator accept fails, if at all, for what only its run
\* can show: the module is off, a condition does not come about, or the actions of a
\* beat take longer than its audio.  No port and no beat objects to what was accepted.
AcceptedStoriesRun ==
  run.failure \in {"none", "poweredOff", "timeout", "assertionFailed", "overBudget"}

\* "Every explicit down must be balanced by up before the story ends", and narration ids
\* are unique inside one story (docs/tutorials/STORY_SCHEMA_1.md): a story that was played
\* to its end leaves no button down and no beat open, and began each cue once.
StoriesEndAtRest ==
  place = "end" =>
    run.down = {} /\ run.beat = None /\ ~run.again /\ run.begun = checked.ids
=============================================================================
