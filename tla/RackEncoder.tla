------------------------------ MODULE RackEncoder ------------------------------
(* The Rack module between its two threads (vcv/src/CLOCK.cpp).  The user       *)
(* interface queues detents, asks for the settings and holds buttons and keys;  *)
(* the audio thread takes all of it once per sample.  A press of the mouse on   *)
(* the encoder is a click, a push or a rotation, which the two threads decide   *)
(* together: the user interface when the mouse moves or is released, the audio  *)
(* thread when the press has lasted.  Each step below is one access to an       *)
(* atomic with what follows it in its thread; a handler with two has two steps. *)
EXTENDS Integers, Sequences

CONSTANTS
  Gestures,  \* bound: presses of the mouse, 1..n
  Arm,       \* kEncoderPushArmSeconds, in calls of process
  Pulse,     \* kEncoderClickPulseSeconds, in calls of process
  MaxTurned, \* bound: net detents the user turns
  Holds      \* the keyboard...Held and parameters process reads, in its order: [key, control]

Controls == {"encoder", "play", "tap", "stop"}
RackEncoderAssumption ==
  /\ Gestures \subseteq Nat /\ Arm \in Nat \ {0} /\ Pulse \in Nat /\ MaxTurned \in Nat
  /\ Holds \in Seq([key : STRING, control : Controls])

VARIABLES
  mode,      \* encoderGestureMode: "Idle", "Pending", "Press" or "Rotate"
  clicked,   \* encoderShortClickReleased
  held,      \* [now, during, through]: keys held; history: at some time in the last call of
             \* process, and all through it
  gesture,   \* the gesture begun last
  pointer,   \* [down, rotating] of the widget
  handler,   \* what the user interface's handler has still to do: "none", "turn" or "click"
  detents,   \* [queued, turned, given]: queuedEncoderDetents; history: what the user turned
             \* and what rotateEncoder was given
  settings,  \* [requested, wanted]: generalSettingsRequested; history: a request not yet served
  at,        \* where the audio thread is in process: "start", "again", "turn", "read", "arm",
             \* "click" or "keys"; "off" without a runtime
  seen,      \* encoderMode, and the gesture it was read from
  pending,   \* encoderPendingSeconds, in calls
  pulse,     \* encoderClickPulseSeconds, in calls
  heard,     \* [next, controls]: the next of Holds to be read, and what is pressed so far
  pressed,   \* controls_: the controls that are pressed
  meanings   \* history: what each gesture was taken for

shared == <<detents, settings>>
audio == <<at, seen, pending, pulse, heard, pressed>>
vars == <<mode, clicked, held, gesture, pointer, handler, shared, audio, meanings>>

Meant(what, g) == [meanings EXCEPT ![g] = @ \cup {what}]

\* Of several instances of the module in a patch one has a runtime.
Init ==
  /\ mode = "Idle" /\ clicked = FALSE /\ held = [now |-> {}, during |-> {}, through |-> {}]
  /\ gesture = 0 /\ pointer = [down |-> FALSE, rotating |-> FALSE] /\ handler = "none"
  /\ detents = [queued |-> 0, turned |-> 0, given |-> 0]
  /\ settings = [requested |-> FALSE, wanted |-> FALSE]
  /\ at \in {"start", "off"} /\ seen = [mode |-> "Idle", of |-> 0] /\ pending = 0 /\ pulse = 0
  /\ heard = [next |-> 1, controls |-> {}] /\ pressed = {}
  /\ meanings = [g \in Gestures |-> {}]

-----------------------------------------------------------------------------
\* The user interface: onButton and beginEncoderGesture.
PointerDown ==
  /\ handler = "none" /\ ~pointer.down /\ gesture + 1 \in Gestures
  /\ gesture' = gesture + 1 /\ mode' = "Pending"
  /\ pointer' = [down |-> TRUE, rotating |-> FALSE]
  /\ UNCHANGED <<clicked, held, handler, shared, audio, meanings>>

\* onDragMove past the threshold, and beginEncoderRotation: only a gesture that is still
\* undecided becomes a rotation; a rotation goes on to count its detents.
ClaimRotation == mode = "Pending" \/ mode = "Rotate"
DragMove ==
  /\ handler = "none" /\ pointer.down
  /\ LET rotating == pointer.rotating \/ ClaimRotation
     IN /\ pointer' = [pointer EXCEPT !.rotating = rotating]
        /\ mode' = IF rotating /\ ~pointer.rotating THEN "Rotate" ELSE mode
        /\ meanings' = IF rotating THEN Meant("rotation", gesture) ELSE meanings
        /\ handler' = IF rotating THEN "turn" ELSE "none"
  /\ UNCHANGED <<clicked, held, gesture, shared, audio>>

\* onDragEnd and the exchange of endEncoderGesture: an undecided gesture was a click.
PointerUp ==
  /\ handler = "none" /\ pointer.down /\ pointer' = [down |-> FALSE, rotating |-> FALSE]
  /\ mode' = "Idle"
  /\ handler' = IF mode = "Pending" THEN "click" ELSE "none"
  /\ meanings' = IF mode = "Pending" THEN Meant("click", gesture) ELSE meanings
  /\ UNCHANGED <<clicked, held, gesture, shared, audio>>
ReportClick ==
  /\ handler = "click" /\ handler' = "none" /\ clicked' = TRUE
  /\ UNCHANGED <<mode, held, gesture, pointer, shared, audio, meanings>>

\* onHoverKey and the panel's buttons: a level goes up or down, or is stored once more.
Hold(k, down) ==
  /\ handler = "none"
  /\ held' = IF down THEN [held EXCEPT !.now = @ \cup {k}, !.during = @ \cup {k}]
             ELSE [held EXCEPT !.now = @ \ {k}, !.through = @ \ {k}]
  /\ UNCHANGED <<mode, clicked, gesture, pointer, handler, shared, audio, meanings>>

\* queueEncoderDetents: the wheel, an arrow key, or the drag that is being handled, which
\* may not have come far enough for a detent.
Turn(d) ==
  /\ handler \in {"none", "turn"} /\ handler' = "none"
  /\ detents.turned + d \in -MaxTurned..MaxTurned
  /\ detents' = [detents EXCEPT !.queued = @ + d, !.turned = @ + d]
  /\ UNCHANGED <<mode, clicked, held, gesture, pointer, settings, audio, meanings>>

\* requestGeneralSettings, from the context menu.
AskForSettings ==
  /\ handler = "none" /\ settings' = [requested |-> TRUE, wanted |-> TRUE]
  /\ UNCHANGED <<mode, clicked, held, gesture, pointer, handler, detents, audio, meanings>>

-----------------------------------------------------------------------------
\* The audio thread, in process.  It takes the request for the settings, which the clock
\* serves once it runs; before, the request is put back.
TakeRequest(running) ==
  /\ at = "start" /\ at' = IF settings.requested /\ ~running THEN "again" ELSE "turn"
  /\ settings' = [requested |-> FALSE, wanted |-> settings.wanted /\ ~(settings.requested /\ running)]
  /\ held' = [held EXCEPT !.during = held.now, !.through = held.now]
  /\ UNCHANGED <<mode, clicked, gesture, pointer, handler, detents, seen, pending, pulse, heard,
                 pressed, meanings>>
PutRequestBack ==
  /\ at = "again" /\ at' = "turn" /\ settings' = [settings EXCEPT !.requested = TRUE]
  /\ UNCHANGED <<mode, clicked, held, gesture, pointer, handler, detents, seen, pending, pulse,
                 heard, pressed, meanings>>

\* It takes the detents that were queued.
TakeDetents ==
  /\ at = "turn" /\ at' = "read"
  /\ detents' = [detents EXCEPT !.queued = 0, !.given = @ + detents.queued]
  /\ UNCHANGED <<mode, clicked, held, gesture, pointer, handler, settings, seen, pending, pulse,
                 heard, pressed, meanings>>

\* It reads the mode and counts how long it was undecided; the count goes on from one
\* gesture to the next when it saw nothing else in between.
ReadMode ==
  /\ at = "read"
  /\ LET waited == IF mode = "Pending" THEN pending + 1 ELSE 0
     IN /\ pending' = IF waited > Arm THEN Arm ELSE waited
        /\ at' = IF waited >= Arm THEN "arm" ELSE "click"
  /\ seen' = [mode |-> mode, of |-> gesture]
  /\ UNCHANGED <<mode, clicked, held, gesture, pointer, handler, shared, pulse, heard, pressed,
                 meanings>>

\* The hold has lasted: an undecided gesture becomes a push.
ArmPush ==
  /\ at = "arm" /\ at' = "click"
  /\ mode' = IF mode = "Pending" THEN "Press" ELSE mode
  /\ seen' = [mode |-> mode', of |-> gesture]
  /\ meanings' = IF mode' = "Press" THEN Meant("push", gesture) ELSE meanings
  /\ UNCHANGED <<clicked, held, gesture, pointer, handler, shared, pending, pulse, heard, pressed>>

\* A click begins a pulse.
TakeClick ==
  /\ at = "click" /\ at' = "keys" /\ clicked' = FALSE
  /\ pulse' = IF clicked THEN Pulse ELSE pulse
  /\ heard' = [next |-> 1, controls |-> IF seen.mode = "Press" THEN {"encoder"} ELSE {}]
  /\ UNCHANGED <<mode, held, gesture, pointer, handler, shared, seen, pending, pressed, meanings>>

\* It reads the levels one by one; each control is pressed by any of its own.
ReadHold ==
  /\ at = "keys" /\ heard.next \in DOMAIN Holds
  /\ LET hold == Holds[heard.next]
     IN heard' = [next |-> heard.next + 1,
                  controls |-> heard.controls \cup (IF hold.key \in held.now THEN {hold.control} ELSE {})]
  /\ UNCHANGED <<mode, clicked, held, gesture, pointer, handler, shared, at, seen, pending, pulse,
                 pressed, meanings>>

\* setPanelControls; the encoder is pressed during a pulse, too.
SetControls ==
  /\ at = "keys" /\ heard.next \notin DOMAIN Holds /\ at' = "start"
  /\ pressed' = heard.controls \cup (IF pulse > 0 THEN {"encoder"} ELSE {})
  /\ pulse' = IF pulse > 0 THEN pulse - 1 ELSE 0
  /\ UNCHANGED <<mode, clicked, held, gesture, pointer, handler, shared, seen, pending, heard,
                 meanings>>

Keys == {Holds[i].key : i \in DOMAIN Holds}
User ==
  \/ PointerDown \/ DragMove \/ PointerUp \/ ReportClick \/ AskForSettings
  \/ \E k \in Keys, down \in BOOLEAN : Hold(k, down)
  \/ \E d \in {-1, 0, 1} : Turn(d)
Audio ==
  \/ \E running \in BOOLEAN : TakeRequest(running)
  \/ PutRequestBack \/ TakeDetents \/ ReadMode \/ ArmPush \/ TakeClick \/ ReadHold \/ SetControls
Next == User \/ Audio
Spec == Init /\ [][Next]_vars

-----------------------------------------------------------------------------
\* A gesture has one meaning for as long as the mouse is down, in whatever order the two
\* threads decide (CLOCK.cpp:199-208, 239-245, 269-289).
OneMeaning == \A g \in Gestures : \A a, b \in meanings[g] : a = b

\* No detent and no request is lost between the threads: what was turned was given to the
\* firmware or waits, and a request that was not served is set or about to be set again
\* (CLOCK.cpp:189-193, 211-213, 255-266).
NothingIsLost ==
  /\ detents.turned = detents.given + detents.queued
  /\ settings.wanted => settings.requested \/ at = "again"

\* What the firmware is shown is what is held: each control that a key or button held all
\* through a call of process, each at some time in it, and the encoder for a gesture that
\* was a click or a push; one that became a rotation never presses it
\* (CLOCK.cpp:293-316).
ControlsAreMeant ==
  at = "start" =>
    /\ \A h \in {Holds[i] : i \in DOMAIN Holds} : h.key \in held.through => h.control \in pressed
    /\ \A c \in pressed :
         \/ \E i \in DOMAIN Holds : Holds[i].control = c /\ Holds[i].key \in held.during
         \/ c = "encoder" /\ \E g \in Gestures : meanings[g] \cap {"click", "push"} # {}
=============================================================================
