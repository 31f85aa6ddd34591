----------------------------- MODULE SimulatorPanel -----------------------------
(* The front panel of the desktop simulator (sim/simulator_input.cpp and        *)
(* sim/simulator_runtime.cpp): keys and a mouse drive the pins that the         *)
(* firmware's debounced buttons and its quadrature counter read.  A click may   *)
(* be shorter than the debounce time, so a press lasts a minimum on the pin and *)
(* a release that comes earlier is deferred.  A step of time is one foreground  *)
(* pass; the power may be switched at any moment, with keys still held.         *)
EXTENDS Integers

CONSTANTS
  Keys,        \* the keys bound to the encoder's push button; a mouse may click it as well
  MinPulse,    \* kMinimumButtonPulseUs, in passes
  Debounce,    \* kDebounceMs, in passes
  MaxPending,  \* 64: detents waiting to be turned
  MaxTurned    \* bound: net detents accepted since the power came on

SimulatorPanelAssumption ==
  /\ Debounce \in Nat /\ MinPulse \in Nat /\ Debounce + 2 <= MinPulse
  /\ MaxPending \in Nat /\ MaxTurned \in Nat

VARIABLES
  powered,    \* poweredOn_
  life,       \* simulatorLifecycle_: "Booting", "Game" or "Running"
  keysDown,   \* the keys the user holds
  clicking,   \* hasActiveMouseButton_
  button,     \* the push button [pressed, low, remaining, deferred]: buttonPressed_, the pin, the
              \* passes to minimumButtonReleaseUs_ and deferredButtonRelease_
  contact,    \* [raw, stable, age]: the firmware's DebouncedButton
  owed,       \* history: the pin went low while the firmware was listening
  missed,     \* history: a pin that was owed a press was raised before the firmware saw it
  turning,    \* [pending, direction, index, phase]: the encoder's sequence
  turned,     \* history: detents accepted since the power came on
  counted     \* history: transitions a quadrature counter has seen since then

vars == <<powered, life, keysDown, clicking, button, contact, owed, missed, turning,
          turned, counted>>

Clamp(x, limit) == IF x > limit THEN limit ELSE IF x < -limit THEN -limit ELSE x
AtRest == [pending |-> 0, direction |-> 0, index |-> 0, phase |-> 3]
Released == [raw |-> FALSE, stable |-> FALSE, age |-> 0]

\* kClockwisePhases and kCounterClockwisePhases; A is the upper bit, B the lower.
Phases(direction) == IF direction > 0 THEN <<3, 1, 0, 2, 3>> ELSE <<3, 2, 0, 1, 3>>
\* What a quadrature counter makes of the move from one phase to another.
Transition(from, to) ==
  CASE <<from, to>> \in {<<3, 1>>, <<1, 0>>, <<0, 2>>, <<2, 3>>} -> 1
    [] <<from, to>> \in {<<1, 3>>, <<0, 1>>, <<2, 0>>, <<3, 2>>} -> -1
    [] OTHER -> 0

Init ==
  /\ powered = TRUE /\ life = "Booting" /\ keysDown = {} /\ clicking = FALSE
  /\ button = [pressed |-> FALSE, low |-> FALSE, remaining |-> 0, deferred |-> FALSE]
  /\ contact = Released /\ owed = FALSE /\ missed = FALSE
  /\ turning = AtRest /\ turned = 0 /\ counted = 0

-----------------------------------------------------------------------------
\* Mutant: a new press leaves the release of the last one pending.
SetButtonStillDeferred(b, down) ==
  IF ~powered THEN [b EXCEPT !.pressed = down]
  ELSE IF down THEN [b EXCEPT !.pressed = TRUE, !.low = TRUE, !.remaining = MinPulse]
  ELSE IF b.remaining > 0 THEN [b EXCEPT !.pressed = FALSE, !.deferred = TRUE]
  ELSE [b EXCEPT !.pressed = FALSE, !.low = FALSE]

\* setButton: a press lasts MinPulse passes on the pin.
SetButton(b, down) ==
  IF ~powered THEN [b EXCEPT !.pressed = down]
  ELSE IF down THEN [pressed |-> TRUE, low |-> TRUE, remaining |-> MinPulse, deferred |-> FALSE]
  ELSE IF b.remaining > 0 THEN [b EXCEPT !.pressed = FALSE, !.deferred = TRUE]
  ELSE [b EXCEPT !.pressed = FALSE, !.low = FALSE]

\* Does this step raise the pin before the debounced contact follows it?
Missed == owed /\ ~button'.low /\ ~contact.stable

Press(down) ==
  /\ button' = SetButton(button, down)
  /\ owed' = (powered /\ IF button'.low /\ ~button.low THEN life = "Running"
                          ELSE owed /\ button'.low)
  /\ missed' = (missed \/ Missed)
  /\ UNCHANGED <<powered, life, contact, turning, turned, counted>>

\* handleKeyboard: either key presses the button and either releases it; repeated
\* events of a held key are dropped.
KeyDown(key) == key \notin keysDown /\ keysDown' = keysDown \cup {key} /\ Press(TRUE) /\ UNCHANGED clicking
KeyUp(key) == key \in keysDown /\ keysDown' = keysDown \ {key} /\ Press(FALSE) /\ UNCHANGED clicking

\* handleMouseButton: the button that was clicked is released wherever the mouse is.
MouseDown == ~clicking /\ clicking' = TRUE /\ Press(TRUE) /\ UNCHANGED keysDown
MouseUp == clicking /\ clicking' = FALSE /\ Press(FALSE) /\ UNCHANGED keysDown

\* rotateEncoder, from the arrow keys and their repeats or the wheel.
Rotate(detents) ==
  LET pending == Clamp(turning.pending + detents, MaxPending)
      accepted == turned + pending - turning.pending
  IN /\ powered /\ accepted \in -MaxTurned..MaxTurned
     /\ turning' = [turning EXCEPT !.pending = pending]
     /\ turned' = accepted
     /\ UNCHANGED <<powered, life, keysDown, clicking, button, contact, owed, missed, counted>>

-----------------------------------------------------------------------------
\* serviceEncoderSequence: one phase of the detent in hand, or of the next one.
EncoderPass(t) ==
  IF t.direction = 0 /\ t.pending = 0 THEN t
  ELSE LET begun == IF t.direction # 0 THEN t
                    ELSE LET d == IF t.pending > 0 THEN 1 ELSE -1
                         IN [t EXCEPT !.direction = d, !.pending = @ - d, !.index = 1]
           last == begun.index = 4
       IN [begun EXCEPT !.phase = Phases(begun.direction)[begun.index + 1],
                        !.direction = IF last THEN 0 ELSE @,
                        !.index = IF last THEN 0 ELSE @ + 1]

\* serviceDeferredButtonReleases, once the clock has advanced.
ReleasePass(b) ==
  LET remaining == IF b.remaining = 0 THEN 0 ELSE b.remaining - 1
  IN IF b.deferred /\ remaining = 0
     THEN [b EXCEPT !.remaining = 0, !.deferred = FALSE, !.low = FALSE]
     ELSE [b EXCEPT !.remaining = remaining]

\* DebouncedButton::sample in the firmware's pass.
Sampled(c, low) ==
  LET age == IF c.raw # low THEN 0 ELSE IF c.age < Debounce THEN c.age + 1 ELSE c.age
  IN [raw |-> low, age |-> age, stable |-> IF low # c.stable /\ age >= Debounce THEN low ELSE c.stable]

\* advanceMicroseconds over one foreground period.  While it boots, the firmware reads
\* the panel only as long as the button has been held since the power came on, and a
\* boot that ends with the button held ends in a game, which reads it when it likes.
Pass(ends, reads) ==
  /\ powered
  /\ button' = ReleasePass(button)
  /\ turning' = EncoderPass(turning)
  /\ counted' = counted + Transition(turning.phase, turning'.phase)
  /\ reads = IF life = "Game" THEN reads ELSE life = "Running" \/ contact.stable
  /\ contact' = IF reads THEN Sampled(contact, button'.low) ELSE contact
  /\ owed' = (owed /\ button'.low)
  /\ missed' = (missed \/ Missed)
  /\ ends => life # "Running"
  /\ life' = IF ~ends THEN life ELSE IF life = "Booting" /\ contact'.stable THEN "Game" ELSE "Running"
  /\ UNCHANGED <<powered, keysDown, clicking, turned>>

\* setPower(false): the firmware is gone, the user's hands stay where they are.
PowerOff ==
  /\ powered /\ powered' = FALSE /\ owed' = FALSE
  /\ UNCHANGED <<life, keysDown, clicking, button, contact, missed, turning, turned, counted>>

\* setPower(true): resetArduino, applyStoredButtonLevels and begin, whose
\* DebouncedButton starts from the pin.
PowerOn ==
  /\ ~powered /\ powered' = TRUE /\ life' = "Booting"
  /\ button' = [button EXCEPT !.low = button.pressed, !.remaining = 0, !.deferred = FALSE]
  /\ contact' = [raw |-> button.pressed, stable |-> button.pressed, age |-> 0]
  /\ turning' = AtRest /\ turned' = 0 /\ counted' = 0
  /\ UNCHANGED <<keysDown, clicking, owed, missed>>

Next ==
  \/ \E key \in Keys : KeyDown(key) \/ KeyUp(key)
  \/ MouseDown \/ MouseUp
  \/ \E detents \in {-1, 1} : Rotate(detents)
  \/ \E ends, reads \in BOOLEAN : Pass(ends, reads)
  \/ PowerOff \/ PowerOn

Spec == Init /\ [][Next]_vars

-----------------------------------------------------------------------------
\* The pin is where the panel is, or a release is on its way; the panel is pressed
\* only while some key or the mouse holds it, whatever the order in which they let go
\* and however often the power was switched meanwhile (simulator_runtime.cpp:99-117,
\* 235-236).
NoButtonHangs ==
  /\ button.pressed => clicking \/ keysDown # {}
  /\ powered => /\ button.low = (button.pressed \/ button.deferred)
                /\ ~(button.pressed /\ button.deferred)
                /\ button.deferred => button.remaining > 0

\* A press that reached the pin of a listening firmware is a press for its debouncer
\* before the pin is raised again, however short the click (simulator_runtime.cpp:29,
\* control_panel.cpp:42).
ClicksAreHeard == ~missed

\* The phases shown make up the detents turned: every detent taken from the queue is
\* four transitions of one sign, and between two of them the encoder rests where it
\* does after power-on (simulator_runtime.cpp:259-276).
DetentsAreWhole ==
  powered => /\ counted = 4 * (turned - turning.pending - turning.direction)
                          + turning.direction * (IF turning.direction = 0 THEN 0 ELSE turning.index - 1)
             /\ turning.direction = 0 => turning.phase = 3
=============================================================================
