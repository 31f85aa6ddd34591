----------------------------- MODULE GrooveRecorder -----------------------------
(* Recording a groove with the TAP button: the debounced button of the panel   *)
(* (hal/control_panel.cpp), the position of the clock at an earlier time       *)
(* (engine/clock_engine_capture.cpp), the recorder (services/groove_recorder)  *)
(* and the two buttons that drive it (ui/ui_controller_groove_record.cpp).     *)
(* The clock moves on its own and other inputs may pause, restart or retime    *)
(* it; the foreground looks at the pin now and then and acts in that pass.     *)
EXTENDS Integers

CONSTANTS
  Step,         \* stepIntervalQ32_ in units of position
  Beat,         \* core::kQ32One in units of position
  Length,       \* steps of the draft
  MaxOffset,    \* kCustomGrooveMaximumOffset256
  CountIns,     \* countInBeats_
  Debounce,     \* kDebounceMs in ticks
  RewindCap,    \* the 100 ms of estimateMasterPositionAtUs in ticks
  Rates,        \* position per tick
  MaxDelay,     \* bound: ticks between two passes
  MaxPosition,  \* bound: the clock stands here
  None

VARIABLES
  moving, position, rate,        \* the engine: playing_, masterPositionQ32_, its increment
  wait,                          \* ticks since the last pass
  contact,                       \* the pin: TAP is down
  raw, stable, rawAge,           \* DebouncedButton, ticks since rawChangedAtUs_
  mode, state, countIn, epoch,   \* GrooveRecorder; recordStartTargetQ32_ = recordEpochQ32_
  playhead, captured,            \* playheadStep_, capturedMask_
  heard,                         \* history: the position at rawChangedAtUs_ while a take
                                 \* runs at one tempo since then, or None
  astray                         \* history: a tap so heard was dropped or written elsewhere

clock == <<moving, position, rate>>
button == <<raw, stable, rawAge>>
recorder == <<mode, state, countIn, epoch, playhead, captured>>
vars == <<clock, wait, contact, button, recorder, heard, astray>>

Smaller(a, b) == IF a < b THEN a ELSE b

Init ==
  /\ moving \in BOOLEAN /\ position = 0 /\ rate \in Rates
  /\ wait = 0 /\ contact = FALSE /\ raw = FALSE /\ stable = FALSE /\ rawAge = 0
  /\ mode \in {"OneShot", "Endless"} /\ state = "Ready" /\ countIn \in CountIns /\ epoch = 0
  /\ playhead = 0 /\ captured = {} /\ heard = None /\ astray = FALSE

Tick ==
  /\ wait < MaxDelay
  /\ moving => position + rate <= MaxPosition
  /\ wait' = wait + 1 /\ rawAge' = Smaller(rawAge + 1, RewindCap + 1)
  /\ position' = IF moving THEN position + rate ELSE position
  /\ UNCHANGED <<moving, rate, contact, raw, stable, recorder, heard, astray>>

\* The finger, and every bounce of the contact.
Contact ==
  /\ contact' = ~contact
  /\ UNCHANGED <<clock, wait, button, recorder, heard, astray>>

\* Inputs other than the panel: transport roles, the sync clock, a reset.
Elsewhere(on, r) ==
  /\ moving' = on /\ rate' = r
  /\ position' \in {position, 0}
  /\ <<moving', rate', position'>> # clock
  /\ heard' = None
  /\ UNCHANGED <<wait, contact, button, recorder, astray>>

-----------------------------------------------------------------------------
\* Mutant: the wait and the stamp belong to the last look at a bouncing pin.
SampleRestamped ==
  LET age == IF contact # raw THEN 0 ELSE rawAge
      due == contact # stable /\ age >= Debounce
  IN [raw |-> contact, age |-> IF due THEN 0 ELSE age, stable |-> IF due THEN contact ELSE stable]

(* DebouncedButton::sample: a change starts the wait over.                     *)
Sample ==
  LET age == IF contact # raw THEN 0 ELSE rawAge
  IN [raw |-> contact, age |-> age,
      stable |-> IF contact # stable /\ age >= Debounce THEN contact ELSE stable]
\* estimateMasterPositionAtUs.
PositionBefore(age) ==
  LET rewind == rate * Smaller(age, RewindCap)
  IN IF rewind >= position THEN 0 ELSE position - rewind

\* GrooveRecorder::capture: the nearest step, and the signed distance to it.
Serial(at) == (at - epoch + Step \div 2) \div Step
StepOf(at) == Serial(at) % Length
OffsetOf(at) ==
  LET apart == at - (epoch + Serial(at) * Step)
      size == IF apart < 0 THEN -apart ELSE apart
      scaled == Smaller((size * 256 + Step \div 2) \div Step, MaxOffset)
  IN IF apart < 0 THEN -scaled ELSE scaled
Accepted(rec, at) ==
  rec.state = "Recording" /\ at >= rec.epoch
    /\ (mode = "OneShot" => (at - rec.epoch + Step \div 2) \div Step < Length)

-----------------------------------------------------------------------------
\* GrooveRecorder::start and stop.
StartTake(rec, beats) ==
  [rec EXCEPT !.state = IF beats = 0 THEN "Recording" ELSE "PreCount",
              !.epoch = position + beats * Beat, !.playhead = 0]
StopTake(rec) == [rec EXCEPT !.state = "Ready", !.playhead = 0]

(* toggleGrooveRecording: a start makes the clock run, a stop leaves it.       *)
Toggled(rec, beats) == IF rec.state # "Ready" THEN StopTake(rec) ELSE StartTake(rec, beats)

\* GrooveRecorder::service.
Serviced(rec) ==
  LET begun == rec.state = "PreCount" /\ position >= rec.epoch
      at == IF begun THEN [rec EXCEPT !.state = "Recording", !.playhead = 0] ELSE rec
      serial == (position - at.epoch) \div Step
  IN CASE at.state = "Recording" /\ position < at.epoch -> [at EXCEPT !.playhead = 0]
       [] at.state = "Recording" /\ position >= at.epoch ->
            IF mode = "OneShot" /\ serial >= Length
            THEN StopTake(at)
            ELSE [at EXCEPT !.playhead = serial % Length]
       [] at.state = "PreCount" ->  \* counted from where the count-in began
            LET begin == at.epoch - countIn * Beat
            IN IF position >= begin
               THEN [at EXCEPT !.playhead = ((position - begin) \div Step) % Length] ELSE at
       [] OTHER -> at

\* What a player would say: the take covers the place, and no step is nearer.
\* Half a step has to outlast the debouncing.
InTake(at) ==
  /\ at >= epoch /\ (mode = "OneShot" => 2 * (at - epoch) < (2 * Length - 1) * Step)
  /\ 2 * rate * (Debounce + MaxDelay) <= Step
Nearest(serial, at) ==
  LET Apart(k) == IF at < epoch + k * Step THEN epoch + k * Step - at ELSE at - epoch - k * Step
  IN \A k \in 0..(serial + 1) : Apart(serial) <= Apart(k)

\* One pass of the foreground: sample, PLAY, TAP, service.
Pass(play, beats) ==
  LET tap == Sample
      pressed == tap.stable /\ ~stable
      old == [state |-> state, epoch |-> epoch, playhead |-> playhead]
      rec == IF play THEN Toggled(old, beats) ELSE old
      at == PositionBefore(tap.age)
      taken == pressed /\ Accepted(rec, at)
      done == Serviced(IF taken THEN [rec EXCEPT !.playhead = StepOf(at)] ELSE rec)
      since == IF play THEN None
               ELSE IF contact # raw THEN IF state = "Recording" /\ moving THEN position ELSE None
               ELSE heard
  IN /\ wait > 0 /\ (play => contact = raw)
     /\ wait' = 0
     /\ raw' = tap.raw /\ stable' = tap.stable /\ rawAge' = tap.age
     /\ moving' = (moving \/ (play /\ state = "Ready"))
     /\ countIn' = IF play /\ state = "Ready" THEN beats ELSE countIn
     /\ state' = done.state /\ epoch' = done.epoch /\ playhead' = done.playhead
     /\ captured' = IF taken THEN captured \cup {StepOf(at)} ELSE captured
     /\ astray' = (astray \/ (pressed /\ since # None /\ InTake(since)
                               /\ ~(taken /\ Nearest(Serial(at), since)
                                     /\ OffsetOf(at) = OffsetOf(since))))
     /\ heard' = since
     /\ UNCHANGED <<position, rate, mode, contact>>

\* clearGrooveRecording, from the menu.
Clear ==
  /\ captured # {} /\ captured' = {} /\ playhead' = 0
  /\ UNCHANGED <<clock, wait, contact, button, mode, state, countIn, epoch, heard, astray>>

Next ==
  \/ Tick \/ Contact \/ Clear
  \/ \E on \in BOOLEAN, r \in Rates : Elsewhere(on, r)
  \/ \E play \in BOOLEAN, beats \in CountIns : Pass(play, beats)

Spec == Init /\ [][Next]_vars

-----------------------------------------------------------------------------
\* A tap is written to the step nearest to where the clock was when the pin
\* was first seen to change, however long it bounced before and the foreground
\* took after, and no tap of the take is lost at its end, as long as the clock
\* kept its tempo (control_panel.cpp:33-48, clock_engine_capture.cpp:24-45).
TapsLandWhereTheyWereHeard == ~astray
=============================================================================
