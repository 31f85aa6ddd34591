------------------------------ MODULE RotaryEncoder ------------------------------
(* The rotary encoder of the panel (hal/control_panel.cpp).  The shaft moves    *)
(* through quadrature states, a hardware counter counts the transitions and may *)
(* count a bounce for one more or one less; the foreground turns the count into *)
(* detents, a few per pass.                                                    *)
EXTENDS Integers

CONSTANTS
  PerDetent,       \* kTransitionsPerDetent, 4
  MaximumPending,  \* kMaximumPendingDetents
  MaximumReport,   \* kMaximumReportedDelta
  MaxTurn          \* bound: the shaft moves this far, in transitions

VARIABLES
  shaft,      \* the true position, in transitions; its state is shaft % PerDetent
  unread,     \* quadratureEncoderCount - encoderLastTransitionCount_
  anchor,     \* encoderDetentPhase_
  remainder,  \* encoderTransitionRemainder_
  pending,    \* pendingEncoderDetents_
  pushed,     \* the encoder button is down
  rest,       \* history: the shaft when it was last at rest
  counted,    \* history: detents handed out or pending since then
  bounced,    \* history: the counter miscounted since then
  slip        \* history: at the last rest, transitions handed out too many or too few

vars == <<shaft, unread, anchor, remainder, pending, pushed, rest, counted, bounced, slip>>

Magnitude(x) == IF x < 0 THEN -x ELSE x
Towards0(x, n) == IF x < 0 THEN -(Magnitude(x) \div n) ELSE x \div n
Clamp(x, limit) == IF x > limit THEN limit ELSE IF x < -limit THEN -limit ELSE x

Init ==
  /\ shaft = 0 /\ unread = 0 /\ anchor = 0 /\ remainder = 0 /\ pending = 0
  /\ pushed = FALSE /\ rest = 0 /\ counted = 0 /\ bounced = FALSE /\ slip = 0

Turn(by) ==
  /\ Magnitude(shaft + by) <= MaxTurn
  /\ shaft' = shaft + by /\ unread' = unread + by
  /\ UNCHANGED <<anchor, remainder, pending, pushed, rest, counted, bounced, slip>>

\* One spurious or lost edge between two rests.
Bounce(by) ==
  /\ ~bounced /\ shaft # rest
  /\ unread' = unread + by /\ bounced' = TRUE
  /\ UNCHANGED <<shaft, anchor, remainder, pending, pushed, rest, counted, slip>>

-----------------------------------------------------------------------------
AtDetent == shaft % PerDetent = anchor
\* Mutant: at the anchor the count is cut instead of rounded.
DetentsCut(moved) ==
  [new |-> Towards0(moved, PerDetent),
   rest |-> IF AtDetent THEN 0 ELSE moved - PerDetent * Towards0(moved, PerDetent)]

\* sampleEncoder.  At the anchor the count is rounded to whole detents and the
\* rest of it forgotten; elsewhere whole detents are taken and the rest carried.
Detents(moved) ==
  IF AtDetent
  THEN [new |-> IF moved < 0 THEN -((Magnitude(moved) + 1) \div PerDetent)
                ELSE (moved + 1) \div PerDetent,
        rest |-> 0]
  ELSE [new |-> Towards0(moved, PerDetent),
        rest |-> moved - PerDetent * Towards0(moved, PerDetent)]

\* ControlPanel::sample; a released button makes the present state the anchor.
Sample(release) ==
  LET found == IF unread = 0 THEN [new |-> 0, rest |-> remainder]
               ELSE Detents(remainder + unread)
      queued == Clamp(pending + found.new, MaximumPending)
      atRest == release \/ (unread # 0 /\ AtDetent)
      total == counted + queued - pending
  IN /\ release => pushed
     /\ unread' = 0
     /\ anchor' = IF release THEN shaft % PerDetent ELSE anchor
     /\ remainder' = IF release THEN 0 ELSE found.rest
     /\ pending' = queued - Clamp(queued, MaximumReport)
     /\ pushed' = (pushed /\ ~release)
     /\ rest' = IF atRest THEN shaft ELSE rest
     /\ counted' = IF atRest THEN 0 ELSE total
     /\ slip' = IF atRest /\ ~release THEN PerDetent * total - (shaft - rest) ELSE slip
     /\ bounced' = (bounced /\ ~atRest)
     /\ UNCHANGED shaft

Push ==
  /\ ~pushed /\ pushed' = TRUE
  /\ UNCHANGED <<shaft, unread, anchor, remainder, pending, rest, counted, bounced, slip>>

Next ==
  \/ \E by \in {-1, 1} : Turn(by) \/ Bounce(by)
  \/ \E release \in BOOLEAN : Sample(release)
  \/ Push

Spec == Init /\ [][Next]_vars

-----------------------------------------------------------------------------
\* From one rest to the next the panel hands out, or keeps to hand out, exactly
\* the detents the shaft turned, though the counter may have miscounted once and
\* passes may have come between (control_panel.cpp:118-180).
TurnsAreCountedAtRest == slip = 0
=============================================================================
