------------------------------- MODULE StepOrder -------------------------------
(***************************************************************************)
(* Which events of a channel sound (domain/sequencer_pattern.cpp, the      *)
(* Euclid and step helpers of lib/clock_core, and the choice among them in *)
(* engine/clock_engine_sequencer.cpp).                                     *)
(*                                                                         *)
(* The engine computes the step of a pattern from the number of the event, *)
(* with no memory of the one before, and a Euclidean hit from a remainder. *)
(* What a musician expects is told in other words: a playhead that walks   *)
(* the steps and turns at the ends, and hits spread as evenly as they can  *)
(* be.  The run holds the two against each other.                          *)
(***************************************************************************)
EXTENDS Integers, Sequences, FiniteSets

CONSTANTS
  Voices,      \* configurations of a channel
  Mix(_),      \* mixRandomEvent: some function of the event number
  MaxEvents    \* events between two resets

VARIABLES
  voice,
  serial,      \* runtime.nextEventSerial
  step,        \* runtime.step, which Euclid and the first sequencer count on
  played,      \* for each event since the reset, whether it was a hit
  walker,      \* the expected playhead: where it is and whether it goes up
  rounds       \* how often the playhead has come back to where it began

vars == <<voice, serial, step, played, walker, rounds>>

Silent == -1

-----------------------------------------------------------------------------
(* Sequencer patterns                                                         *)

IsPatternValid(p) ==
  /\ p.length \in 1..128 /\ p.rotation < p.length
  /\ p.direction \in {"Forward", "Reverse", "PingPong", "Random"}

\* Mutant: PING PONG plays both ends twice.
CycleRepeatingEnds(p) == IF p.direction = "PingPong" THEN 2 * p.length ELSE p.length

\* sequencerTraversalCycleLength
CycleLength(p) ==
  IF p.direction = "PingPong" /\ p.length > 1 THEN 2 * p.length - 2 ELSE p.length

\* resolveSequencerTraversal
Traversal(n, p) ==
  LET cycle == CycleLength(p)
      position == n % cycle
  IN  IF ~IsPatternValid(p) \/ (p.once /\ n >= cycle) THEN Silent
      ELSE CASE p.direction = "Forward" -> position % p.length
             [] p.direction = "Reverse" -> p.length - 1 - (position % p.length)
             [] p.direction = "PingPong" ->
                  IF position < p.length THEN position ELSE cycle - position
             [] p.direction = "Random" -> Mix(n) % p.length

Rotated(s, p) == (s + p.rotation) % p.length

PatternHit(n, p) ==
  LET s == Traversal(n, p) IN s # Silent /\ Rotated(s, p) \in p.gates

-----------------------------------------------------------------------------
(* clock_core                                                                 *)

IsEuclideanHit(s, e) ==
  LET hits == IF e.hits > e.length THEN e.length ELSE e.hits
  IN  hits # 0 /\ ((s + e.rotation) % e.length) * hits % e.length < hits

\* isSequencerHit: the sequencer of the first presets, always forward.
IsSequencerHit(s, p) == (s + p.rotation) % p.length \in p.gates

AdvanceStep(s, length) == (s + 1) % length

-----------------------------------------------------------------------------
Hit ==
  CASE voice.kind = "Euclid" -> IsEuclideanHit(step, voice)
    [] voice.kind = "Sequencer" -> PatternHit(serial, voice)
    [] voice.kind = "Legacy" -> IsSequencerHit(step, voice)

\* The playhead, as the manual describes the directions.
Start == [at |-> IF voice.direction = "Reverse" THEN voice.length - 1 ELSE 0, up |-> TRUE]

Walked ==
  LET last == voice.length - 1
      at == walker.at
  IN  CASE last = 0 \/ voice.direction = "Random" -> walker
        [] voice.direction = "Forward" -> [walker EXCEPT !.at = IF at = last THEN 0 ELSE at + 1]
        [] voice.direction = "Reverse" -> [walker EXCEPT !.at = IF at = 0 THEN last ELSE at - 1]
        [] voice.direction = "PingPong" /\ walker.up ->
             IF at = last THEN [at |-> at - 1, up |-> last = 1] ELSE [walker EXCEPT !.at = at + 1]
        [] OTHER -> [at |-> at - 1, up |-> at = 1]

Init ==
  /\ voice \in Voices /\ serial = 0 /\ step = 0 /\ played = <<>>
  /\ walker = Start /\ rounds = 0

\* The beginning of fireChannelEvent.
Event ==
  /\ serial < MaxEvents /\ serial' = serial + 1
  /\ played' = Append(played, Hit)
  /\ step' = IF voice.kind = "Sequencer" THEN step ELSE AdvanceStep(step, voice.length)
  /\ walker' = Walked
  /\ rounds' = IF IF voice.direction = "Random" THEN serial' % voice.length = 0 ELSE walker' = Start
                 THEN rounds + 1 ELSE rounds
  /\ UNCHANGED voice

\* RESET and PLAY after STOP.
Restart ==
  /\ serial > 0 /\ serial' = 0 /\ step' = 0 /\ played' = <<>>
  /\ walker' = Start /\ rounds' = 0 /\ UNCHANGED voice

Next == Event \/ Restart
Spec == Init /\ [][Next]_vars

-----------------------------------------------------------------------------
(* Properties *)

\* PING PONG turns at each end without repeating it, REVERSE begins at the last
\* step, ONCE is silent for good after one way there and back, and the rotation
\* moves the pattern and not the walk.
PatternsAreWalked ==
  voice.kind # "Euclid" =>
    Hit = (/\ ~(voice.once /\ rounds > 0)
           /\ IF voice.direction = "Random"
                THEN Rotated(Mix(serial) % voice.length, voice) \in voice.gates
                ELSE Rotated(walker.at, voice) \in voice.gates)

HitsIn(first, last) == Cardinality({i \in first..last : played[i]})

\* Euclid: among any number of events in a row, wherever they begin and however
\* the pattern is rotated, there are as many hits as their share, rounded down
\* or up.
EuclidIsEven ==
  voice.kind = "Euclid" =>
    LET hits == IF voice.hits > voice.length THEN voice.length ELSE voice.hits
        missed(first) ==
          HitsIn(first, serial) * voice.length - (serial - first + 1) * hits
    IN  \A first \in 1..serial : -voice.length < missed(first) /\ missed(first) < voice.length
=============================================================================
