------------------------------- MODULE EventGrid -------------------------------
(***************************************************************************)
(* Where the events of one channel fall (engine/clock_engine_timing,       *)
(* lib/clock_core, domain/groove_catalog, domain/custom_groove): the rate, *)
(* the master position that the scheduler advances with its remainder, and *)
(* the displacement of an event by Swing, Groove and Humanize.  A channel  *)
(* plays one configuration from a restart on; ClockEngine has what happens *)
(* to a grid when configuration, tempo or transport change.                *)
(*                                                                         *)
(* One master beat has One units instead of 2^32.  The hash that humanizes *)
(* an event is a choice.                                                   *)
(***************************************************************************)
EXTENDS Integers, Sequences, FiniteSetsExt

CONSTANTS
  One,             \* kQ32One
  TickUs,          \* kSchedulerTickUs
  MaxHumanize,     \* kMaximumHumanizeUs
  Configurations,  \* what the channel may be set to, each a Configuration
  MaxSerial        \* bound: events are numbered 0..MaxSerial

\* `tempo' is the part of a master beat in one tick, as effectiveBpmMilli *
\* beatUnit over 60 * 4 * kSchedulerFrequencyHz * 1000.
Modes == {"Clock", "Euclid", "Sequencer"}
Presets == {"Off", "Swing54", "Swing58", "Swing62", "Swing66",
            "PocketA", "PocketB", "PocketC", "Custom"}
Offsets == -120..120
Configuration ==
  [tempo : [num : Nat \ {0}, den : Nat \ {0}], mode : Modes,
   rate : [num : Nat, den : Nat, factor : Nat, multiply : BOOLEAN],
   local : Nat, unit : Nat, phase : 0..99, swing : Nat, preset : Presets,
   amount : Nat, rotation : Nat, custom : Seq(Offsets), humanize : Nat]

GridAssumption ==
  /\ {One, TickUs} \subseteq Nat \ {0} /\ {MaxHumanize, MaxSerial} \subseteq Nat
  /\ Configurations \subseteq Configuration
  /\ \A c \in Configurations : /\ c.tempo.num * One >= c.tempo.den
                               /\ c.preset = "Custom" => c.custom # <<>>

VARIABLES
  config,        \* configuration_ of the channel
  ticks,         \* scheduler interrupts since the restart
  master,        \* masterPositionQ32_ since the restart
  remainder,     \* masterRemainder_
  serial,        \* nextEventSerial
  next,          \* nextEventQ32
  previous,      \* history: where the event before it was due; -1 for none
  guard          \* eventGuard

vars == <<config, ticks, master, remainder, serial, next, previous, guard>>

Lower(a, b) == IF a < b THEN a ELSE b
Upper(a, b) == IF a < b THEN b ELSE a
\* C++ division truncates toward zero.
Quotient(a, b) == IF a < 0 THEN -((-a) \div b) ELSE a \div b
CeilDiv(a, b) == (a + b - 1) \div b
OrElse(x, default) == IF x # 0 THEN x ELSE default

-----------------------------------------------------------------------------
(* Rates.  A pattern's x1 is a sixteenth note, a clock's the unit of its      *)
(* local meter; reducing the fraction changes no quotient below.              *)

EffectiveRate(r) ==
  LET n == OrElse(r.num, 1)  d == OrElse(r.den, 1)  f == OrElse(r.factor, 1)
  IN  IF r.multiply THEN [num |-> n * f, den |-> d] ELSE [num |-> n, den |-> d * f]

ChannelRate(c) ==
  LET r == EffectiveRate(c.rate)
  IN  [num |-> r.num * (IF c.mode = "Clock" THEN OrElse(c.local, 4) ELSE 16),
       den |-> r.den * OrElse(c.unit, 4)]

\* minimumOutputIntervalQ32: what a tick adds to the master position, rounded up.
MinimumInterval(c) == CeilDiv(c.tempo.num * One, c.tempo.den)

Interval(c) == LET r == ChannelRate(c) IN (r.den * One) \div r.num
BaseInterval(c) == Upper(Interval(c), MinimumInterval(c))

\* calculateBaseEventOffsetQ32: floor(n * den * One / num), split so that no
\* intermediate exceeds the result.
BaseOffset(c, n) ==
  LET r == ChannelRate(c)
      rest == (r.den * One) % r.num
  IN  IF Interval(c) < MinimumInterval(c) THEN n * MinimumInterval(c)
      ELSE n * Interval(c) + (n \div r.num) * rest + ((n % r.num) * rest) \div r.num

PhaseOffset(c) == (BaseInterval(c) * Lower(c.phase, 99)) \div 100

-----------------------------------------------------------------------------
(* Swing and Groove.                                                          *)

\* kDefinitions: delays in thousandths of an interval.
Delays(preset) ==
  CASE preset = "Swing54" -> <<0, 80>>
    [] preset = "Swing58" -> <<0, 160>>
    [] preset = "Swing62" -> <<0, 240>>
    [] preset = "Swing66" -> <<0, 320>>
    [] preset = "PocketA" -> <<0, 70, 20, 120, 0, 90, 30, 150>>
    [] preset = "PocketB" -> <<0, 120, 40, 60, 10, 150, 30, 90>>
    [] preset = "PocketC" -> <<0, 90, 20, 140, 10, 60, 30, 120, 0, 130, 40, 80, 20, 160, 30, 100>>
    [] OTHER -> <<0>>

AtEvent(pattern, n, rotation) ==
  pattern[((n + (rotation % Len(pattern))) % Len(pattern)) + 1]

DelayPermille(c, n) ==
  (AtEvent(Delays(c.preset), n, c.rotation) * Lower(c.amount, 100)) \div 100

MaximumDelayPermille(c) ==
  (Max({Delays(c.preset)[i] : i \in DOMAIN Delays(c.preset)}) * Lower(c.amount, 100)) \div 100

CustomOffset256(c, n) ==
  Quotient(AtEvent(c.custom, n, c.rotation) * Lower(c.amount, 100), 100)

Room(c) == BaseInterval(c) - MinimumInterval(c)

SwingDelta(c) == Lower((BaseInterval(c) * Lower(c.swing, 50)) \div 100, Room(c))
SwingAt(c, n) == IF n % 2 = 1 THEN SwingDelta(c) ELSE 0

\* Mutant: Groove may take the room that Swing has used already.
GrooveBesideSwing(c, n) ==
  SwingAt(c, n) + Lower((BaseInterval(c) * DelayPermille(c, n)) \div 1000, Room(c))

\* A factory groove: both delays together leave one quantum of the interval.
FactoryShape(c, n) ==
  SwingAt(c, n) + Lower((BaseInterval(c) * DelayPermille(c, n)) \div 1000, Room(c) - SwingAt(c, n))

\* A custom groove: early or late by at most half of that.
CustomShape(c, n) ==
  LET asked == SwingAt(c, n) + Quotient(BaseInterval(c) * CustomOffset256(c, n), 256)
      limit == Room(c) \div 2
  IN  Upper(-limit, Lower(asked, limit))

\* Events are never moved before the first.
Advanced(c, position) == Upper(position, PhaseOffset(c))

ShapedPosition(c, n) ==
  LET nominal == PhaseOffset(c) + BaseOffset(c, n)
  IN  IF c.preset = "Custom" THEN Advanced(c, nominal + CustomShape(c, n))
      ELSE nominal + FactoryShape(c, n)

-----------------------------------------------------------------------------
(* Humanize, in microseconds and then in scheduler quanta.                    *)

BaseIntervalUs(c) ==
  LET r == ChannelRate(c)
  IN  Upper((TickUs * c.tempo.den * r.den) \div (c.tempo.num * r.num), TickUs)

\* effectiveHumanizeUs, with 0 for a Custom Groove's maximumDelayPermille.
EffectiveHumanizeUs(c) ==
  LET base  == BaseIntervalUs(c)
      delay == (base * Lower(c.swing, 50)) \div 100 + (base * MaximumDelayPermille(c)) \div 1000
      shortest == base - Lower(delay, base - TickUs)
      safe  == ((((shortest - TickUs) \div 2) \div TickUs) * TickUs)
  IN  IF shortest <= TickUs THEN 0 ELSE Lower(Lower(c.humanize, MaxHumanize), safe)

\* The displacements the hash may choose for event n, in quanta.
Displacements(c, n) ==
  LET most == EffectiveHumanizeUs(c) \div TickUs IN IF n = 0 THEN {0} ELSE -most..most

Position(c, n, h) == Advanced(c, ShapedPosition(c, n) + h * MinimumInterval(c))

-----------------------------------------------------------------------------
(* resetRuntime, and the first tick after it, which leaves the position alone. *)
Init ==
  /\ config \in Configurations
  /\ ticks = 0 /\ master = 0 /\ remainder = 0 /\ previous = -1 /\ guard = 0
  /\ serial = 0 /\ next = Position(config, 0, 0)

\* calculateMasterIncrementMilliBpmQ32
AdvanceMaster ==
  LET scaled == config.tempo.num * One + remainder
  IN  /\ master' = master + scaled \div config.tempo.den
      /\ remainder' = scaled % config.tempo.den

\* At most eight events of a channel are fired in one tick.
Due == master >= next /\ guard < 8

\* Another tick of processSchedulerTick.
Tick ==
  /\ ~Due /\ serial <= MaxSerial
  /\ ticks' = ticks + 1 /\ guard' = 0 /\ AdvanceMaster
  /\ UNCHANGED <<config, serial, next, previous>>

\* fireChannelEvent and the look-up of the event after it.
FireEvent(h) ==
  /\ Due /\ serial <= MaxSerial
  /\ serial' = serial + 1 /\ guard' = guard + 1 /\ previous' = next
  /\ next' = Position(config, serial + 1, h)
  /\ UNCHANGED <<config, ticks, master, remainder>>

Next == Tick \/ \E h \in Displacements(config, serial + 1) : FireEvent(h)

Spec == Init /\ [][Next]_vars

-----------------------------------------------------------------------------
(* Properties *)

\* The room above a quantum is computed in units, the one for Humanize in whole
\* microseconds, of which two divisions may each lose one; and the rounding of a quantum
\* adds up to a unit for each of those that two neighbours are moved by.
Rounding ==
  CeilDiv(2 * MinimumInterval(config), TickUs) + 2 * (EffectiveHumanizeUs(config) \div TickUs + 1)

\* "Safety limits reduce effective displacement when necessary so adjacent
\* events remain ordered and at least one scheduler quantum apart": Swing,
\* Groove and Humanize in every combination.
AdjacentEventsOrdered ==
  previous >= 0 => next - previous >= MinimumInterval(config) - Rounding

\* The same for all but Humanize on top of a Custom Groove, whose displacement
\* effectiveHumanizeUs does not know.
OrderedButForHumanizedCustom ==
  config.preset # "Custom" \/ config.humanize = 0 => AdjacentEventsOrdered

\* The part of it that no rounding can excuse: a later event is never due before
\* an earlier one.
EventsStayInOrder == next >= previous

Unshaped ==
  /\ config.swing = 0 /\ config.preset = "Off" /\ config.humanize = 0 /\ config.phase = 0
  /\ Interval(config) >= MinimumInterval(config)

\* An event on a straight grid is fired at the first tick that reaches its exact
\* time serial * den / num beats, however long the clock has run and whatever
\* fractions rate and tempo leave: neither the grid nor the master position
\* drifts.  (An event is fired within one unit of its time.)
EventsKeepTime ==
  Unshaped /\ Due =>
    LET r == ChannelRate(config)
        late == ticks * config.tempo.num * r.num - serial * r.den * config.tempo.den
    IN  /\ late < config.tempo.num * r.num
        /\ late * One > -(config.tempo.den * r.num)
=============================================================================
