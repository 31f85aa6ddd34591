------------------------------ MODULE ClockEngine ------------------------------
(***************************************************************************)
(* The musical scheduler (ClockEngine): one master position, one event     *)
(* grid per output channel, gates, ratchets, ties, the pre-count, and the  *)
(* alignment of the grid to external pulses.                               *)
(*                                                                         *)
(* Every foreground operation runs under InterruptLock and is one action.  *)
(* The scheduler interrupt first runs the input controller, which may call *)
(* the FromIsr operations, and then processSchedulerTick: once such a call *)
(* has been made (ticking) nothing but further calls and Tick can happen.  *)
(*                                                                         *)
(* Positions are integers of Beat units to a master beat instead of Q32,   *)
(* the tempo is in units per tick and is the shortest output interval.     *)
(* The fractional remainders of core::calculate* and Groove and Humanize   *)
(* displacements are left out; Swing and Phase stay.  A random draw is a   *)
(* choice.  Sequencer channels play the installed pattern, which begin()'s *)
(* caller loads for all of them before the first tick.                     *)
(***************************************************************************)
EXTENDS Naturals, Integers, FiniteSets, Sequences

CONSTANTS
  Channels,      \* the physical outputs
  Beat,          \* units of a master beat
  Settings,      \* engine configurations the user may install, each a Setting
  Patterns,      \* sequencer patterns, each a Pattern
  Expressions,   \* step metadata snapshots, each [Step -> StepMeta]
  Tempos,        \* tempos a clock source may show, in units per tick
  PulseStep,     \* units between two external pulses (Beat / PPQN)
  PulseGap,      \* ticks for which the controller takes a further edge for a glitch
  MaxPosition    \* bound: the master position and the pulse count stay below

\* Four steps stand for the 128 of a pattern.
Step     == 0..3
StepMeta == [ratchets : 1..8, duty : {0, 25, 50, 75}, tie : BOOLEAN,
             chance : {"channel", "sure", "maybe"}]
Pattern  == [order : UNION {[1..n -> Step] : n \in 1..4}, once : BOOLEAN, gates : SUBSET Step]

\* ChannelConfig after resolveChannelRate; `sure' is probability 100, `gate'
\* the gate length in ticks, `cycle' and `hits' the clock meter or the Euclid
\* ring.
Channel == [mode : {"Off", "Clock", "Euclid", "Sequencer"}, muted : BOOLEAN,
            global : BOOLEAN, num : Nat \ {0}, den : Nat \ {0}, phase : 0..99,
            swing : 0..50, gate : Nat \ {0}, sure : BOOLEAN,
            cycle : Nat \ {0}, hits : SUBSET Nat]
Setting == [source : {"Internal", "External", "Auto"}, tempo : Nat \ {0},
            loss : {"Stop", "Freewheel", "Internal"}, preCount : Nat,
            channel : [Channels -> Channel]]

ASSUME ScaleAssumption ==
  /\ Beat \in Nat \ {0} /\ PulseStep \in 1..Beat /\ PulseGap \in Nat \ {0} /\ MaxPosition \in Nat
  /\ Tempos \subseteq 1..Beat
\* No tempo reaches a beat per tick.
ASSUME SettingsAssumption ==
  /\ Settings \subseteq Setting /\ \A s \in Settings : s.tempo \in 1..Beat
  /\ Patterns \subseteq Pattern /\ Expressions \subseteq [Step -> StepMeta]
\* Events are two ticks apart or more, at every rate and tempo: at kSupportedMaximumBpm,
\* which bounds the settings and the pulses alike, the factor 32 leaves 37 ticks.
ASSUME RateAssumption ==
  \A s \in Settings, c \in Channels, q \in Tempos \union {t.tempo : t \in Settings} :
    (s.channel[c].den * Beat) \div s.channel[c].num >= 2 * q

VARIABLES
  conf,        \* configuration_
  pattern,     \* sequencerPatterns_
  expression,  \* sequencerStepMetadata_
  playing,     \* playing_
  restart,     \* restartPending_
  count,       \* preCountActive_, preCountRemaining_, preCountPhase
  master,      \* masterPositionQ32_
  epoch,       \* globalScheduleEpochQ32_
  beats,       \* masterBeatSerial_ and masterBeatPhaseQ32_ as one position
  run,         \* channelRuntime_
  sync,        \* externalLocked_, externalBpmMilli_, externalPhaseInitialized_,
               \* externalReferenceQ32_, externalMusicalPositionQ32_
  held,        \* externalResetGate_
  gap,         \* ticks until the controller accepts a pulse again
  ticking,     \* inside the scheduler interrupt, before processSchedulerTick
  anchored,    \* history: no reset came between two pulses since the epoch was set
  cut,         \* history: a correction was cut off at zero since then
  shifted      \* history: a late pulse moved the grid forward since then

configVars == <<conf, pattern, expression>>
vars == <<configVars, playing, restart, count, master, epoch, beats, run, sync,
          held, gap, ticking, anchored, cut, shifted>>

Lower(a, b) == IF a < b THEN a ELSE b
Upper(a, b) == IF a < b THEN b ELSE a
-----------------------------------------------------------------------------
(* The event grid of a channel.  q is the shortest output interval, which is  *)
(* what one tick adds to the master position.                                 *)

EffectiveTempo(s, y) ==
  IF s.source # "Internal" /\ (y.locked \/ s.loss = "Freewheel") /\ y.tempo # 0
  THEN y.tempo ELSE s.tempo

Nominal(ch, q) == Upper((ch.den * Beat) \div ch.num, q)

BaseOffset(ch, q, n) ==
  IF (ch.den * Beat) \div ch.num < q THEN n * q ELSE (n * ch.den * Beat) \div ch.num

SwingDelta(ch, q) ==
  LET interval == Nominal(ch, q)
  IN IF interval <= q THEN 0 ELSE Lower((interval * ch.swing) \div 100, interval - q)

Position(ch, q, from, n) ==
  from + (Nominal(ch, q) * ch.phase) \div 100 + BaseOffset(ch, q, n)
       + (IF n % 2 = 1 THEN SwingDelta(ch, q) ELSE 0)

\* resolveSequencerTraversal: the step played by event n, if the pattern still runs.
Runs(p, n)   == ~p.once \/ n < Len(p.order)
StepAt(p, n) == p.order[(n % Len(p.order)) + 1]

SyncStepClamped(ch, p, r) == [r EXCEPT !.step = @ % ch.cycle]

\* synchronizeChannelStepPhase.
SyncStep(ch, p, r) ==
  [r EXCEPT !.step =
     IF ch.mode = "Sequencer" THEN (IF Runs(p, r.serial) THEN StepAt(p, r.serial) ELSE 0)
     ELSE IF ch.global THEN r.serial % ch.cycle ELSE r.step % ch.cycle]

\* The first event at or after `at'; not the one on `at' itself unless boundary.
FirstDue(ch, q, from, at, boundary) ==
  LET due(n) == LET pos == Position(ch, q, from, n)
                IN IF boundary THEN pos >= at ELSE pos > at
  IN CHOOSE n \in 0..Upper(at - from + 1, 0) : due(n) /\ \A m \in 0..(n - 1) : ~due(m)

RescheduleOwnEpoch(ch, p, q, e, at, boundary, r) ==
  LET n == FirstDue(ch, q, r.epoch, at, boundary)
  IN SyncStep(ch, p, [r EXCEPT !.serial = n, !.next = Position(ch, q, r.epoch, n)])

\* scheduleChannelFromCurrentPosition: a GLOBAL channel joins the shared epoch e.
Reschedule(ch, p, q, e, at, boundary, r) ==
  LET from  == IF ch.global THEN e ELSE r.epoch
      n     == FirstDue(ch, q, from, at, boundary)
      moved == [r EXCEPT !.epoch = from, !.serial = n, !.next = Position(ch, q, from, n)]
  IN IF ch.global THEN SyncStep(ch, p, moved) ELSE moved
-----------------------------------------------------------------------------
(* Gates.  off counts the ticks to the scheduled gate-off, 0 when there is    *)
(* none.  `steady' and `lost' are history: the gate was timed on the grid and *)
(* tempo still in force; a hit found such a gate HIGH and made no edge.       *)

Rise(r) == [r EXCEPT !.high = TRUE]
Fall(r) == [r EXCEPT !.high = FALSE, !.off = 0]
Cut(r)  == [Fall(r) EXCEPT !.tie = FALSE, !.ratchets = 0]

\* processSchedulerTick, first loop.
Age(r) == IF r.high /\ r.off = 1 THEN Fall(r)
          ELSE [r EXCEPT !.off = Upper(@ - 1, 0)]

GateTicksUncapped(ch, meta, sub, ratchets) ==
  IF meta.duty = 0 THEN ch.gate
  ELSE Lower(Upper((sub * meta.duty) \div 100, 1),
             IF ratchets > 1 /\ sub > 1 THEN sub - 1 ELSE sub)
\* gateTicks: a duty profile, or the channel's length capped at half the span.
GateTicks(ch, meta, sub, ratchets) ==
  IF meta.duty = 0 THEN Lower(ch.gate, Upper(sub \div 2, 1))
  ELSE Lower(Upper((sub * meta.duty) \div 100, 1),
             IF ratchets > 1 /\ sub > 1 THEN sub - 1 ELSE sub)

Plays(ch, p, r) ==
  CASE ch.mode = "Clock"     -> TRUE
    [] ch.mode = "Euclid"    -> r.step \in ch.hits
    [] ch.mode = "Sequencer" -> Runs(p, r.serial) /\ StepAt(p, r.serial) \in p.gates

PlainStep == [ratchets |-> 1, duty |-> 0, tie |-> FALSE, chance |-> "channel"]
MetaOf(ch, p, x, r) ==
  IF ch.mode = "Sequencer" /\ Runs(p, r.serial) THEN x[StepAt(p, r.serial)] ELSE PlainStep

\* The event passes for certain, whatever the draw.
Sure(ch, meta) == meta.chance = "sure" \/ (meta.chance = "channel" /\ ch.sure)

\* A tie holds into an adjacent gate that carries no ratchet.
TiesOn(ch, p, x, meta, ratchets, n) ==
  /\ ch.mode = "Sequencer" /\ meta.tie /\ ratchets = 1
  /\ Runs(p, n + 1) /\ StepAt(p, n + 1) \in p.gates
  /\ x[StepAt(p, n + 1)].ratchets = 1

\* fireChannelEvent for event r.serial at r.next; `passes' is the random draw.
Fire(ch, p, x, q, passes, r) ==
  LET meta  == MetaOf(ch, p, x, r)
      moved == [r EXCEPT !.ratchets = 0, !.tie = FALSE,
                  !.step = IF ch.mode = "Sequencer" THEN @ ELSE (@ + 1) % ch.cycle]
      hit   == Plays(ch, p, r) /\ ~ch.muted /\ (passes \/ Sure(ch, meta))
      after == Position(ch, q, r.epoch, r.serial + 1)
      span  == IF after > r.next THEN after - r.next ELSE q
      ticks == (span + q - 1) \div q
      ratchets == Lower(meta.ratchets, Upper(ticks \div 2, 1))
      sub   == Upper(ticks \div ratchets, 1)
      gate  == GateTicks(ch, meta, sub, ratchets)
      up    == Rise(IF r.tie /\ ratchets > 1 THEN Fall(moved) ELSE moved)
      hitOf == [up EXCEPT !.steady = TRUE, !.lost = @ \/ (r.high /\ r.steady /\ ~r.tie)]
      spacing == Upper(span \div ratchets, q)
  IN IF ~hit THEN (IF r.tie THEN Fall(moved) ELSE moved)
     ELSE IF TiesOn(ch, p, x, meta, ratchets, r.serial)
          THEN [hitOf EXCEPT !.tie = TRUE, !.off = 0]
     ELSE IF ratchets = 1 THEN [hitOf EXCEPT !.off = gate]
     ELSE [hitOf EXCEPT !.off = gate, !.ratchets = ratchets - 1, !.spacing = spacing,
                        !.nextRatchet = r.next + spacing, !.ratchetGate = gate]

\* One pass of the event loop: fire what is due and look up the next event.
FireDue(ch, p, x, q, at, drops, r) ==
  IF at < r.next THEN r
  ELSE LET fired == Fire(ch, p, x, q, r.serial \notin drops, r)
       IN [fired EXCEPT !.serial = @ + 1,
                        !.next = Position(ch, q, r.epoch, r.serial + 1)]

\* serviceSequencerRatchets: every sub-event forces the gate LOW, then HIGH.
Ratchet(at, r) ==
  IF r.ratchets = 0 \/ at < r.nextRatchet THEN r
  ELSE [Rise(Fall(r)) EXCEPT !.off = r.ratchetGate, !.ratchets = @ - 1,
          !.nextRatchet = IF r.ratchets > 1 THEN @ + r.spacing ELSE @]

\* The guards of the two loops: seven ratchets and eight events of a channel in a tick.
SevenTimes(F(_), r) == F(F(F(F(F(F(F(r)))))))
EightTimes(F(_), r) == F(SevenTimes(F, r))
EventGuard          == 8

\* What a tick that moves the master position to `at' does to one channel.
Serve(ch, p, x, q, at, drops, r) ==
  LET RatchetOnce(s) == Ratchet(at, s)
      FireOnce(s)    == FireDue(ch, p, x, q, at, drops, s)
      ratcheted      == SevenTimes(RatchetOnce, r)
  IN IF ch.mode = "Off" THEN Fall(ratcheted) ELSE EightTimes(FireOnce, ratcheted)
-----------------------------------------------------------------------------
(* resetRuntime: the epoch moves here; GLOBAL channels start over, FREE ones  *)
(* only lose their gate.                                                      *)

ResetChannel(ch, p, q, at, r) ==
  LET low == Fall(r)
  IN IF ch.global
     THEN Reschedule(ch, p, q, at, at, TRUE, [Cut(low) EXCEPT !.epoch = at, !.step = 0, !.serial = 0])
     ELSE low

ResetRuns(runs, y) ==
  [c \in Channels |-> ResetChannel(conf.channel[c], pattern[c], EffectiveTempo(conf, y),
                                   master, runs[c])]

\* A reset while the pulses keep their own count leaves the two apart.
ResetTo(runs, y) ==
  /\ run' = ResetRuns(runs, y)
  /\ restart' = TRUE /\ epoch' = master /\ beats' = 0
  /\ anchored' = ~y.phaseKnown /\ cut' = FALSE /\ shifted' = FALSE

NoCount == [on |-> FALSE, left |-> 0, phase |-> 0]
Tempo   == EffectiveTempo(conf, sync)

Idle(ch, p) ==
  SyncStep(ch, p,
    [next |-> Position(ch, conf.tempo, 0, 0), epoch |-> 0, serial |-> 0, step |-> 0,
     off |-> 0, high |-> FALSE, tie |-> FALSE, ratchets |-> 0, nextRatchet |-> 0,
     spacing |-> 0, ratchetGate |-> 1, steady |-> FALSE, lost |-> FALSE])

\* begin(), and the pattern bank loaded before the scheduler starts.
Init ==
  /\ conf \in Settings
  /\ pattern \in [Channels -> Patterns] /\ expression \in [Channels -> Expressions]
  /\ playing = FALSE /\ restart = TRUE /\ count = NoCount
  /\ master = 0 /\ epoch = 0 /\ beats = 0
  /\ sync = [locked |-> FALSE, tempo |-> 0, phaseKnown |-> FALSE, ref |-> 0, musical |-> 0]
  /\ run = [c \in Channels |-> Idle(conf.channel[c], pattern[c])]
  /\ held = FALSE /\ gap = 0 /\ ticking = FALSE
  /\ anchored = TRUE /\ cut = FALSE /\ shifted = FALSE
-----------------------------------------------------------------------------
(* Calls of the foreground and of the input controller in the interrupt.      *)

Foreground == ~ticking /\ UNCHANGED <<ticking, gap>>
FromIsr    == ticking' = TRUE /\ UNCHANGED gap
FromPulse  == gap = 0 /\ gap' = PulseGap /\ ticking' = TRUE
Anywhere   == Foreground \/ FromIsr

Play ==
  /\ Anywhere /\ ~playing
  /\ playing' = TRUE
  /\ count' = IF restart THEN [on |-> conf.preCount # 0, left |-> conf.preCount, phase |-> 0]
              ELSE count
  /\ UNCHANGED <<configVars, restart, master, epoch, beats, run, sync, held, anchored, cut, shifted>>

Pause ==
  /\ Foreground
  /\ playing' = FALSE /\ restart' = FALSE
  /\ run' = [c \in Channels |-> Cut(run[c])]
  /\ UNCHANGED <<configVars, count, master, epoch, beats, sync, held, anchored, cut, shifted>>

Stop ==
  /\ Anywhere
  /\ playing' = FALSE /\ count' = NoCount
  /\ ResetTo([c \in Channels |-> Cut(run[c])], sync)
  /\ UNCHANGED <<configVars, master, sync, held>>

ResetGlobalPhase ==
  /\ Anywhere
  /\ ResetTo(run, sync)
  /\ UNCHANGED <<configVars, playing, count, master, sync, held>>

SetExternalResetGate(high) ==
  /\ FromIsr /\ held # high
  /\ held' = high
  /\ ResetTo(run, sync)
  /\ UNCHANGED <<configVars, playing, count, master, sync>>

\* What a new configuration or tempo leaves of a gate's history.
Unsteady(r) == [r EXCEPT !.steady = FALSE]

\* setExternalLock(false, bpm): the controller never reports a lock this way.
LoseLock(tempo) ==
  /\ Anywhere
  /\ sync' = [sync EXCEPT !.locked = FALSE, !.tempo = tempo, !.phaseKnown = FALSE, !.musical = 0]
  /\ run' = [c \in Channels |-> Unsteady(run[c])]
  /\ UNCHANGED <<configVars, playing, restart, count, master, epoch, beats, held, anchored, cut, shifted>>

\* Fault: a correction backwards is left out.
ShiftForwardOnly(pos, expected, observed) == pos + Upper(observed - expected, 0)

\* shiftPosition: a correction backwards is cut off at zero.
Shift(pos, expected, observed) ==
  IF observed >= expected THEN pos + (observed - expected)
  ELSE Upper(pos - (expected - observed), 0)

\* alignGlobalSchedulesToExternalPulse for one channel.
ShiftChannel(ch, expected, r) ==
  LET moved == [r EXCEPT !.epoch = Shift(@, expected, master), !.next = Shift(@, expected, master)]
  IN IF ~ch.global THEN r
     ELSE IF expected = master THEN moved ELSE Unsteady(moved)

\* Source Internal notes the lock and leaves the timeline alone.
IgnorePulse(tempo) ==
  /\ FromPulse /\ conf.source = "Internal"
  /\ sync' = [sync EXCEPT !.locked = TRUE, !.tempo = tempo]
  /\ UNCHANGED <<configVars, playing, restart, count, master, epoch, beats, run, held, anchored, cut, shifted>>

\* A pulse advances an active pre-count, and the last one sets phase zero.
CountPulse(tempo) ==
  LET phase == count.phase + PulseStep
      left  == IF phase >= Beat THEN count.left - 1 ELSE count.left
      known == [sync EXCEPT !.locked = TRUE, !.tempo = tempo]
  IN /\ FromPulse /\ conf.source # "Internal" /\ count.on
     /\ IF left > 0
        THEN /\ count' = [count EXCEPT !.left = left, !.phase = phase % Beat]
             /\ sync' = known
             /\ UNCHANGED <<restart, epoch, beats, run, anchored, cut, shifted>>
        ELSE /\ count' = NoCount
             /\ sync' = [known EXCEPT !.phaseKnown = TRUE, !.ref = master, !.musical = 0]
             /\ run' = ResetRuns(run, known)
             /\ restart' = TRUE /\ epoch' = master /\ beats' = 0
             /\ anchored' = TRUE /\ cut' = FALSE /\ shifted' = FALSE
     /\ UNCHANGED <<configVars, playing, master, held>>

\* The first pulse of a lock sets the epoch.
FirstPulse(tempo) ==
  LET known == [sync EXCEPT !.locked = TRUE, !.tempo = tempo]
  IN /\ FromPulse /\ conf.source # "Internal" /\ ~count.on /\ ~sync.phaseKnown
     /\ sync' = [known EXCEPT !.phaseKnown = TRUE, !.ref = master, !.musical = 0]
     /\ run' = ResetRuns(run, known)
     /\ restart' = TRUE /\ epoch' = master /\ beats' = 0
     /\ anchored' = TRUE /\ cut' = FALSE /\ shifted' = FALSE
     /\ UNCHANGED <<configVars, playing, count, master, held>>

\* A later pulse moves the GLOBAL grid by how early or late it came, playing or not.
AlignPulse(tempo) ==
  LET expected == sync.ref + PulseStep
      musical  == sync.musical + PulseStep
  IN /\ FromPulse /\ conf.source # "Internal" /\ ~count.on /\ sync.phaseKnown
     /\ musical <= MaxPosition
     /\ sync' = [sync EXCEPT !.locked = TRUE, !.tempo = tempo, !.ref = master, !.musical = musical]
     /\ epoch' = Shift(epoch, expected, master)
     /\ run' = [c \in Channels |->
                 IF EffectiveTempo(conf, sync') = Tempo
                 THEN ShiftChannel(conf.channel[c], expected, run[c])
                 ELSE Unsteady(ShiftChannel(conf.channel[c], expected, run[c]))]
     /\ beats' = musical
     /\ cut' = (cut \/ (master < expected /\ epoch < expected - master))
     /\ shifted' = (shifted \/ master > expected)
     /\ UNCHANGED <<configVars, playing, restart, count, master, held, anchored>>
-----------------------------------------------------------------------------
(* Edits.                                                                     *)

Silence(ch, r) == IF ch.mode = "Off" \/ ch.muted THEN Fall(r) ELSE r

\* An edit of one channel: silence it, reschedule it if asked to, fix its step.
Edited(ch, p, q, resched, r) ==
  LET quiet == Unsteady(Silence(ch, r))
  IN SyncStep(ch, p, IF resched THEN Reschedule(ch, p, q, epoch, master, restart, quiet) ELSE quiet)

\* The editors ask for a reschedule unless only the pattern of hits changed.
SameTiming(a, b) ==
  \A f \in {"mode", "global", "num", "den", "phase", "swing"} : a[f] = b[f]

UpdateChannel(c, ch, resched) ==
  /\ Foreground /\ (resched \/ SameTiming(ch, conf.channel[c]))
  /\ conf' = [conf EXCEPT !.channel[c] = ch]
  /\ run' = [run EXCEPT ![c] = Edited(ch, pattern[c], Tempo, resched, @)]
  /\ UNCHANGED <<pattern, expression, playing, restart, count, master, epoch, beats, sync, held, anchored, cut, shifted>>

UpdateConfiguration(s, resched) ==
  /\ Foreground /\ (resched \/ s.channel = conf.channel)
  /\ conf' = s
  /\ run' = [c \in Channels |->
              Edited(s.channel[c], pattern[c], EffectiveTempo(s, sync), resched, run[c])]
  /\ UNCHANGED <<pattern, expression, playing, restart, count, master, epoch, beats, sync, held, anchored, cut, shifted>>

UpdateMasterTempo(tempo) ==
  /\ Foreground /\ tempo # conf.tempo
  /\ conf' = [conf EXCEPT !.tempo = tempo]
  /\ run' = [c \in Channels |-> Unsteady(run[c])]
  /\ UNCHANGED <<pattern, expression, playing, restart, count, master, epoch, beats, sync, held, anchored, cut, shifted>>

EndTieOnly(r) == [r EXCEPT !.tie = FALSE, !.ratchets = 0]
\* A new pattern or new step metadata ends a tie and its gate.
EndTie(r) == [(IF r.tie THEN Fall(r) ELSE r) EXCEPT !.tie = FALSE, !.ratchets = 0]

UpdateSequencerPattern(c, p, resched) ==
  /\ Foreground
  /\ pattern' = [pattern EXCEPT ![c] = p]
  /\ run' = [run EXCEPT ![c] =
       LET r == Unsteady(EndTie(@)) IN
       SyncStep(conf.channel[c], p,
         IF resched THEN Reschedule(conf.channel[c], p, Tempo, epoch, master, restart, r) ELSE r)]
  /\ UNCHANGED <<conf, expression, playing, restart, count, master, epoch, beats, sync, held, anchored, cut, shifted>>

UpdateSequencerStepMetadata(c, x) ==
  /\ Foreground
  /\ expression' = [expression EXCEPT ![c] = x]
  /\ run' = [run EXCEPT ![c] = EndTie(@)]
  /\ UNCHANGED <<conf, pattern, playing, restart, count, master, epoch, beats, sync, held, anchored, cut, shifted>>
-----------------------------------------------------------------------------
(* processSchedulerTick: gates age in every tick, whatever else happens.      *)

Aged == [c \in Channels |-> Age(run[c])]

AwaitsSync == conf.source = "External" /\ ~sync.locked /\ conf.loss = "Stop"
Advances   == playing /\ ~held /\ ~AwaitsSync

TickIdle ==
  /\ ~Advances \/ (count.on /\ conf.source # "Internal" /\ sync.locked)
  /\ run' = Aged
  /\ UNCHANGED <<restart, count, master, epoch, beats, anchored, cut, shifted>>

TickCount ==
  /\ Advances /\ count.on /\ ~(conf.source # "Internal" /\ sync.locked)
  /\ LET phase == count.phase + Tempo
         left  == IF phase >= Beat THEN count.left - 1 ELSE count.left
     IN IF left > 0
        THEN /\ count' = [count EXCEPT !.left = left, !.phase = phase % Beat]
             /\ run' = Aged
             /\ UNCHANGED <<restart, epoch, beats, anchored, cut, shifted>>
        ELSE /\ count' = NoCount
             /\ ResetTo(Aged, sync)
  /\ UNCHANGED master

\* The events a random draw may drop in this tick.
Drawn(at) == {d \in Channels \X (0..MaxPosition) :
                LET c == d[1] n == d[2]
                    r == [run[c] EXCEPT !.serial = n] ch == conf.channel[c] IN
                /\ n \in run[c].serial .. run[c].serial + EventGuard - 1
                /\ at >= run[c].next
                /\ n = run[c].serial \/ at >= Position(ch, Tempo, run[c].epoch, n)
                /\ ch.mode # "Off" /\ ~ch.muted
                /\ ~Sure(ch, MetaOf(ch, pattern[c], expression[c], r))}

TickAdvance ==
  /\ Advances /\ ~count.on /\ master + Tempo <= MaxPosition
  /\ LET at == master + Tempo IN
     /\ master' = at /\ beats' = beats + Tempo
     /\ \E drops \in SUBSET Drawn(at) :
          run' = [c \in Channels |->
                   Serve(conf.channel[c], pattern[c], expression[c], Tempo, at,
                         {n \in 0..MaxPosition : <<c, n>> \in drops}, Aged[c])]
  /\ restart' = FALSE
  /\ UNCHANGED <<count, epoch, anchored, cut, shifted>>

Tick ==
  /\ TickIdle \/ TickCount \/ TickAdvance
  /\ ticking' = FALSE /\ gap' = Upper(gap - 1, 0)
  /\ UNCHANGED <<configVars, playing, sync, held>>
-----------------------------------------------------------------------------
Pulse(tempo) == IgnorePulse(tempo) \/ CountPulse(tempo) \/ FirstPulse(tempo) \/ AlignPulse(tempo)

Next ==
  \/ Tick \/ Play \/ Pause \/ Stop \/ ResetGlobalPhase
  \/ \E high \in BOOLEAN : SetExternalResetGate(high)
  \/ \E tempo \in Tempos : Pulse(tempo) \/ LoseLock(tempo) \/ UpdateMasterTempo(tempo)
  \/ \E s \in Settings, resched \in BOOLEAN :
       \/ UpdateConfiguration(s, resched)
       \/ \E c \in Channels : UpdateChannel(c, s.channel[c], resched)
  \/ \E c \in Channels, p \in Patterns, resched \in BOOLEAN : UpdateSequencerPattern(c, p, resched)
  \/ \E c \in Channels, x \in Expressions : UpdateSequencerStepMetadata(c, x)

Spec == Init /\ [][Next]_vars
-----------------------------------------------------------------------------
(* Properties.                                                                *)

Runtime == [next : Nat, epoch : Nat, serial : Nat, step : Nat, off : Nat, high : BOOLEAN,
            tie : BOOLEAN, ratchets : 0..7, nextRatchet : Nat, spacing : Nat,
            ratchetGate : Nat \ {0}, steady : BOOLEAN, lost : BOOLEAN]

\* The variables have the types the engine declares; a count that runs has beats left.
TypeOK ==
  /\ playing \in BOOLEAN /\ restart \in BOOLEAN /\ held \in BOOLEAN
  /\ ticking \in BOOLEAN /\ anchored \in BOOLEAN /\ cut \in BOOLEAN /\ shifted \in BOOLEAN
  /\ gap \in 0..PulseGap
  /\ count \in [on : BOOLEAN, left : Nat, phase : 0..(Beat - 1)] /\ (count.on <=> count.left > 0)
  /\ master \in 0..MaxPosition /\ beats \in Nat /\ epoch \in Nat
  /\ sync \in [locked : BOOLEAN, tempo : Tempos \union {0}, phaseKnown : BOOLEAN,
               ref : 0..master, musical : 0..MaxPosition]
  /\ DOMAIN run = Channels /\ \A c \in Channels : run[c] \in Runtime

\* No gate is forgotten.  Outputs are LOW unless the transport plays, no
\* pre-count runs and no reset is held: a gate raised before any of these must
\* not outlive it, GLOBAL or FREE (pause, stop, resetRuntime, the early returns
\* of the tick).  And a HIGH output has a gate-off scheduled, or is held by a tie
\* whose end is an event still to come (fireChannelEvent against every edit that
\* clears a tie).
GateHasAnEnd ==
  \A c \in Channels : run[c].high =>
     /\ playing /\ ~count.on /\ ~held
     /\ run[c].off > 0 \/ (run[c].tie /\ conf.channel[c].mode # "Off")

\* GLOBAL channels share one epoch and their next event and step are those of
\* their serial on that grid, through edits, resets, pulses and catch-up.
GlobalGridIsShared ==
  \A c \in Channels : LET ch == conf.channel[c] r == run[c] IN
    ch.global =>
      /\ r.epoch = epoch
      /\ ~cut /\ ch.mode # "Off" => r.next = Position(ch, Tempo, epoch, r.serial)
      /\ ch.mode \in {"Clock", "Euclid"} => r.step = r.serial % ch.cycle

\* The bar and beat shown are where the GLOBAL grid stands: the distance from
\* the shared epoch, kept by the tick and by every external pulse, as long as
\* no correction was cut off and no reset fell between two pulses.
BeatIsGridPosition == anchored /\ ~cut => beats = master - epoch

\* A gate never swallows the next onset: on an unchanged tempo and grid every
\* hit finds its output LOW unless a tie holds it (GateTicks against swing,
\* ratchets and the following event).
OnsetsKept == \A c \in Channels : ~run[c].lost

\* Channels on the same GLOBAL timing stay on the same event whatever was
\* edited on one of them alone: a tick that leaves nothing overdue leaves
\* them with the same serial, unless a late pulse moved the grid ahead.
EqualTimingStaysTogether ==
  [][ (master' > master /\ ~shifted /\ ~cut) =>
        \A c, d \in {k \in Channels : conf.channel[k].global /\ conf.channel[k].mode # "Off"
                                       /\ run'[k].next > master'} :
          (\A f \in {"num", "den", "phase", "swing"} : conf.channel[c][f] = conf.channel[d][f])
            => run'[c].serial = run'[d].serial ]_vars

\* What the documents say and the code does not keep.

\* USER_GUIDE: PAUSE freezes an active count and PLAY resumes it.
PauseFreezesCount ==
  [][ (~playing /\ ~playing' /\ count.on /\ count'.on) => count'.left = count.left ]_vars

\* clock_engine.h: subsequent pulses snap the master timeline to the pulse grid.
PulsesKeepTheGrid ==
  [][ (playing /\ anchored /\ sync'.musical > sync.musical)
        => master' - epoch' = sync'.musical ]_vars

\* user-guide/08: MUTE suppresses output.
MutedStaysLow == \A c \in Channels : conf.channel[c].muted => ~run[c].high
=============================================================================
