----------------------------- MODULE SimulatorJacks -----------------------------
(* The two input jacks of the simulated module (sim/simulator_runtime_inputs.cpp *)
(* and the simulator's half of app/clock_application.cpp).  The desktop window   *)
(* has a cable and a signal generator for each jack; the Rack module drives the  *)
(* jacks directly.  The host keeps a comparator level per jack and tells the     *)
(* firmware of its changes, but only while the clock application runs; the       *)
(* firmware's level of a jack is the last one it was told.                       *)
EXTENDS Integers

VARIABLES
  host,      \* "desktop" or "rack"
  life,      \* "Off", "Booting", "Game" or "Running"
  sync,      \* [cable, generator, direct, level, comparator, fresh]: CableConnected_,
             \* GeneratorRunning_, DirectDriven_, DirectLevelHigh_, ComparatorHigh_ and
             \* whether the signal's epoch is now
  reset,     \* the same of the RESET jack
  told,      \* [sync, reset]: the levels the firmware was told last
  locked,    \* syncLocked_
  followed   \* the firmware follows the external clock (externalLocked)

vars == <<host, life, sync, reset, told, locked, followed>>

Idle == [cable |-> FALSE, generator |-> FALSE, direct |-> FALSE, level |-> FALSE,
         comparator |-> FALSE, fresh |-> TRUE]
Silent == [sync |-> FALSE, reset |-> FALSE]
Running == life = "Running"

Init ==
  /\ host \in {"desktop", "rack"} /\ life = "Off" /\ sync = Idle /\ reset = Idle
  /\ told = Silent /\ locked = FALSE /\ followed = FALSE

\* resetExternalSyncAcquisition: the signal starts anew and a known lock is given up.
Acquire(s) == [s EXCEPT !.comparator = FALSE, !.fresh = TRUE]
AcquireSync(s) ==
  /\ sync' = Acquire(s)
  /\ locked' = FALSE
  /\ followed' = (followed /\ ~(locked /\ Running))
  /\ UNCHANGED <<told, reset>>

\* Mutant: the RESET jack starts anew as the SYNC jack does.
AcquireResetSilently(r) ==
  /\ reset' = Acquire(r)
  /\ UNCHANGED <<told, sync, locked, followed>>

\* resetExternalResetAcquisition: a high level is taken back first.
AcquireReset(r) ==
  /\ reset' = Acquire(r)
  /\ told' = IF r.comparator /\ Running THEN [told EXCEPT !.reset = FALSE] ELSE told
  /\ UNCHANGED <<sync, locked, followed>>

-----------------------------------------------------------------------------
\* The desktop's keys and clicks (handleKeyboard, handleMouseButton): the cable is
\* plugged or pulled, the generator started or stopped, tempo, PPQN, period or waveform
\* changed.  A cable that is plugged starts the generator, a generator that is started
\* plugs the cable.
ToggleCable(s) == [s EXCEPT !.direct = FALSE, !.cable = ~@, !.generator = @ \/ ~s.cable]
ToggleGenerator(s) == [s EXCEPT !.direct = FALSE, !.generator = ~@, !.cable = @ \/ ~s.generator]

SyncCable == AcquireSync(ToggleCable(sync))
\* setSyncGeneratorRunning: stopping keeps the cable and the lock.
SyncGenerator ==
  IF ~sync.generator THEN AcquireSync(ToggleGenerator(sync))
  ELSE /\ sync' = [ToggleGenerator(sync) EXCEPT !.comparator = FALSE]
       /\ told' = IF sync.comparator /\ Running THEN [told EXCEPT !.sync = FALSE] ELSE told
       /\ UNCHANGED <<reset, locked, followed>>
RetuneSync == AcquireSync(sync)
ResetCable == AcquireReset(ToggleCable(reset))
ResetGenerator == AcquireReset(ToggleGenerator(reset))
RetuneReset == AcquireReset(reset)

Desktop ==
  /\ host = "desktop" /\ UNCHANGED <<host, life>>
  /\ SyncCable \/ SyncGenerator \/ RetuneSync \/ ResetCable \/ ResetGenerator \/ RetuneReset

\* triggerResetPulse: a rise and a fall, whatever the generator does.
TriggerResetPulse ==
  /\ host = "desktop" /\ Running
  /\ told' = [told EXCEPT !.reset = FALSE]
  /\ UNCHANGED <<host, life, sync, reset, locked, followed>>

\* setExternalSyncInput and setExternalResetInput: a cable that is pulled ends a high
\* level at once.
Driven(s, connected, high) ==
  [s EXCEPT !.direct = TRUE, !.level = connected /\ high, !.cable = connected,
            !.generator = FALSE, !.comparator = @ /\ (connected \/ ~Running)]
AfterDrive(level, s, connected) == level /\ (connected \/ ~s.comparator \/ ~Running)
DriveSync(connected, high) ==
  /\ sync' = Driven(sync, connected, high)
  /\ told' = [told EXCEPT !.sync = AfterDrive(@, sync, connected)]
  /\ UNCHANGED reset
DriveReset(connected, high) ==
  /\ reset' = Driven(reset, connected, high)
  /\ told' = [told EXCEPT !.reset = AfterDrive(@, reset, connected)]
  /\ UNCHANGED sync
Drive(connected, high) ==
  /\ host = "rack"
  /\ DriveSync(connected, high) \/ DriveReset(connected, high)
  /\ UNCHANGED <<host, life, locked, followed>>

-----------------------------------------------------------------------------
\* serviceExternalSync and serviceExternalReset: the comparator takes the level of what
\* drives the jack, where a signal whose epoch is now is high.
Level(s, wave) ==
  Running /\ s.cable /\ IF s.direct THEN s.level ELSE s.generator /\ (wave \/ s.fresh)
Heard(s, wave, level) ==
  IF Running /\ s.cable /\ (s.direct \/ s.generator) /\ s.comparator # Level(s, wave)
  THEN Level(s, wave) ELSE level
Serviced(s, wave) == [s EXCEPT !.comparator = Level(s, wave), !.fresh = FALSE]

\* One scheduler tick; the firmware may have gained or lost its lock in the tick before,
\* which the host sees while the SYNC cable is in.
Tick(syncWave, resetWave, lock) ==
  /\ life # "Off"
  /\ sync' = Serviced(sync, syncWave)
  /\ reset' = Serviced(reset, resetWave)
  /\ told' = [sync |-> Heard(sync, syncWave, told.sync), reset |-> Heard(reset, resetWave, told.reset)]
  /\ locked' = IF Running /\ sync.cable THEN followed ELSE locked
  /\ lock => Running
  /\ followed' = lock
  /\ UNCHANGED <<host, life>>

\* setPower: a new application starts with both jacks low.  Without an application, or
\* before it runs, nothing is told.
Power ==
  /\ life' = IF life = "Off" THEN "Booting" ELSE "Off"
  /\ sync' = Acquire(sync) /\ reset' = Acquire(reset)
  /\ told' = Silent /\ locked' = FALSE /\ followed' = FALSE
  /\ UNCHANGED host

\* serviceSimulatorStartup and finishSimulatorStartup.
BootEnds(held) ==
  /\ life = "Booting" \/ (life = "Game" /\ ~held)
  /\ life' = IF held THEN "Game" ELSE "Running"
  /\ UNCHANGED <<host, sync, reset, told, locked, followed>>

Next ==
  \/ Desktop \/ TriggerResetPulse
  \/ \E connected, high \in BOOLEAN : Drive(connected, high)
  \/ \E syncWave, resetWave, lock \in BOOLEAN : Tick(syncWave, resetWave, lock)
  \/ Power
  \/ \E held \in BOOLEAN : BootEnds(held)

Spec == Init /\ [][Next]_vars

-----------------------------------------------------------------------------
\* The firmware holds RESET high only while the jack is, so a pulled cable, a stopped or
\* changed generator or a power switch never leaves the clock held in reset; a Rack cable
\* is heard exactly on both jacks (simulator_runtime_inputs.cpp:123-145, 236-241).
NoLevelHangs ==
  /\ told.reset => reset.comparator
  /\ sync.comparator => told.sync
  /\ host = "rack" => told.sync = sync.comparator /\ told.reset = reset.comparator

\* What the firmware believes of the SYNC jack while it has no cable; the desktop leaves
\* it high, since resetExternalSyncAcquisition drops the host's level alone
\* (simulator_runtime_inputs.cpp:223-232).
UnpluggedSyncIsLow == Running /\ ~sync.cable => ~told.sync
=============================================================================
