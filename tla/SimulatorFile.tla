------------------------------ MODULE SimulatorFile ------------------------------
(* The simulator's state file (sim/simulator_persistence.cpp).  The firmware    *)
(* writes a simulated Flash in memory; the host compares it with what it wrote  *)
(* last and replaces the file through a temporary one, now and then while it    *)
(* runs and whenever the power goes off or the program ends.  A step of the     *)
(* replacement may fail, which ends the program, and the program may be killed. *)
EXTENDS Integers

CONSTANTS
  Images,      \* what the firmware may leave in the Flash
  Erased,      \* an erased Flash, also an element of Images
  Missing,     \* no file
  FlushPeriod  \* kPersistenceFlushPeriodUs, in foreground passes

SimulatorFileAssumption == Erased \in Images /\ Missing \notin Images /\ FlushPeriod \in Nat \ {0}

VARIABLES
  process,  \* "running", "quit", "failed" or "killed"
  powered,  \* poweredOn_
  flash,    \* hal::PersistentStorage
  file,     \* the state file: an image or Missing
  last,     \* lastFlushedImage_
  since,    \* persistenceAccumulatorUs_, in passes
  late      \* history: passes for which the Flash has differed from the file

vars == <<process, powered, flash, file, last, since, late>>

\* How a flush goes: a directory, a file or a write that is refused; a rename that
\* fails twice, with the old file removed in between or not.
Outcomes == {"ok", "unwritten", "kept", "removed"}
Contents(f) == IF f = Missing THEN Erased ELSE f

\* load: without a file the Flash is left erased.
Load == flash' = Contents(file) /\ last' = Contents(file)

\* flush: a failure throws, and main ends the program.
Flush(image, outcome) ==
  /\ file' = CASE outcome = "ok" -> image [] outcome = "removed" -> Missing [] OTHER -> file
  /\ last' = IF outcome = "ok" THEN image ELSE last

\* flushIfChanged, then what follows it in the caller unless it threw; a flush that has
\* nothing to do cannot fail.
FlushIfChanged(outcome) ==
  IF flash = last THEN outcome = "ok" /\ UNCHANGED <<file, last>> ELSE Flush(flash, outcome)
Unless(failed, state) == IF failed THEN "failed" ELSE state

Init ==
  /\ process = "running" /\ powered = TRUE /\ file \in Images \cup {Missing}
  /\ flash = Contents(file) /\ last = Contents(file) /\ since = 0 /\ late = 0

Store(image) ==
  /\ process = "running" /\ powered /\ flash # image /\ flash' = image
  /\ UNCHANGED <<process, powered, file, last, since, late>>

Pass(outcome) ==
  /\ process = "running" /\ powered
  /\ IF since + 1 = FlushPeriod
     THEN FlushIfChanged(outcome)
     ELSE outcome = "ok" /\ UNCHANGED <<file, last>>
  /\ since' = (since + 1) % FlushPeriod
  /\ late' = IF flash = last' THEN 0 ELSE late + 1
  /\ process' = Unless(outcome # "ok", process)
  /\ UNCHANGED <<powered, flash>>

\* Mutant: the Flash is left for the next periodic flush, which no longer comes.
PowerOffUnflushed(outcome) ==
  /\ process = "running" /\ powered /\ outcome = "ok"
  /\ powered' = FALSE /\ late' = 0
  /\ UNCHANGED <<process, flash, file, last, since>>

\* setPower(false).
PowerOff(outcome) ==
  /\ process = "running" /\ powered
  /\ FlushIfChanged(outcome)
  /\ powered' = FALSE /\ late' = 0
  /\ process' = Unless(outcome # "ok", process)
  /\ UNCHANGED <<flash, since>>

\* setPower(true) reads the file again.
PowerOn ==
  /\ process = "running" /\ ~powered
  /\ Load /\ powered' = TRUE /\ since' = 0 /\ late' = 0
  /\ UNCHANGED <<process, file>>

\* restorePersistenceImage: the image becomes Flash and file, and a module that is on
\* is switched off and on.
Restore(image, outcome) ==
  /\ process = "running"
  /\ Flush(image, outcome)
  /\ flash' = image /\ late' = 0
  /\ since' = IF powered THEN 0 ELSE since
  /\ process' = Unless(outcome # "ok", process)
  /\ UNCHANGED powered

\* The window is closed: main flushes after its loop.
Quit(outcome) ==
  /\ process = "running"
  /\ FlushIfChanged(outcome)
  /\ process' = Unless(outcome # "ok", "quit")
  /\ UNCHANGED <<powered, flash, since, late>>

Kill == process = "running" /\ process' = "killed" /\ UNCHANGED <<powered, flash, file, last, since, late>>

\* main and SimulatorRuntime::begin.
Launch ==
  /\ process # "running" /\ process' = "running" /\ powered' = TRUE
  /\ Load /\ since' = 0 /\ late' = 0
  /\ UNCHANGED file

Next ==
  \/ \E image \in Images : Store(image)
  \/ \E image \in Images, outcome \in Outcomes : Restore(image, outcome)
  \/ \E outcome \in Outcomes : Pass(outcome) \/ PowerOff(outcome) \/ Quit(outcome)
  \/ PowerOn \/ Kill \/ Launch

Spec == Init /\ [][Next]_vars

-----------------------------------------------------------------------------
\* The module finds after power-on, and the program when it is started again, the Flash
\* as it was left: while the power is off and after a program that ended by itself the
\* file holds it, and while it runs the file is never behind by a whole period
\* (simulator_runtime.cpp:76-79, 217, main.cpp:253).
StateIsFoundAgain ==
  /\ process = "running" => last = Contents(file) /\ late < FlushPeriod
  /\ (process = "running" /\ ~powered) \/ process = "quit" => flash = Contents(file)
=============================================================================
