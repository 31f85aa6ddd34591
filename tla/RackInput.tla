------------------------------- MODULE RackInput -------------------------------
(* An input jack of the Rack module (vcv/clock_vcv_runtime.cpp).  The jack is   *)
(* sampled at the audio rate, the simulated firmware takes at most one change   *)
(* of level per scheduler tick: the changes in between wait in a short queue.   *)
EXTENDS Integers, Sequences

CONSTANTS
  Capacity,  \* kCapacity, 16
  MaxTicks,  \* scheduler ticks that one sample may complete
  MaxEdges   \* bound: edges since the cable was plugged

RackInputAssumption == Capacity \in Nat \ {0} /\ MaxTicks \in Nat /\ MaxEdges \in Nat

VARIABLES
  connected,   \* the cable is in
  sampled,     \* sampledHigh
  pending,     \* the queue
  level,       \* schedulerHigh
  edges,       \* history: the edges sampled since the cable was plugged, as new levels
  delivered,   \* history: those the scheduler took since then
  overflowed   \* history: the queue was discarded since then

vars == <<connected, sampled, pending, level, edges, delivered, overflowed>>

Init ==
  /\ connected = FALSE /\ sampled = FALSE /\ pending = <<>> /\ level = FALSE
  /\ edges = <<>> /\ delivered = <<>> /\ overflowed = FALSE

\* updateInputLevel: between the thresholds the level stays.
Seen(voltage, high) == voltage = "high" \/ (voltage = "between" /\ high)

\* InputTransitionBridge::update of a plugged cable.  A full queue is discarded for the
\* latest level.
Queued(high) ==
  IF high = sampled THEN pending
  ELSE IF Len(pending) < Capacity THEN Append(pending, high) ELSE <<high>>

\* nextSchedulerLevel, once per tick: the oldest levels that wait.
Taken(queue, ticks) == SubSeq(queue, 1, IF ticks < Len(queue) THEN ticks ELSE Len(queue))

\* processSample with the cable in.  As many ticks as the sample completes each take one
\* level, nextSchedulerLevel; without one waiting the level is the sampled one.
Sample(voltage, ticks) ==
  LET high == Seen(voltage, sampled)
      queue == Queued(high)
      taken == Taken(queue, ticks)
  IN /\ edges' = (IF high = sampled THEN edges ELSE Append(edges, high))
     /\ Len(edges') <= MaxEdges
     /\ connected' = TRUE /\ sampled' = high
     /\ pending' = SubSeq(queue, Len(taken) + 1, Len(queue))
     /\ level' = IF ticks > Len(queue) THEN high
                 ELSE IF taken = <<>> THEN level ELSE taken[Len(taken)]
     /\ delivered' = delivered \o taken
     /\ overflowed' = (overflowed \/ (high # sampled /\ Len(pending) = Capacity))

\* Without a cable the bridge is empty, whatever was under way.
Unplugged ==
  /\ connected /\ connected' = FALSE
  /\ sampled' = FALSE /\ pending' = <<>> /\ level' = FALSE
  /\ edges' = <<>> /\ delivered' = <<>> /\ overflowed' = FALSE

Next ==
  \/ \E voltage \in {"low", "between", "high"}, ticks \in 0..MaxTicks : Sample(voltage, ticks)
  \/ Unplugged

Spec == Init /\ [][Next]_vars

-----------------------------------------------------------------------------
\* Every edge of the jack goes to the scheduler, in order, or waits to, unless the jack
\* outran it; and even then the level they end on is the one last sampled, so that a
\* clock never stays high or low after a burst (clock_vcv_runtime.cpp:42-83).
EdgesArrive ==
  /\ sampled = (IF pending = <<>> THEN level ELSE pending[Len(pending)])
  /\ ~overflowed => edges = delivered \o pending
=============================================================================
