-------------------------------- MODULE TapTempo --------------------------------
(* Tap tempo: TapTempo::registerTap with its two sources, the TAP button of    *)
(* the panel and a TAP role on an input jack, and the sequence timeout of the  *)
(* user interface (services/tap_tempo.cpp, ui/ui_controller.cpp,               *)
(* app/clock_application.cpp).  The foreground runs a pass now and then; a jack *)
(* edge is stamped when it arrives and waits for the next pass in one slot.    *)
EXTENDS Integers, Sequences, SequencesExt, FiniteSetsExt

CONSTANTS
  MinGap, MaxGap,  \* kTapMinimumIntervalMs, maximumSequenceIntervalMs(minimumBpm)
  Window,          \* intervalsMs_.size()
  Minute,          \* 60000
  MinBpm, MaxBpm,  \* tempoRange
  MicrosWrap,      \* milliseconds after which the microsecond stamps start over
  MaxDelay,        \* bound: time between two passes
  MaxTime,         \* bound
  None

VARIABLES
  now,         \* SystemClock::milliseconds
  passAt,      \* time of the last pass
  slot,        \* pendingTapTimestampUs_ / 1000 or None
  previous,    \* previousTapAtMs_ or None
  intervals,   \* intervalsMs_, oldest first
  sequenceAt,  \* lastTapVisualAtMs_ while tapVisualSequenceActive_, or None
  bpm,         \* the tempo last set by a tap or None
  heard        \* history: the last Window + 1 taps the estimator was given, [at, from]

vars == <<now, passAt, slot, previous, intervals, sequenceAt, bpm, heard>>

Clamped(low, x, high) == IF x < low THEN low ELSE IF x > high THEN high ELSE x
Tempo(gaps) ==
  LET sum == FoldSeq(+, 0, gaps)
  IN Clamped(MinBpm, (Minute * Len(gaps) + sum \div 2) \div sum, MaxBpm)
Newest(seq, n) == SubSeq(seq, Len(seq) - Min({n, Len(seq)}) + 1, Len(seq))

Init ==
  /\ now = 0 /\ passAt = 0 /\ slot = None /\ previous = None /\ intervals = <<>>
  /\ sequenceAt = None /\ bpm = None /\ heard = <<>>

Advance ==
  /\ now < MaxTime /\ now - passAt < MaxDelay
  /\ now' = now + 1
  /\ UNCHANGED <<passAt, slot, previous, intervals, sequenceAt, bpm, heard>>

\* A rising edge on the jack; a second one before the next pass replaces it.
JackTap ==
  /\ slot' = now % MicrosWrap
  /\ UNCHANGED <<now, passAt, previous, intervals, sequenceAt, bpm, heard>>

-----------------------------------------------------------------------------
Restarted(est, stamp) == [est EXCEPT !.previous = stamp, !.intervals = <<>>]
Counted(est, stamp) ==
  LET gaps == Newest(Append(est.intervals, stamp - est.previous), Window)
  IN [est EXCEPT !.previous = stamp, !.intervals = gaps, !.bpm = Tempo(gaps)]

\* Mutant: an interval that is too short is skipped, not the end of the series.
RegisterSkipping(est, stamp) ==
  CASE est.previous = None -> Restarted(est, stamp)
    [] est.previous # None /\ stamp - est.previous > MaxGap -> Restarted(est, stamp)
    [] est.previous # None /\ stamp - est.previous < MinGap -> [est EXCEPT !.previous = stamp]
    [] OTHER -> Counted(est, stamp)

\* registerTap.  The difference of two stamps is unsigned: a stamp below the
\* previous one is an interval beyond every limit.
Register(est, stamp) ==
  IF est.previous # None /\ stamp - est.previous \in MinGap..MaxGap
  THEN Counted(est, stamp) ELSE Restarted(est, stamp)

\* registerTapTempo: the sequence the display shows restarts with it.
Heard(est, stamp, tap) ==
  [Register(est, stamp) EXCEPT !.sequenceAt = stamp,
                               !.heard = Newest(Append(est.heard, tap), Window + 1)]

\* serviceTapTempoFeedback: the estimator forgets a sequence that has run out.
Expired(est) ==
  IF est.sequenceAt # None /\ (now < est.sequenceAt \/ now - est.sequenceAt > MaxGap)
  THEN [est EXCEPT !.previous = None, !.intervals = <<>>, !.sequenceAt = None]
  ELSE est

\* The real time of the waiting stamp: the only one within MaxDelay.
SlotTime == CHOOSE t \in passAt..now : t % MicrosWrap = slot

\* runOnce: the jack first, then the panel, then the timeout.
Pass(pressed) ==
  LET est == [previous |-> previous, intervals |-> intervals, sequenceAt |-> sequenceAt,
              bpm |-> bpm, heard |-> heard]
      jack == IF slot = None THEN est ELSE Heard(est, slot, [at |-> SlotTime, from |-> "jack"])
      done == Expired(IF pressed THEN Heard(jack, now, [at |-> now, from |-> "button"]) ELSE jack)
  IN /\ passAt < now
     /\ passAt' = now /\ slot' = None
     /\ previous' = done.previous /\ intervals' = done.intervals
     /\ sequenceAt' = done.sequenceAt /\ bpm' = done.bpm /\ heard' = done.heard
     /\ UNCHANGED now

Next == Advance \/ JackTap \/ \E pressed \in BOOLEAN : Pass(pressed)

Spec == Init /\ [][Next]_vars

-----------------------------------------------------------------------------
\* The gaps of the taps heard, newest last, as far back as all of them are
\* playable tempos.
Gap(k) == heard[k + 1].at - heard[k].at
Playable(k) == Gap(k) >= MinGap /\ Gap(k) <= MaxGap
Unbroken ==
  LET from == Max({0} \cup {k \in 1..(Len(heard) - 1) : ~Playable(k)})
  IN [k \in 1..(Len(heard) - 1 - from) |-> Gap(from + k)]

\* The tempo is the average of the newest taps in time with each other,
\* whichever mixture of button and jack they came from and however late the
\* foreground was (tap_tempo.cpp:34-81).
AverageOfRecentTaps ==
  Len(heard) > 1 /\ Unbroken # <<>> => bpm = Tempo(Newest(Unbroken, Window))

\* "A positive edge is passed to the normal Tap-Tempo estimator with its
\* captured input timestamp" (docs/USER_GUIDE.md:414): two taps on the jack in
\* time with each other set a tempo.
JackTapsSetATempo ==
  Len(heard) > 1 /\ Unbroken # <<>> /\ (\A k \in DOMAIN heard : heard[k].from = "jack")
    => bpm # None
=============================================================================
