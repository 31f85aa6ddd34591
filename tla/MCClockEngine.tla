----------------------------- MODULE MCClockEngine -----------------------------
(* Instances of ClockEngine: beats of four ticks and two or three beats of   *)
(* music; a CLOCK channel beside a SEQUENCER channel at the same rate.       *)
EXTENDS ClockEngine

Clk == [mode |-> "Clock", muted |-> FALSE, global |-> TRUE, num |-> 1, den |-> 1, phase |-> 0,
        swing |-> 0, gate |-> 5, sure |-> TRUE, cycle |-> 2, hits |-> {}]
Ring  == [Clk EXCEPT !.mode = "Euclid", !.hits = {1}, !.sure = FALSE,
                     !.num = 2, !.swing = 50, !.phase = 50]
Seq0  == [Clk EXCEPT !.mode = "Sequencer"]
Free  == [Seq0 EXCEPT !.global = FALSE]
Off   == [Clk EXCEPT !.mode = "Off"]

With(source, tempo, loss, pre, a, b) ==
  [source |-> source, tempo |-> tempo, loss |-> loss, preCount |-> pre, channel |-> <<a, b>>]

Meta(ratchets, duty, tie, chance) ==
  [ratchets |-> ratchets, duty |-> duty, tie |-> tie, chance |-> chance]

\* A ratchet, a tie into the next step and the step it ends in.
Phrase  == <<Meta(2, 75, FALSE, "sure"), Meta(1, 0, TRUE, "channel"), Meta(1, 50, FALSE, "maybe"),
             Meta(1, 0, FALSE, "channel")>>
Phrases == {[s \in Step |-> Phrase[s + 1]]}
Once    == [order |-> <<0, 1, 2>>, once |-> TRUE, gates |-> {0, 1, 2}]
OncePattern == {Once}

\* Internal clock; edits mute, free, switch off and change the mode.
EditSettings == {With("Internal", 1, "Internal", 0, Clk, Seq0),
                 With("Internal", 1, "Internal", 1, Ring, Free),
                 With("Internal", 1, "Internal", 0, Off, Seq0)}

\* A SYNC cable of two pulses to a beat, with the three loss policies and a
\* source switched to Internal and back; one GLOBAL channel.
One(source, tempo, loss, pre) ==
  [source |-> source, tempo |-> tempo, loss |-> loss, preCount |-> pre, channel |-> <<Clk>>]
PulseSettings == {One("External", 1, "Stop", 1), One("Internal", 2, "Freewheel", 0)}
PlainStepOnly == {[s \in Step |-> PlainStep]}

\* A SEQUENCER channel that plays ratchets, muted and unmuted.
RatchetSettings == {[One("Internal", 1, "Internal", 0) EXCEPT !.channel = <<Seq0>>],
                    [One("Internal", 1, "Internal", 0) EXCEPT !.channel = <<[Seq0 EXCEPT !.muted = TRUE]>>]}
=============================================================================
