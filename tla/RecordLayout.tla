----------------------------- MODULE RecordLayout -----------------------------
(***************************************************************************)
(* The payload of a durable record of the newest schema                    *)
(* (services/persistent_state_codec, serializeState): the fields in the    *)
(* order they are written, each with its width in bytes and the schema     *)
(* that added it.  Older payloads lack the fields added later.             *)
(***************************************************************************)
EXTENDS Integers, SequencesExt

Channels == 1..8

GlobalRows == <<
  <<"bpm", 2, 3>>, <<"minimumBpm", 2, 5>>, <<"maximumBpm", 2, 5>>,
  <<"beats", 1, 3>>, <<"unit", 1, 3>>, <<"transport", 1, 3>>, <<"source", 1, 3>>,
  <<"operatingMode", 1, 3>>, <<"ppqn", 1, 3>>, <<"edge", 1, 3>>, <<"lossMode", 1, 3>>,
  <<"resetMode", 1, 6>>, <<"glitchFilterUs", 2, 3>>, <<"timeoutMs", 2, 3>>,
  <<"rateMode", 1, 3>>, <<"factor", 1, 3>>, <<"numerator", 1, 3>>, <<"denominator", 1, 3>>,
  <<"swing", 1, 3>>, <<"gateLengthMs", 2, 3>>, <<"phase", 1, 3>>, <<"humanizeUs", 2, 5>>,
  <<"bank", 1, 3>>, <<"bankGateMs", 2, 3>>, <<"screensaver", 1, 4>>,
  <<"screensaverAfter", 1, 4>>, <<"dimAfter", 1, 4>>, <<"offAfter", 1, 4>> >>

ChannelRows == <<
  <<"mode", 1, 3>>, <<"rateMode", 1, 3>>, <<"factor", 1, 3>>, <<"numerator", 1, 3>>,
  <<"denominator", 1, 3>>, <<"swing", 1, 3>>, <<"probability", 1, 3>>,
  <<"gateLengthMs", 2, 3>>, <<"phase", 1, 3>>, <<"reset", 1, 3>>, <<"muted", 1, 3>>,
  <<"beats", 1, 3>>, <<"unit", 1, 3>>, <<"steps", 1, 3>>, <<"hits", 1, 3>>,
  <<"rotation", 1, 3>>, <<"length", 1, 3>>, <<"sequencerRotation", 1, 3>>,
  <<"pattern", 8, 3>> >>

Appended == << <<"encoderReversed", 1, 7>>, <<"rotated180", 1, 7>>,
               <<"smoothing", 1, 8>>, <<"preCountSteps", 1, 9>> >>
Groove == << <<"groove", 1, 10>>, <<"amount", 1, 10>>, <<"grooveRotation", 1, 10>> >>
Inputs == << <<"input1", 1, 11>>, <<"input2", 1, 11>> >>
CustomSlot == << <<"customSlot", 1, 12>> >>

\* The rows of the unified clock and the device (0) or of one channel.
On(c, rows) ==
  [i \in DOMAIN rows |-> [field |-> <<rows[i][1], c>>, width |-> rows[i][2], since |-> rows[i][3]]]
OnChannels(rows) == FlattenSeq([c \in Channels |-> On(c, rows)])

NewestLayout ==
  On(0, GlobalRows) \o OnChannels(ChannelRows) \o On(0, Appended)
  \o On(0, Groove) \o OnChannels(Groove) \o On(0, Inputs)
  \o On(0, CustomSlot) \o OnChannels(CustomSlot)

\* Where each field lies.
NewestPlaces ==
  LET layout == NewestLayout
      rows == DOMAIN layout
      \* By halves: the fields are too many to recur over one by one.
      width[i \in rows, j \in rows] ==
        LET middle == (i + j) \div 2
        IN  IF i = j THEN layout[i].width ELSE width[i, middle] + width[middle + 1, j]
      start(i) == 1 + (IF i = 1 THEN 0 ELSE width[1, i - 1])
      place(i) == [at |-> start(i), width |-> layout[i].width, since |-> layout[i].since]
  IN  [f \in {layout[i].field : i \in DOMAIN layout} |->
         place(CHOOSE i \in DOMAIN layout : layout[i].field = f)]

Fields == DOMAIN NewestPlaces
=============================================================================
