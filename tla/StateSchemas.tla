----------------------------- MODULE StateSchemas -----------------------------
(***************************************************************************)
(* The bytes of the durable records, and what the firmware reads from the  *)
(* records of its predecessors (services/persistent_state_codec, _migration *)
(* and _migration_v8 to _v11, _validation, _service_begin).                *)
(*                                                                         *)
(* Each schema since v3 has added fields, at the end or in the middle of   *)
(* the payload.  A decoder knows how to turn the payload of its schema     *)
(* into one of the next, and the newest one reads the fields.  A record is *)
(* a header, the bytes of its payload and whether its CRC matches; where   *)
(* records lie in the image is in PersistentState.                         *)
(***************************************************************************)
EXTENDS Integers, SequencesExt, FiniteSetsExt

CONSTANTS
  Layout,      \* the rows of a payload of the newest schema, see RecordLayout
  Places,      \* where each field lies in it
  Cases,       \* configurations of old records, each with what became of the record
  None

VARIABLES
  kind, schema, saved, flaw,  \* what was saved, by which firmware, and what became of it
  record,                     \* the record as it lies in the image
  loaded,                     \* the configuration begin() found, or None
  boots

vars == <<kind, schema, saved, flaw, record, loaded, boots>>

Channels == 1..8
Schemas == 3..12
Kinds == {"current", "preset"}

-----------------------------------------------------------------------------
(* serializeState                                                             *)

\* A 64-bit pattern is the tuple of its bytes.
Bytes(value, width) ==
  IF width = 8 THEN value
  ELSE IF width = 2 THEN <<value % 256, value \div 256>> ELSE <<value>>

\* By halves: the fields are too many to recur over one by one.
Written(rows, state) ==
  LET bytes[i \in DOMAIN rows, j \in DOMAIN rows] ==
        LET middle == (i + j) \div 2
        IN  IF i = j THEN Bytes(state[rows[i].field], rows[i].width)
            ELSE bytes[i, middle] \o bytes[middle + 1, j]
  IN  bytes[1, Len(rows)]

SerializeState(state) == Written(Layout, state)

\* k..StatePayloadSize
PayloadSize(v) == <<241, 245, 251, 252, 254, 255, 256, 283, 285, 294>>[v - 2]

\* What the firmware of schema v saved: it had the fields of its time.
OldPayload(v, state) == Written(SelectSeq(Layout, LAMBDA row : row.since <= v), state)

SchemasAssumption ==
  \A v \in Schemas, c \in Cases : Len(OldPayload(v, c[1])) = PayloadSize(v)

-----------------------------------------------------------------------------
(* isPersistentStateValid                                                     *)

MeterValid(s, c) == s[<<"beats", c>>] \in 1..16 /\ s[<<"unit", c>>] \in {1, 2, 4, 8, 16}
RateValid(s, c) ==
  /\ s[<<"rateMode", c>>] \in 0..1 /\ s[<<"factor", c>>] \in 1..32
  /\ s[<<"numerator", c>>] \in 1..16 /\ s[<<"denominator", c>>] \in 1..16

\* OFF, four swings, three pockets, CUSTOM.
PatternLength(preset) == <<1, 2, 2, 2, 2, 8, 8, 16, 64>>[preset + 1]
GrooveValid(s, c) ==
  /\ s[<<"groove", c>>] \in 0..8 /\ s[<<"amount", c>>] <= 100 /\ s[<<"customSlot", c>>] < 10
  /\ s[<<"grooveRotation", c>>] < PatternLength(s[<<"groove", c>>])

ChannelValid(s, c) ==
  /\ s[<<"mode", c>>] \in 0..3 /\ RateValid(s, c) /\ s[<<"swing", c>>] <= 50
  /\ GrooveValid(s, c) /\ s[<<"probability", c>>] <= 100 /\ s[<<"phase", c>>] <= 99
  /\ s[<<"reset", c>>] \in 0..1 /\ MeterValid(s, c)
  /\ s[<<"steps", c>>] \in 1..64 /\ s[<<"hits", c>>] <= s[<<"steps", c>>]
  /\ s[<<"rotation", c>>] < s[<<"steps", c>>]
  /\ s[<<"length", c>>] \in 1..64 /\ s[<<"sequencerRotation", c>>] < s[<<"length", c>>]

TempoValid(s) ==
  /\ 1 <= s[<<"minimumBpm", 0>>] /\ s[<<"minimumBpm", 0>>] <= s[<<"bpm", 0>>]
  /\ s[<<"bpm", 0>>] <= s[<<"maximumBpm", 0>>] /\ s[<<"maximumBpm", 0>>] <= 999

ExternalSyncValid(s) ==
  /\ s[<<"ppqn", 0>>] # 0 /\ s[<<"edge", 0>>] \in 0..1 /\ s[<<"lossMode", 0>>] \in 0..2
  /\ s[<<"resetMode", 0>>] \in 0..1 /\ s[<<"smoothing", 0>>] \in 0..3

InputsValid(s) ==
  /\ s[<<"input1", 0>>] \in 0..7 /\ s[<<"input2", 0>>] \in 0..7
  /\ s[<<"input1", 0>>] = 0 \/ s[<<"input1", 0>>] # s[<<"input2", 0>>]

DisplayValid(s) ==
  /\ s[<<"screensaver", 0>>] \in 1..16 /\ 1 <= s[<<"screensaverAfter", 0>>]
  /\ s[<<"screensaverAfter", 0>>] <= s[<<"dimAfter", 0>>]
  /\ s[<<"dimAfter", 0>>] <= s[<<"offAfter", 0>>] /\ s[<<"offAfter", 0>>] <= 120

Valid(s) ==
  /\ TempoValid(s) /\ MeterValid(s, 0) /\ s[<<"preCountSteps", 0>>] <= 64
  /\ s[<<"transport", 0>>] \in 0..2 /\ s[<<"source", 0>>] \in 0..2
  /\ s[<<"operatingMode", 0>>] \in 0..2 /\ ExternalSyncValid(s) /\ InputsValid(s)
  /\ RateValid(s, 0) /\ s[<<"swing", 0>>] <= 50 /\ GrooveValid(s, 0)
  /\ s[<<"phase", 0>>] <= 99 /\ s[<<"humanizeUs", 0>>] <= 2000
  /\ s[<<"bank", 0>>] \in 0..2 /\ DisplayValid(s)
  /\ \A c \in Channels : ChannelValid(s, c)

-----------------------------------------------------------------------------
(* Reading.                                                                   *)

\* ByteReader
Read(payload, place) ==
  CASE place.width = 1 -> payload[place.at]
    [] place.width = 2 -> payload[place.at] + 256 * payload[place.at + 1]
    [] place.width = 8 -> SubSeq(payload, place.at, place.at + 7)

DeserializeState(payload) ==
  LET candidate == [f \in DOMAIN Places |-> Read(payload, Places[f])]
  IN  IF Valid(candidate) THEN candidate ELSE None

\* payload with `bytes' put in after its first n.
Spliced(payload, n, bytes) ==
  SubSeq(payload, 1, n) \o bytes \o SubSeq(payload, n + 1, Len(payload))

Zeros(n) == [i \in 1..n |-> 0]
Triples(n, triple) == FlattenSeq([i \in 1..n |-> triple])

\* Factory values: SYNC and RESET, no pre-count, LOW smoothing, TRIGGER; the clock as
\* screensaver.
FromV11(p) == p \o Zeros(9)
FromV10(p) == p \o <<1, 2>> \o Zeros(9)
FromV9(p) == p \o Triples(9, <<0, 100, 0>>) \o <<1, 2>> \o Zeros(9)
FromV8(p) == FromV9(Append(p, 0))
FromV7(p) == FromV8(Append(p, 1))
FromV6(p) == FromV7(p \o <<0, 0>>)
FromV5(p) == FromV6(Spliced(p, 14, <<0>>))

\* The tempo range is put around the tempo.  Both offsets are those of v4 payloads.
TempoRange(bpm) == Bytes(Min({20, bpm}), 2) \o Bytes(Max({999, bpm}), 2)
LegacyBpm(p) == p[1] + 256 * p[2]

\* Mutant: the second offset is taken after the first insertion.
FromV4Shifted(p) == FromV5(Spliced(Spliced(p, 2, TempoRange(LegacyBpm(p))), 22, <<0, 0>>))

FromV4(p) == FromV5(Spliced(Spliced(p, 22, <<0, 0>>), 2, TempoRange(LegacyBpm(p))))
FromV3(p) == FromV4(Spliced(p, 25, <<5, 2, 5, 10>>))

\* Byte 5 tells presets from CURRENT, which the decoder of v12 CURRENT does not look at.
SlotByte(k) == IF k = "preset" THEN 1 ELSE 0
SlotByteMatters(v, k) == v # 12 \/ k = "preset"

\* The header checks of deserialize..CurrentRecord and deserialize..PresetRecord.
Accepted(v, k, r) ==
  /\ r.magic = <<k, v>> /\ r.version = v /\ r.size = PayloadSize(v) /\ r.sum
  /\ SlotByteMatters(v, k) => r.slot = SlotByte(k)
  /\ k = "preset" => r.name

ReadV12(k, r) == IF Accepted(12, k, r) THEN DeserializeState(r.payload) ELSE None
ReadV11(k, r) == IF Accepted(11, k, r) THEN DeserializeState(FromV11(r.payload)) ELSE None
ReadV10(k, r) == IF Accepted(10, k, r) THEN DeserializeState(FromV10(r.payload)) ELSE None
ReadV9(k, r) == IF Accepted(9, k, r) THEN DeserializeState(FromV9(r.payload)) ELSE None
ReadV8(k, r) == IF Accepted(8, k, r) THEN DeserializeState(FromV8(r.payload)) ELSE None
ReadV7(k, r) == IF Accepted(7, k, r) THEN DeserializeState(FromV7(r.payload)) ELSE None
ReadV6(k, r) == IF Accepted(6, k, r) THEN DeserializeState(FromV6(r.payload)) ELSE None
ReadV5(k, r) == IF Accepted(5, k, r) THEN DeserializeState(FromV5(r.payload)) ELSE None
ReadV4(k, r) == IF Accepted(4, k, r) THEN DeserializeState(FromV4(r.payload)) ELSE None
ReadV3(k, r) == IF Accepted(3, k, r) THEN DeserializeState(FromV3(r.payload)) ELSE None

\* begin() probes newest to oldest.
Decoded(k, r) ==
  <<None, None, ReadV3(k, r), ReadV4(k, r), ReadV5(k, r), ReadV6(k, r), ReadV7(k, r),
    ReadV8(k, r), ReadV9(k, r), ReadV10(k, r), ReadV11(k, r), ReadV12(k, r)>>
Newest(decoded) ==
  LET readable == {v \in Schemas : decoded[v] # None}
  IN  IF readable = {} THEN None ELSE decoded[Max(readable)]

\* serializeCurrentRecord, serializePresetRecord and their predecessors.  `name' tells
\* whether all characters of the name are allowed, which normalizePresetName achieves.
Record(k, v, payload) ==
  [magic |-> <<k, v>>, version |-> v, slot |-> SlotByte(k), size |-> Len(payload),
   name |-> TRUE, payload |-> payload, sum |-> TRUE]

-----------------------------------------------------------------------------
\* Any one part of a record may have become another.
Flaws == {"none", "magic", "version", "slot", "size", "name", "sum"}
Flawed(f, r) ==
  CASE f = "none" -> r
    [] f = "magic" -> [r EXCEPT !.magic = <<"score", @[2]>>]
    [] f = "version" -> [r EXCEPT !.version = IF @ = 12 THEN 11 ELSE @ + 1]
    [] f = "slot" -> [r EXCEPT !.slot = 1 - @]
    [] f = "size" -> [r EXCEPT !.size = @ + 1]
    [] f = "name" -> [r EXCEPT !.name = FALSE]
    [] f = "sum" -> [r EXCEPT !.sum = FALSE]

Init ==
  /\ kind \in Kinds /\ schema \in Schemas
  /\ \E c \in Cases : saved = c[1] /\ flaw = c[2]
  /\ record = Flawed(flaw, Record(kind, schema, OldPayload(schema, saved)))
  /\ loaded = None /\ boots = 0

\* begin(): what was read from an older schema is written back as the newest.
Boot ==
  LET decoded == Decoded(kind, record)
  IN  /\ boots < 2 /\ boots' = boots + 1
      /\ loaded' = Newest(decoded)
      /\ record' = IF decoded[12] = None /\ loaded' # None
                     THEN Record(kind, 12, SerializeState(loaded')) ELSE record
      /\ UNCHANGED <<kind, schema, saved, flaw>>

Next == Boot
Spec == Init /\ [][Next]_vars

-----------------------------------------------------------------------------
(* Properties *)

\* What a field is when its schema did not have it.
FactoryValue(f) ==
  CASE f[1] = "minimumBpm" -> Min({20, saved[<<"bpm", 0>>]})
    [] f[1] = "maximumBpm" -> Max({999, saved[<<"bpm", 0>>]})
    [] f[1] = "screensaver" -> 5 [] f[1] = "screensaverAfter" -> 2
    [] f[1] = "dimAfter" -> 5    [] f[1] = "offAfter" -> 10
    [] f[1] = "amount" -> 100    [] f[1] = "smoothing" -> 1
    [] f[1] = "input1" -> 1      [] f[1] = "input2" -> 2
    [] OTHER -> 0

AsSaved ==
  [f \in DOMAIN Places |-> IF Places[f].since <= schema THEN saved[f] ELSE FactoryValue(f)]

Intact ==
  \/ flaw = "none"
  \/ flaw = "slot" /\ ~SlotByteMatters(schema, kind)
  \/ flaw = "name" /\ kind = "current"

\* A record of any schema is loaded exactly if it is intact and its values are valid,
\* every value under its own name and new fields at their factory values; and what was
\* rewritten at the first boot is the same at the second.
EverySchemaIsRead ==
  LET expected == AsSaved
  IN  boots > 0 => loaded = IF Intact /\ Valid(expected) THEN expected ELSE None
=============================================================================
