------------------------------ MODULE PatternBank ------------------------------
(***************************************************************************)
(* The patterns of the sequencer in memory and in Flash                    *)
(* (services/sequencer_pattern_store, and setting and clamping gates in    *)
(* domain/sequencer_pattern).  A pattern's gates are the bits of two       *)
(* words; the bits beyond its length are always clear, or lengthening the  *)
(* pattern would bring old gates back.  SequencerStores sees patterns as   *)
(* values and has the deadlines and commits of this store.                 *)
(***************************************************************************)
EXTENDS Integers, Sequences, FiniteSets

CONSTANTS
  Slots,       \* the slots of a channel
  First,
  WordBits,    \* bits of a gate word, 64 in the code
  ByteBits,    \* bits of a byte, 8 in the code
  Clean,       \* the pattern of an empty slot
  Legacy,      \* the pattern in the state of a preset from before the bank
  MaxEdits,
  None

VARIABLES
  patterns, active,   \* in memory
  dirty,
  clipboard,
  image,              \* the store's region of Flash
  drawn,              \* the gates of each slot as the user has drawn them
  copied, kept,       \* what of them was copied and flushed
  edits

vars == <<patterns, active, dirty, clipboard, image, drawn, copied, kept, edits>>

MaxSteps == 2 * WordBits
Bits == 0..WordBits - 1

-----------------------------------------------------------------------------
(* domain/sequencer_pattern                                                   *)

IsPatternValid(p) == p.length \in 1..MaxSteps /\ p.rotation < p.length

\* sequencerPatternGate
Gate(p, step) == step < MaxSteps /\ (step % WordBits) \in p.gates[step \div WordBits + 1]

\* setSequencerPatternGate
WithGate(p, step, on) ==
  LET word == step \div WordBits + 1
  IN  [p EXCEPT !.gates[word] =
         IF on THEN @ \cup {step % WordBits} ELSE @ \ {step % WordBits}]

Below(word, n) == {b \in word : b < n}

\* clampSequencerPattern
Clamped(p) ==
  [p EXCEPT !.gates = IF p.length < WordBits THEN <<Below(@[1], p.length), {}>>
                      ELSE IF p.length = WordBits THEN <<@[1], {}>>
                      ELSE IF p.length < MaxSteps THEN <<@[1], Below(@[2], p.length - WordBits)>>
                      ELSE @,
            !.rotation = IF @ >= p.length THEN 0 ELSE @]

-----------------------------------------------------------------------------
(* The image                                                                  *)

BytesPerWord == WordBits \div ByteBits

\* encodePattern: little-endian.
EncodedPattern(p) ==
  [length |-> p.length, rotation |-> p.rotation,
   bytes |-> [i \in 0..2 * BytesPerWord - 1 |->
                {b \in 0..ByteBits - 1 :
                   (i % BytesPerWord) * ByteBits + b \in p.gates[i \div BytesPerWord + 1]}]]

\* decodePattern, without its verdict.
DecodedPattern(r) ==
  Clamped([length |-> r.length, rotation |-> r.rotation,
           gates |-> [w \in 1..2 |->
             {b \in Bits : (b % ByteBits) \in r.bytes[(w - 1) * BytesPerWord + b \div ByteBits]}]])

\* Version 2 added the active slots; version 1 has unused bytes there.
EncodedBank ==
  [version |-> 2, records |-> [s \in Slots |-> EncodedPattern(patterns[s])],
   active |-> active, sum |-> TRUE]

\* decodeBank: everything or nothing.
IsReadable(bytes) ==
  /\ bytes # None /\ bytes.sum
  /\ \A s \in Slots : IsPatternValid(bytes.records[s])
  /\ bytes.version = 2 => bytes.active \in Slots

-----------------------------------------------------------------------------
Gates(p) == {n \in 0..MaxSteps - 1 : Gate(p, n)}
CleanBank == [s \in Slots |-> Clean]

\* What seedLegacyPatternOnes makes of the sequencer of an old state.
Seeded == [CleanBank EXCEPT ![First] = Clamped(Legacy)]
SeededGates == [s \in Slots |-> Gates(Seeded[s])]

StoredBefore ==
  {None, [version |-> 1, sum |-> TRUE, active |-> None,
          records |-> [s \in Slots |-> EncodedPattern(Seeded[s])]]}

Init ==
  /\ image \in StoredBefore /\ kept = [gates |-> SeededGates, active |-> First]
  /\ patterns = CleanBank /\ active = First /\ dirty = FALSE
  /\ drawn = [s \in Slots |-> Gates(Clean)] /\ clipboard = None /\ copied = {} /\ edits = 0

\* begin() and, without a bank, seedLegacyPatternOnes.
Begin ==
  LET found == IsReadable(image)
  IN  /\ patterns' = IF found THEN [s \in Slots |-> DecodedPattern(image.records[s])] ELSE Seeded
      /\ active' = IF found /\ image.version = 2 THEN image.active ELSE First
      /\ dirty' = ~found
      /\ drawn' = IF found THEN kept.gates ELSE SeededGates
      /\ clipboard' = None /\ copied' = {}
      /\ UNCHANGED <<image, kept, edits>>

\* updatePattern of the active slot.
Update(p, gates) ==
  /\ edits < MaxEdits /\ edits' = edits + 1
  /\ patterns' = [patterns EXCEPT ![active] = IF IsPatternValid(p) THEN Clamped(p) ELSE @]
  /\ drawn' = [drawn EXCEPT ![active] = gates]
  /\ dirty' = TRUE /\ UNCHANGED <<active, image, clipboard, copied, kept>>

Edited == patterns[active]

\* toggleSequencerStepV2
Toggle(step) ==
  /\ step < Edited.length
  /\ Update(WithGate(Edited, step, ~Gate(Edited, step)),
            IF step \in drawn[active] THEN drawn[active] \ {step} ELSE drawn[active] \cup {step})

\* adjustSequencerV2: LENGTH and ROTATION.
TurnLength(delta) ==
  LET length == Edited.length + delta
  IN  /\ length \in 1..MaxSteps
      /\ Update(Clamped([Edited EXCEPT !.length = length, !.rotation = IF @ >= length THEN 0 ELSE @]),
                {n \in drawn[active] : n < length})

TurnRotation(delta) ==
  LET rotation == Edited.rotation + delta
  IN  /\ rotation \in 0..Edited.length - 1
      /\ Update([Edited EXCEPT !.rotation = rotation], drawn[active])

\* The commands INVERT, CLEAR and ALTERNATE set one gate after the other.
Redrawn(gates) ==
  LET p[n \in 0..Edited.length] ==
        IF n = 0 THEN Edited ELSE WithGate(p[n - 1], n - 1, n - 1 \in gates)
  IN  Update(Clamped(p[Edited.length]), gates)

AllSteps == 0..Edited.length - 1
Commands == {AllSteps \ drawn[active], {}, {n \in AllSteps : n % 2 = 0}}

Copy ==
  /\ clipboard' = Edited /\ copied' = drawn[active]
  /\ UNCHANGED <<patterns, active, dirty, image, drawn, kept, edits>>

Paste == clipboard # None /\ Update(clipboard, copied)

SetActiveSlot(s) ==
  /\ active # s /\ active' = s /\ dirty' = TRUE
  /\ UNCHANGED <<patterns, clipboard, image, drawn, copied, kept, edits>>

Flush ==
  /\ dirty /\ image' = EncodedBank /\ dirty' = FALSE
  /\ kept' = [gates |-> drawn, active |-> active]
  /\ UNCHANGED <<patterns, active, clipboard, drawn, copied, edits>>

\* A region that decays is no bank any more; the next boot seeds the first slot.
Decay ==
  /\ image # None /\ image.sum /\ image' = [image EXCEPT !.sum = FALSE]
  /\ UNCHANGED <<patterns, active, dirty, clipboard, drawn, copied, kept, edits>>

Next ==
  \/ Begin \/ Flush \/ Decay \/ Copy \/ Paste
  \/ \E s \in Slots : SetActiveSlot(s)
  \/ \E n \in 0..MaxSteps - 1 : Toggle(n)
  \/ \E delta \in {-1, 1} : TurnLength(delta) \/ TurnRotation(delta)
  \/ \E gates \in Commands : Redrawn(gates)

Spec == Init /\ [][Next]_vars

-----------------------------------------------------------------------------
(* Properties *)

\* Every pattern sounds exactly the gates drawn into it and not cut off by a
\* shorter length since, across commands, flushes, power cycles, an older image
\* and decay: gates beyond the length never come back.
GatesAreAsDrawn ==
  \A s \in Slots : IsPatternValid(patterns[s]) /\ Gates(patterns[s]) = drawn[s]
=============================================================================
