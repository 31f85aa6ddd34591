----------------------------- MODULE FlashStorage -----------------------------
(***************************************************************************)
(* The A/B Flash image store (src/hal/persistent_storage.cpp): every       *)
(* update writes a whole image to the slot that is not in use and programs *)
(* the commit marker last; reads use the newest valid slot.                *)
(*                                                                         *)
(* Power may fail between any two Flash operations, and any operation may  *)
(* report a failure and leave its words written, unwritten or torn.  The   *)
(* header words that metadata and header CRC protect are one value, which  *)
(* is NoHeader when they do not check; a payload CRC is the payload it was *)
(* computed from, so it never collides.                                    *)
(***************************************************************************)
EXTENDS Integers

CONSTANTS
  NWords,    \* words of the current image (kCapacityBytes)
  Sizes,     \* payload sizes slotIsValid accepts, in words
  Wrap,      \* number of generations: 2^32
  Values,    \* what clients store in a word
  Erased,    \* an erased word
  Torn,      \* a word whose programming was interrupted
  NoHeader,  \* header words that do not check
  None       \* no draft, no previous image

Words       == 1 .. NWords
Data        == Values \cup {Erased}
Generations == 0 .. Wrap - 1
Header      == [size : Sizes, generation : Generations,
                payloadCrc : UNION {[1 .. n -> Data] : n \in Sizes}]
Slots       == {0, 1}
Images      == [Words -> Data]

ASSUME SizesAssumption ==
  NWords \in Nat \ {0} /\ Sizes \subseteq Words /\ NWords \in Sizes
ASSUME WrapAssumption == Wrap \in Nat /\ Wrap >= 3
ASSUME MarksAssumption == NoHeader \notin Header /\ None \notin Images /\ Torn \notin Data

VARIABLES
  slot,              \* the two Flash sectors
  stagingImage,
  stagedGeneration,
  stagedActiveSlot,  \* -1, or the slot the draft was copied from
  updateOpen,
  updateDirty,
  pc,                \* where commitUpdate stands
  nextWord,          \* the payload word to program next
  answer             \* what the last commitUpdate returned

stagedVars == <<stagingImage, stagedGeneration, stagedActiveSlot, updateOpen, updateDirty>>
vars == <<slot, stagedVars, pc, nextWord, answer>>

-----------------------------------------------------------------------------
(* Reading. *)

Crc(data, size) == [w \in 1 .. size |-> data[w]]

\* slotIsValid
CellValid(c) ==
  /\ c.commit
  /\ c.header # NoHeader
  /\ c.header.payloadCrc = Crc(c.data, c.header.size)

Valid(s) == CellValid(slot[s])

\* static_cast<std::int32_t>(candidate - reference) > 0
Difference(c, r) == IF c >= r THEN c - r ELSE c - r + Wrap
\* Fault: generations compared as plain unsigned numbers.
NewerUnsigned(c, r) == c > r

Newer(c, r) == LET d == Difference(c, r) IN d > 0 /\ 2 * d < Wrap

Generation(s) == slot[s].header.generation

\* newestValidSlot
Newest ==
  IF ~Valid(0) /\ ~Valid(1) THEN -1
  ELSE IF ~Valid(0) \/ (Valid(1) /\ Newer(Generation(1), Generation(0))) THEN 1 ELSE 0

Blank == [w \in Words |-> Erased]

\* What a slot's payload means: words beyond its size read as erased.
CellContent(c) == [w \in Words |-> IF w <= c.header.size THEN c.data[w] ELSE Erased]
Content(s)     == CellContent(slot[s])

\* What readBytes returns, word for word.
Logical == IF Newest = -1 THEN Blank ELSE Content(Newest)

-----------------------------------------------------------------------------
(* Updating. *)

BlankSlot == [header |-> NoHeader, data |-> Blank, commit |-> FALSE]

HeaderFor(n, g, data) == [size |-> n, generation |-> g, payloadCrc |-> Crc(data, n)]

\* A device is blank, or carries one image of an accepted size.
Init ==
  /\ \/ slot = [s \in Slots |-> BlankSlot]
     \/ \E n \in Sizes, g \in Generations, img \in Images :
          slot = [s \in Slots |->
                    IF s = 1 THEN BlankSlot
                    ELSE [header |-> HeaderFor(n, g, img), data |-> img, commit |-> TRUE]]
  /\ stagingImage = Blank
  /\ stagedGeneration = 0 /\ stagedActiveSlot = -1
  /\ updateOpen = FALSE /\ updateDirty = FALSE
  /\ pc = "idle" /\ nextWord = 1 /\ answer = "none"

BeginUpdate ==
  /\ pc = "idle"
  /\ stagingImage' = Logical
  /\ stagedGeneration' = IF Newest = -1 THEN 0 ELSE Generation(Newest)
  /\ stagedActiveSlot' = Newest
  /\ updateOpen' = TRUE /\ updateDirty' = FALSE
  /\ answer' = "none"
  /\ UNCHANGED <<slot, pc, nextWord>>

\* stageBytes and stageFill over a range of words.
StageWords(ws, v) ==
  /\ pc = "idle" /\ updateOpen
  /\ stagingImage' = [w \in Words |-> IF w \in ws THEN v ELSE stagingImage[w]]
  /\ updateDirty' = (updateDirty \/ stagingImage' # stagingImage)
  /\ UNCHANGED <<slot, stagedGeneration, stagedActiveSlot, updateOpen, pc, nextWord, answer>>

Cancelled ==
  /\ updateOpen' = FALSE /\ updateDirty' = FALSE
  /\ stagedActiveSlot' = -1 /\ stagedGeneration' = 0
  /\ UNCHANGED stagingImage

CancelUpdate ==
  /\ pc = "idle" /\ updateOpen
  /\ Cancelled
  /\ answer' = "none"
  /\ UNCHANGED <<slot, pc, nextWord>>

\* commitUpdate returns: the draft is closed whatever the outcome.
Return(ok) ==
  /\ Cancelled
  /\ pc' = "idle" /\ nextWord' = 1
  /\ answer' = IF ok THEN "true" ELSE "false"

Target == IF stagedActiveSlot = 0 THEN 1 ELSE 0

NextGeneration ==
  IF stagedActiveSlot = -1 THEN 1
  ELSE IF stagedGeneration = Wrap - 1 THEN 0 ELSE stagedGeneration + 1

CommitUnchanged ==
  /\ pc = "idle" /\ updateOpen /\ ~updateDirty
  /\ Return(TRUE)
  /\ UNCHANGED slot

\* commitImage computes the header, unlocks the Flash and starts to erase.
CommitChanged ==
  /\ pc = "idle" /\ updateOpen /\ updateDirty
  /\ pc' = "erase"
  /\ UNCHANGED <<slot, stagedVars, nextWord, answer>>

\* While a sector is being erased any of its words may be erased already.
ErasePart ==
  /\ pc = "erase"
  /\ \E header \in {slot[Target].header, NoHeader},
        commit \in {slot[Target].commit, FALSE}, ws \in SUBSET Words :
       slot' = [slot EXCEPT ![Target] =
                  [header |-> header, commit |-> commit,
                   data |-> [w \in Words |-> IF w \in ws THEN Erased ELSE slot[Target].data[w]]]]
  /\ UNCHANGED <<stagedVars, pc, nextWord, answer>>

EraseDone ==
  /\ pc = "erase"
  /\ slot' = [slot EXCEPT ![Target] = BlankSlot]
  /\ pc' = "header"
  /\ UNCHANGED <<stagedVars, nextWord, answer>>

\* The first seven header words: all of them, or only some before a failure.
ProgramHeader ==
  /\ pc = "header"
  /\ slot' = [slot EXCEPT ![Target].header = HeaderFor(NWords, NextGeneration, stagingImage)]
  /\ pc' = "payload"
  /\ UNCHANGED <<stagedVars, nextWord, answer>>

ProgramWord ==
  /\ pc = "payload"
  /\ slot' = [slot EXCEPT ![Target].data[nextWord] = stagingImage[nextWord]]
  /\ pc' = IF nextWord = NWords THEN "commit" ELSE "payload"
  /\ nextWord' = IF nextWord = NWords THEN nextWord ELSE nextWord + 1
  /\ UNCHANGED <<stagedVars, answer>>

TornWord ==
  /\ pc = "payload"
  /\ slot' = [slot EXCEPT ![Target].data[nextWord] = Torn]
  /\ Return(FALSE)

ProgramMarker ==
  /\ pc = "commit"
  /\ slot' = [slot EXCEPT ![Target].commit = TRUE]
  /\ pc' = "verify"
  /\ UNCHANGED <<stagedVars, nextWord, answer>>

\* Any operation may report a failure, before or after it did its work.
OperationFails ==
  /\ pc \in {"erase", "header", "payload", "commit", "verify"}
  /\ Return(FALSE)
  /\ UNCHANGED slot

Verify ==
  /\ pc = "verify"
  /\ Return(Valid(Target) /\ Generation(Target) = NextGeneration)
  /\ UNCHANGED slot

\* Power fails and the device boots: RAM is lost, Flash is not.
PowerLoss ==
  /\ Cancelled
  /\ pc' = "idle" /\ nextWord' = 1 /\ answer' = "none"
  /\ UNCHANGED slot

\* A slot is damaged between two updates, so that a CRC no longer checks.
Decay(s) ==
  /\ pc = "idle" /\ ~updateOpen
  /\ Valid(s)
  /\ slot' = [slot EXCEPT ![s].header = NoHeader]
  /\ UNCHANGED <<stagedVars, pc, nextWord, answer>>

Next ==
  \/ BeginUpdate \/ CancelUpdate
  \/ \E ws \in SUBSET Words, v \in Data : StageWords(ws, v)
  \/ CommitUnchanged \/ CommitChanged
  \/ ErasePart \/ EraseDone \/ ProgramHeader \/ ProgramWord \/ TornWord
  \/ ProgramMarker \/ Verify \/ OperationFails
  \/ PowerLoss \/ \E s \in Slots : Decay(s)

Spec == Init /\ [][Next]_vars

-----------------------------------------------------------------------------
(* Properties. *)

\* Every variable holds a value of its type.
TypeOK ==
  /\ slot \in [Slots -> [header : Header \cup {NoHeader},
                         data : [Words -> Data \cup {Torn}], commit : BOOLEAN]]
  /\ stagingImage \in Images
  /\ stagedGeneration \in Generations
  /\ stagedActiveSlot \in {-1, 0, 1}
  /\ updateOpen \in BOOLEAN /\ updateDirty \in BOOLEAN
  /\ pc \in {"idle", "erase", "header", "payload", "commit", "verify"}
  /\ nextWord \in Words
  /\ answer \in {"none", "true", "false"}

\* Until the commit marker is programmed the slot the draft was copied from
\* stays the newest valid one, through every erase, torn word and failure.
ActiveSlotKept ==
  updateOpen /\ pc # "verify" =>
    /\ Newest = stagedActiveSlot
    /\ stagedActiveSlot # -1 => Generation(stagedActiveSlot) = stagedGeneration

\* Two valid slots hold consecutive generations, also across the wrap of the
\* 32-bit counter: that is what makes the signed comparison of Newer sound.
IsNext(g, h) == h = IF g = Wrap - 1 THEN 0 ELSE g + 1
GenerationsAdjacent ==
  Valid(0) /\ Valid(1) =>
    IsNext(Generation(0), Generation(1)) \/ IsNext(Generation(1), Generation(0))

\* The store implements one image that updates replace as a whole.
PreviousImage == IF Valid(0) /\ Valid(1) THEN Content(1 - Newest) ELSE None
Draft         == IF updateOpen THEN stagingImage ELSE None

Durable == INSTANCE DurableImage WITH
  image <- Logical, previous <- PreviousImage, draft <- Draft

\* Each Flash operation, failure and power loss is a step of DurableImage or
\* changes nothing a client can see.
ImplementsDurableImage == Durable!Spec

-----------------------------------------------------------------------------
(* The inductive invariant behind them. *)

\* What the slot being programmed holds at each point of commitImage.
TargetInv ==
  /\ pc # "idle" => updateOpen
  /\ pc \in {"idle", "erase", "header"} => nextWord = 1
  /\ pc \in {"header", "payload", "commit"} => ~slot[Target].commit
  /\ pc \in {"payload", "commit", "verify"} =>
       slot[Target].header = HeaderFor(NWords, NextGeneration, stagingImage)
  /\ pc = "payload" => \A w \in 1 .. nextWord - 1 : slot[Target].data[w] = stagingImage[w]
  /\ pc \in {"commit", "verify"} => slot[Target].data = stagingImage
  /\ pc = "verify" => /\ slot[Target].commit
                      /\ Newest = Target
  /\ pc = "verify" /\ stagedActiveSlot # -1 =>
       Valid(stagedActiveSlot) /\ Generation(stagedActiveSlot) = stagedGeneration

\* An update that staged nothing new equals the image.
CleanInv == updateOpen /\ ~updateDirty => pc = "idle" /\ stagingImage = Logical

\* A committed slot only loses words to an erase: it cannot become valid again.
ErasureInv ==
  \A s \in Slots : slot[s].commit /\ slot[s].header # NoHeader =>
    \A w \in 1 .. slot[s].header.size :
      slot[s].data[w] \in {slot[s].header.payloadCrc[w], Erased}

IInv == /\ TypeOK /\ ActiveSlotKept /\ GenerationsAdjacent
        /\ TargetInv /\ CleanInv /\ ErasureInv
=============================================================================
