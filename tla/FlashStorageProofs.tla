-------------------------- MODULE FlashStorageProofs --------------------------
(* Proofs about FlashStorage for images, sizes and generation counters of    *)
(* any width: the store keeps its active slot and implements DurableImage.   *)
EXTENDS FlashStorage, TLAPS

\* A header computed for an accepted size is a header.
LEMMA HeaderForType ==
  ASSUME NEW n \in Sizes, NEW g \in Generations, NEW img \in Images
  PROVE  HeaderFor(n, g, img) \in Header /\ HeaderFor(n, g, img) # NoHeader
<1>1. n \in Nat /\ 1 .. n \subseteq Words
  BY SizesAssumption DEF Words
<1>2. Crc(img, n) \in [1 .. n -> Data]
  BY <1>1 DEF Crc, Images
<1>3. HeaderFor(n, g, img) \in Header
  BY <1>2 DEF HeaderFor, Header
<1> QED
  BY <1>3, MarksAssumption

\* The generation an update writes is a generation.
LEMMA NextGenerationType == TypeOK => NextGeneration \in Generations
  BY WrapAssumption DEF TypeOK, NextGeneration, Generations

\* The slot an update writes is never the one it was copied from.
LEMMA TargetType == TypeOK => Target \in Slots /\ Target # stagedActiveSlot
  BY DEF TypeOK, Target, Slots

Cell == [header : Header \cup {NoHeader}, data : [Words -> Data \cup {Torn}], commit : BOOLEAN]

\* A valid slot carries a header and its content is an image.
LEMMA ValidCell ==
  ASSUME NEW c \in Cell, CellValid(c)
  PROVE  /\ c.header \in Header
         /\ c.header.generation \in Generations
         /\ CellContent(c) \in Images
<1>1. c.header \in Header
  BY DEF Cell, CellValid
<1>2. PICK n \in Sizes : c.header.payloadCrc \in [1 .. n -> Data]
  BY <1>1 DEF Header
<1>3. c.header.size \in Sizes /\ c.header.generation \in Generations
  BY <1>1 DEF Header
<1>4. c.header.size \in Nat /\ 1 .. c.header.size \subseteq Words
  BY <1>3, SizesAssumption DEF Words
<1>5. c.header.payloadCrc = [w \in 1 .. c.header.size |-> c.data[w]]
  BY DEF CellValid, Crc
<1>6. 1 .. n = 1 .. c.header.size
  BY <1>2, <1>5
<1>7. ASSUME NEW w \in Words, w <= c.header.size PROVE c.data[w] \in Data
  <2>1. w \in 1 .. c.header.size
    BY <1>4, <1>7 DEF Words
  <2>2. c.header.payloadCrc[w] = c.data[w]
    BY <2>1, <1>5
  <2> QED
    BY <2>1, <2>2, <1>2, <1>6
<1>8. \A w \in Words : (IF w <= c.header.size THEN c.data[w] ELSE Erased) \in Data
  BY <1>7 DEF Data
<1>9. CellContent(c) \in Images
  BY <1>8 DEF CellContent, Images
<1> QED
  BY <1>1, <1>3, <1>9

\* Consecutive generations compare as newer and not newer, in every wrap.
LEMMA NewerNext ==
  ASSUME NEW g \in Generations, NEW h \in Generations, IsNext(g, h)
  PROVE  Newer(h, g) /\ ~Newer(g, h)
<1>1. g \in Int /\ h \in Int /\ Wrap \in Int /\ 0 <= g /\ g <= Wrap - 1 /\ Wrap >= 3
  BY WrapAssumption DEF Generations
<1>2. CASE g = Wrap - 1
  <2>1. h = 0
    BY <1>2 DEF IsNext
  <2>2. Difference(h, g) = 1 /\ Difference(g, h) = Wrap - 1
    BY <1>1, <1>2, <2>1 DEF Difference
  <2> QED
    BY <1>1, <2>2 DEF Newer
<1>3. CASE g # Wrap - 1
  <2>1. h = g + 1
    BY <1>3 DEF IsNext
  <2>2. Difference(h, g) = 1 /\ Difference(g, h) = Wrap - 1
    BY <1>1, <2>1 DEF Difference
  <2> QED
    BY <1>1, <2>2 DEF Newer
<1> QED
  BY <1>2, <1>3

\* The newest slot is a valid one, if any.
LEMMA NewestCases ==
  /\ Newest \in {-1, 0, 1}
  /\ Newest = -1 <=> ~Valid(0) /\ ~Valid(1)
  /\ Newest = 0 => Valid(0)
  /\ Newest = 1 => Valid(1)
  /\ Valid(0) /\ ~Valid(1) => Newest = 0
  /\ Valid(1) /\ ~Valid(0) => Newest = 1
  BY DEF Newest

\* What reads return is an image.
LEMMA LogicalType == TypeOK => Logical \in Images
<1> SUFFICES ASSUME TypeOK PROVE Logical \in Images
  OBVIOUS
<1>1. slot[0] \in Cell /\ slot[1] \in Cell
  BY DEF TypeOK, Slots, Cell
<1>2. Blank \in Images
  BY DEF Blank, Images, Data
<1>3. Valid(0) => Content(0) \in Images
  BY <1>1, ValidCell DEF Valid, Content
<1>4. Valid(1) => Content(1) \in Images
  BY <1>1, ValidCell DEF Valid, Content
<1> QED
  BY <1>2, <1>3, <1>4, NewestCases DEF Logical

-----------------------------------------------------------------------------
(* Type correctness. *)

\* A blank device and one that carries an image are well typed.
LEMMA InitType == Init => TypeOK
<1> SUFFICES ASSUME Init PROVE TypeOK
  OBVIOUS
<1>1. BlankSlot \in Cell
  BY DEF BlankSlot, Cell, Blank, Data
<1>2. slot \in [Slots -> Cell]
  <2>1. CASE slot = [s \in Slots |-> BlankSlot]
    BY <1>1, <2>1
  <2>2. CASE \E n \in Sizes, g \in Generations, img \in Images :
               slot = [s \in Slots |->
                         IF s = 1 THEN BlankSlot
                         ELSE [header |-> HeaderFor(n, g, img), data |-> img, commit |-> TRUE]]
    <3>1. PICK n \in Sizes, g \in Generations, img \in Images :
               slot = [s \in Slots |->
                         IF s = 1 THEN BlankSlot
                         ELSE [header |-> HeaderFor(n, g, img), data |-> img, commit |-> TRUE]]
      BY <2>2
    <3>2. [header |-> HeaderFor(n, g, img), data |-> img, commit |-> TRUE] \in Cell
      BY HeaderForType DEF Cell, Images
    <3> QED
      BY <1>1, <3>1, <3>2
  <2> QED
    BY <2>1, <2>2 DEF Init
<1>3. Blank \in Images
  BY DEF Images, Blank, Data
<1>4. 0 \in Generations /\ 1 \in Words
  BY SizesAssumption, WrapAssumption DEF Generations, Words
<1> QED
  BY <1>2, <1>3, <1>4 DEF Init, TypeOK, Cell

\* No step leaves the types: no generation outside the counter's range, no
\* word beyond the image.
LEMMA TypeStep == TypeOK /\ [Next]_vars => TypeOK'
<1> SUFFICES ASSUME TypeOK, [Next]_vars PROVE TypeOK'
  OBVIOUS
<1> USE DEF Slots
<1>0. slot[0] \in Cell /\ slot[1] \in Cell /\ slot \in [Slots -> Cell]
  BY DEF TypeOK, Cell
<1>n. 1 \in Words /\ NWords \in Sizes /\ 0 \in Generations
  BY SizesAssumption, WrapAssumption DEF Words, Generations
<1>t. Target \in Slots
  BY TargetType
<1>w. \A ws, v : v \in Data =>
        [w \in Words |-> IF w \in ws THEN v ELSE stagingImage[w]] \in Images
  BY DEF TypeOK, Images
<1>b. BlankSlot \in Cell
  BY DEF BlankSlot, Cell, Blank, Data
<1>r. ASSUME NEW ok \in BOOLEAN, Return(ok), slot' \in [Slots -> Cell] PROVE TypeOK'
  BY <1>r, <1>n DEF Return, Cancelled, TypeOK, Cell
<1>1. CASE BeginUpdate
  <2>1. Newest # -1 => Generation(Newest) \in Generations
    BY <1>0, NewestCases, ValidCell DEF Valid, Generation
  <2> QED
    BY <1>1, <1>n, <2>1, LogicalType, NewestCases DEF BeginUpdate, TypeOK
<1>2. CASE CancelUpdate
  BY <1>2, <1>n DEF CancelUpdate, Cancelled, TypeOK
<1>3. ASSUME NEW ws \in SUBSET Words, NEW v \in Data, StageWords(ws, v) PROVE TypeOK'
  BY <1>3, <1>w DEF StageWords, TypeOK
<1>4. CASE CommitUnchanged
  BY <1>4, <1>r, <1>0 DEF CommitUnchanged
<1>5. CASE CommitChanged
  BY <1>5 DEF CommitChanged, TypeOK, stagedVars
<1>6. CASE ErasePart
  <2>1. PICK header \in {slot[Target].header, NoHeader},
             commit \in {slot[Target].commit, FALSE}, ws \in SUBSET Words :
          slot' = [slot EXCEPT ![Target] =
                  [header |-> header, commit |-> commit,
                   data |-> [w \in Words |-> IF w \in ws THEN Erased ELSE slot[Target].data[w]]]]
    BY <1>6 DEF ErasePart
  <2>2. [w \in Words |-> IF w \in ws THEN Erased ELSE slot[Target].data[w]]
          \in [Words -> Data \cup {Torn}]
    BY <1>0, <1>t DEF Cell, Data
  <2>3. slot' \in [Slots -> Cell]
    BY <1>0, <1>t, <2>1, <2>2 DEF Cell
  <2> QED
    BY <1>6, <2>3 DEF ErasePart, TypeOK, stagedVars, Cell
<1>7. CASE EraseDone
  <2>1. slot' \in [Slots -> Cell]
    BY <1>7, <1>0, <1>b, <1>t DEF EraseDone
  <2> QED
    BY <1>7, <2>1 DEF EraseDone, TypeOK, stagedVars, Cell
<1>8. CASE ProgramHeader
  <2>1. HeaderFor(NWords, NextGeneration, stagingImage) \in Header
    BY <1>n, NextGenerationType, HeaderForType DEF TypeOK
  <2>2. slot' \in [Slots -> Cell]
    BY <1>8, <1>0, <1>t, <2>1 DEF ProgramHeader, Cell
  <2> QED
    BY <1>8, <2>2 DEF ProgramHeader, TypeOK, stagedVars, Cell
<1>9. CASE ProgramWord
  <2>1. stagingImage[nextWord] \in Data
    BY DEF TypeOK, Images
  <2>2. slot' \in [Slots -> Cell]
    BY <1>9, <1>0, <1>t, <2>1 DEF ProgramWord, Cell
  <2>3. nextWord' \in Words
    BY <1>9, SizesAssumption DEF ProgramWord, TypeOK, Words
  <2> QED
    BY <1>9, <2>2, <2>3 DEF ProgramWord, TypeOK, stagedVars, Cell
<1>10. CASE TornWord
  <2>1. slot' \in [Slots -> Cell]
    BY <1>10, <1>0, <1>t DEF TornWord, Cell
  <2> QED
    BY <1>10, <1>r, <2>1 DEF TornWord
<1>11. CASE ProgramMarker
  <2>1. slot' \in [Slots -> Cell]
    BY <1>11, <1>0, <1>t DEF ProgramMarker, Cell
  <2> QED
    BY <1>11, <2>1 DEF ProgramMarker, TypeOK, stagedVars, Cell
<1>12. CASE Verify
  <2>1. (Valid(Target) /\ Generation(Target) = NextGeneration) \in BOOLEAN
    BY Zenon DEF Valid, CellValid
  <2> QED
    BY <1>12, <1>r, <1>0, <2>1 DEF Verify
<1>13. CASE OperationFails
  BY <1>13, <1>r, <1>0 DEF OperationFails
<1>14. CASE PowerLoss
  BY <1>14, <1>n DEF PowerLoss, Cancelled, TypeOK
<1>15. ASSUME NEW s \in Slots, Decay(s) PROVE TypeOK'
  <2>1. slot' \in [Slots -> Cell]
    BY <1>15, <1>0 DEF Decay, Cell
  <2> QED
    BY <1>15, <2>1 DEF Decay, TypeOK, stagedVars, Cell
<1>16. CASE UNCHANGED vars
  BY <1>16 DEF vars, stagedVars, TypeOK
<1> QED
  BY <1>1, <1>2, <1>3, <1>4, <1>5, <1>6, <1>7, <1>8, <1>9, <1>10, <1>11, <1>12,
     <1>13, <1>14, <1>15, <1>16 DEF Next

\* Every reachable state of the store is well typed: the generation counter
\* never leaves its range and no write leaves the image.
THEOREM TypeCorrect == Spec => []TypeOK
<1>1. Init => TypeOK
  BY InitType
<1>2. TypeOK /\ [Next]_vars => TypeOK'
  BY TypeStep
<1> QED
  BY <1>1, <1>2, PTL DEF Spec

-----------------------------------------------------------------------------
(* The effect of one changed slot on what clients see. *)

\* Only slot t changes.
OnlySlot(t) == slot'[1 - t] = slot[1 - t]

\* Slot t becomes invalid, or stays the same image of the same generation.
Fades(t) ==
  Valid(t)' => /\ Valid(t)
               /\ Content(t)' = Content(t)
               /\ Generation(t)' = Generation(t)

\* Erasing or spoiling the slot that is not the newest one changes nothing that
\* a client reads; at most the previous image is gone.
LEMMA FadeKeepsImage ==
  ASSUME NEW t \in Slots, Newest # t, OnlySlot(t), Fades(t)
  PROVE  /\ Newest' = Newest /\ Logical' = Logical
         /\ PreviousImage' \in {PreviousImage, None}
         /\ Valid(1 - t)' = Valid(1 - t)
         /\ Generation(1 - t)' = Generation(1 - t)
         /\ GenerationsAdjacent => GenerationsAdjacent'
<1>1. 1 - t \in {0, 1} /\ t \in {0, 1} /\ (t = 0 \/ t = 1)
  BY DEF Slots
<1>2. /\ Valid(1 - t)' = Valid(1 - t)
      /\ Generation(1 - t)' = Generation(1 - t)
      /\ Content(1 - t)' = Content(1 - t)
  BY DEF OnlySlot, Valid, Generation, Content
<1>3. CASE t = 0
  <2>1. /\ Valid(1)' = Valid(1) /\ Generation(1)' = Generation(1) /\ Content(1)' = Content(1)
    BY <1>2, <1>3
  <2>2. Valid(0)' => Valid(0) /\ Content(0)' = Content(0) /\ Generation(0)' = Generation(0)
    BY <1>3 DEF Fades
  <2>3. Newest' = Newest
    BY <1>3, <2>1, <2>2 DEF Newest
  <2>4. Newest \in {-1, 1}
    BY <1>3, NewestCases
  <2>5. Logical' = Logical
    BY <2>1, <2>3, <2>4 DEF Logical, Blank
  <2>6. PreviousImage' \in {PreviousImage, None}
    <3>1. CASE Valid(0)' /\ Valid(1)'
      <4>1. Newest = 1 /\ Newest' = 1
        BY <2>1, <2>2, <2>3, <2>4, <3>1, NewestCases
      <4>2. PreviousImage' = Content(0)'
        BY <3>1, <4>1 DEF PreviousImage, Content
      <4>3. PreviousImage = Content(0)
        BY <2>1, <2>2, <3>1, <4>1 DEF PreviousImage
      <4> QED
        BY <2>1, <2>2, <3>1, <4>2, <4>3
    <3>2. CASE ~(Valid(0)' /\ Valid(1)')
      BY <3>2 DEF PreviousImage
    <3> QED
      BY <3>1, <3>2
  <2>7. GenerationsAdjacent => GenerationsAdjacent'
    BY <2>1, <2>2 DEF GenerationsAdjacent, IsNext
  <2> QED
    BY <1>2, <2>3, <2>5, <2>6, <2>7
<1>4. CASE t = 1
  <2>1. /\ Valid(0)' = Valid(0) /\ Generation(0)' = Generation(0) /\ Content(0)' = Content(0)
    BY <1>2, <1>4
  <2>2. Valid(1)' => Valid(1) /\ Content(1)' = Content(1) /\ Generation(1)' = Generation(1)
    BY <1>4 DEF Fades
  <2>3. Newest' = Newest
    BY <1>4, <2>1, <2>2 DEF Newest
  <2>4. Newest \in {-1, 0}
    BY <1>4, NewestCases
  <2>5. Logical' = Logical
    BY <2>1, <2>3, <2>4 DEF Logical, Blank
  <2>6. PreviousImage' \in {PreviousImage, None}
    <3>1. CASE Valid(0)' /\ Valid(1)'
      <4>1. Newest = 0 /\ Newest' = 0
        BY <2>1, <2>2, <2>3, <2>4, <3>1, NewestCases
      <4>2. PreviousImage' = Content(1)'
        BY <3>1, <4>1 DEF PreviousImage, Content
      <4>3. PreviousImage = Content(1)
        BY <2>1, <2>2, <3>1, <4>1 DEF PreviousImage
      <4> QED
        BY <2>1, <2>2, <3>1, <4>2, <4>3
    <3>2. CASE ~(Valid(0)' /\ Valid(1)')
      BY <3>2 DEF PreviousImage
    <3> QED
      BY <3>1, <3>2
  <2>7. GenerationsAdjacent => GenerationsAdjacent'
    BY <2>1, <2>2 DEF GenerationsAdjacent, IsNext
  <2> QED
    BY <1>2, <2>3, <2>5, <2>6, <2>7
<1> QED
  BY <1>1, <1>3, <1>4

\* Damage to the newest slot uncovers the image it replaced.
LEMMA DamageUncoversPrevious ==
  ASSUME NEW t \in Slots, Newest = t, OnlySlot(t), ~Valid(t)'
  PROVE  /\ Logical' = (IF Valid(1 - t) THEN Content(1 - t) ELSE Blank)
         /\ PreviousImage = (IF Valid(1 - t) THEN Content(1 - t) ELSE None)
         /\ PreviousImage' = None
         /\ GenerationsAdjacent'
<1>2. /\ Valid(1 - t)' = Valid(1 - t)
      /\ Content(1 - t)' = Content(1 - t)
  BY DEF OnlySlot, Valid, Content
<1>3. Valid(t)
  BY NewestCases DEF Slots
<1>4. CASE t = 0
  <2>1. Newest' = IF Valid(1) THEN 1 ELSE -1
    BY <1>4, <1>2 DEF Newest
  <2>2. Logical' = IF Valid(1) THEN Content(1) ELSE Blank
    BY <1>4, <1>2, <2>1 DEF Logical, Blank
  <2> QED
    BY <1>2, <1>3, <1>4, <2>2 DEF PreviousImage, GenerationsAdjacent
<1>5. CASE t = 1
  <2>1. Newest' = IF Valid(0) THEN 0 ELSE -1
    BY <1>5, <1>2 DEF Newest
  <2>2. Logical' = IF Valid(0) THEN Content(0) ELSE Blank
    BY <1>5, <1>2, <2>1 DEF Logical, Blank
  <2> QED
    BY <1>2, <1>3, <1>5, <2>2 DEF PreviousImage, GenerationsAdjacent
<1> QED
  BY <1>4, <1>5 DEF Slots

\* A slot that becomes valid beside a valid slot of the preceding generation,
\* or beside an invalid one, is the newest, and its neighbour the previous.
LEMMA NewSlotWins ==
  ASSUME NEW t \in Slots, OnlySlot(t), TypeOK', Valid(t)',
         Valid(1 - t) => IsNext(Generation(1 - t), Generation(t)')
  PROVE  /\ Newest' = t
         /\ Logical' = Content(t)'
         /\ PreviousImage' = (IF Valid(1 - t) THEN Content(1 - t) ELSE None)
         /\ GenerationsAdjacent'
<1>1. /\ Valid(1 - t)' = Valid(1 - t)
      /\ Generation(1 - t)' = Generation(1 - t)
      /\ Content(1 - t)' = Content(1 - t)
  BY DEF OnlySlot, Valid, Generation, Content
<1>2. ASSUME NEW s \in Slots, Valid(s)' PROVE Generation(s)' \in Generations
  <2>1. slot'[s] \in Cell
    BY DEF TypeOK, Cell
  <2> QED
    BY <1>2, <2>1, ValidCell DEF Valid, Generation
<1>3. 1 - t \in Slots
  BY DEF Slots
<1>4. Valid(1 - t) => /\ Newer(Generation(t)', Generation(1 - t)')
                      /\ ~Newer(Generation(1 - t)', Generation(t)')
  BY <1>1, <1>2, <1>3, NewerNext
<1>5. CASE t = 0
  <2>1. Newest' = 0
    BY <1>1, <1>4, <1>5 DEF Newest
  <2> QED
    BY <1>1, <1>5, <2>1 DEF Logical, PreviousImage, GenerationsAdjacent, IsNext
<1>6. CASE t = 1
  <2>1. Newest' = 1
    BY <1>1, <1>4, <1>6 DEF Newest
  <2> QED
    BY <1>1, <1>6, <2>1 DEF Logical, PreviousImage, GenerationsAdjacent, IsNext
<1> QED
  BY <1>5, <1>6 DEF Slots

-----------------------------------------------------------------------------
(* The inductive invariant. *)

\* They satisfy the inductive invariant.
LEMMA InitIInv == Init => IInv
<1> SUFFICES ASSUME Init PROVE IInv
  OBVIOUS
<1>1. TypeOK
  BY InitType
<1>2. ~slot[1].commit /\ slot[1].header = NoHeader
  BY DEF Init, Slots, BlankSlot
<1>3. ErasureInv
  <2>1. CASE slot = [s \in Slots |-> BlankSlot]
    BY <2>1 DEF ErasureInv, BlankSlot
  <2>2. CASE \E n \in Sizes, g \in Generations, img \in Images :
               slot = [s \in Slots |->
                         IF s = 1 THEN BlankSlot
                         ELSE [header |-> HeaderFor(n, g, img), data |-> img, commit |-> TRUE]]
    <3>1. PICK n \in Sizes, g \in Generations, img \in Images :
               slot = [s \in Slots |->
                         IF s = 1 THEN BlankSlot
                         ELSE [header |-> HeaderFor(n, g, img), data |-> img, commit |-> TRUE]]
      BY <2>2
    <3>0. slot[0] = [header |-> HeaderFor(n, g, img), data |-> img, commit |-> TRUE]
      BY <3>1 DEF Slots
    <3>00. slot[0].data = img /\ slot[0].header = HeaderFor(n, g, img)
      BY <3>0
    <3>01. HeaderFor(n, g, img).size = n /\ HeaderFor(n, g, img).payloadCrc = Crc(img, n)
      BY DEF HeaderFor
    <3>2. /\ slot[0].data = img /\ slot[0].header.size = n
          /\ slot[0].header.payloadCrc = [w \in 1 .. n |-> img[w]]
      BY <3>00, <3>01 DEF Crc
    <3> QED
      BY <1>2, <3>2 DEF ErasureInv, Slots
  <2> QED
    BY <2>1, <2>2 DEF Init
<1>4. ~Valid(1)
  BY <1>2 DEF Valid, CellValid
<1> QED
  BY <1>1, <1>3, <1>4 DEF Init, IInv, ActiveSlotKept, GenerationsAdjacent, TargetInv, CleanInv

\* The erase and program steps before the marker touch only the slot that is
\* not in use, and leave it invalid or as it was.
LEMMA FlashStep ==
  ASSUME IInv, ErasePart \/ EraseDone \/ ProgramHeader \/ ProgramWord \/ TornWord
  PROVE  \E t \in Slots :
           /\ t = Target /\ Newest # t /\ OnlySlot(t) /\ Fades(t)
           /\ ErasureInv'
<1>t. PICK t \in Slots : t = Target
  BY TargetType DEF IInv
<1>1. t \in Slots /\ t # stagedActiveSlot /\ 1 - t \in Slots /\ 1 - t # t
  BY <1>t, TargetType DEF IInv, Slots
<1>2. Newest # t
  BY <1>t, <1>1 DEF IInv, ActiveSlotKept, TargetInv,
              ErasePart, EraseDone, ProgramHeader, ProgramWord, TornWord
<1>0. slot \in [Slots -> Cell] /\ slot[t] \in Cell
  BY <1>1 DEF IInv, TypeOK, Cell
<1>3. CASE ErasePart
  <2>0. PICK header \in {slot[Target].header, NoHeader},
             commit \in {slot[Target].commit, FALSE}, ws \in SUBSET Words :
          slot' = [slot EXCEPT ![Target] =
                  [header |-> header, commit |-> commit,
                   data |-> [w \in Words |-> IF w \in ws THEN Erased ELSE slot[Target].data[w]]]]
    BY <1>3 DEF ErasePart
  <2>1. /\ header \in {slot[t].header, NoHeader} /\ commit \in {slot[t].commit, FALSE}
        /\ slot' = [slot EXCEPT ![t] =
                  [header |-> header, commit |-> commit,
                   data |-> [w \in Words |-> IF w \in ws THEN Erased ELSE slot[t].data[w]]]]
    BY <1>t, <2>0
  <2>2. /\ slot'[1 - t] = slot[1 - t]
        /\ slot'[t].header = header /\ slot'[t].commit = commit
        /\ slot'[t].data = [w \in Words |-> IF w \in ws THEN Erased ELSE slot[t].data[w]]
    BY <1>0, <1>1, <2>1
  <2>3. CASE ~(commit /\ header # NoHeader)
    <3>1. ~Valid(t)'
      BY <2>2, <2>3 DEF Valid, CellValid
    <3>2. ErasureInv'
      BY <1>1, <2>2, <2>3 DEF ErasureInv, Slots, IInv
    <3> QED
      BY <1>t, <1>1, <1>2, <2>2, <3>1, <3>2 DEF OnlySlot, Fades
  <2>4. CASE commit /\ header # NoHeader
    <3>1. slot[t].commit /\ slot[t].header # NoHeader /\ header = slot[t].header
      BY <2>1, <2>4
    <3> DEFINE n == header.size
               crc == header.payloadCrc
    <3>0. header \in Header
      BY <1>0, <3>1 DEF Cell
    <3>00. n \in Sizes
      BY <3>0 DEF Header
    <3>2. n \in Nat /\ 1 .. n \subseteq Words
      <4> HIDE DEF n
      <4> QED
        BY <3>00, SizesAssumption DEF Words
    <3>3. \A w \in 1 .. n : slot[t].data[w] \in {crc[w], Erased}
      BY <1>1, <3>1 DEF IInv, ErasureInv
    <3>4. \A w \in 1 .. n : slot'[t].data[w] \in {crc[w], Erased}
      BY <2>2, <3>2, <3>3
    <3>5. ErasureInv'
      <4>1. ASSUME NEW s \in Slots, slot'[s].commit /\ slot'[s].header # NoHeader,
                   NEW w \in 1 .. slot'[s].header.size
            PROVE  slot'[s].data[w] \in {slot'[s].header.payloadCrc[w], Erased}
        <5>1. CASE s = t
          BY <2>2, <3>4, <4>1, <5>1
        <5>2. CASE s = 1 - t
          BY <1>1, <2>2, <4>1, <5>2 DEF IInv, ErasureInv
        <5> QED
          BY <1>1, <5>1, <5>2 DEF Slots
      <4> QED
        BY <4>1 DEF ErasureInv
    <3>6. ASSUME Valid(t)'
          PROVE  Valid(t) /\ Content(t)' = Content(t) /\ Generation(t)' = Generation(t)
      <4>1. crc = [w \in 1 .. n |-> slot'[t].data[w]]
        BY <2>2, <3>6 DEF Valid, CellValid, Crc
      <4>2. \A w \in 1 .. n : slot'[t].data[w] = slot[t].data[w]
        <5> TAKE w \in 1 .. n
        <5>1. slot'[t].data[w] = crc[w]
          BY <4>1
        <5>2. slot'[t].data[w] = IF w \in ws THEN Erased ELSE slot[t].data[w]
          BY <2>2, <3>2
        <5>3. slot[t].data[w] \in {crc[w], Erased}
          BY <3>3
        <5> QED
          BY <5>1, <5>2, <5>3
      <4>3. crc = [w \in 1 .. n |-> slot[t].data[w]]
        BY <4>1, <4>2
      <4>4. Valid(t)
        BY <3>1, <4>3 DEF Valid, CellValid, Crc
      <4>5. \A w \in Words : w <= n => w \in 1 .. n
        BY <3>2, SizesAssumption DEF Words
      <4>6. Content(t)' = Content(t)
        BY <2>2, <3>1, <4>2, <4>5 DEF Content, CellContent
      <4> QED
        BY <2>2, <3>1, <4>4, <4>6 DEF Generation
    <3> QED
      BY <1>t, <1>1, <1>2, <2>2, <3>5, <3>6 DEF OnlySlot, Fades
  <2> QED
    BY <2>3, <2>4
<1>4. CASE EraseDone \/ ProgramHeader \/ ProgramWord \/ TornWord
  <2>1. slot'[1 - t] = slot[1 - t] /\ ~slot'[t].commit
    <3>1. CASE EraseDone
      BY <1>t, <1>0, <1>1, <3>1 DEF EraseDone, BlankSlot
    <3>2. CASE ProgramHeader
      BY <1>t, <1>0, <1>1, <3>2 DEF ProgramHeader, IInv, TargetInv, Cell
    <3>3. CASE ProgramWord
      BY <1>t, <1>0, <1>1, <3>3 DEF ProgramWord, IInv, TargetInv, Cell
    <3>4. CASE TornWord
      BY <1>t, <1>0, <1>1, <3>4 DEF TornWord, IInv, TargetInv, Cell
    <3> QED
      BY <1>4, <3>1, <3>2, <3>3, <3>4
  <2>2. ~Valid(t)'
    BY <2>1 DEF Valid, CellValid
  <2>3. ErasureInv'
    BY <1>1, <2>1 DEF ErasureInv, Slots, IInv
  <2> QED
    BY <1>t, <1>1, <1>2, <2>1, <2>2, <2>3 DEF OnlySlot, Fades
<1> QED
  BY <1>3, <1>4

\* With the slots unchanged a client sees what it saw.
LEMMA SlotsUnchanged ==
  ASSUME slot' = slot
  PROVE  /\ Newest' = Newest /\ Logical' = Logical /\ PreviousImage' = PreviousImage
         /\ GenerationsAdjacent => GenerationsAdjacent'
         /\ ErasureInv => ErasureInv'
         /\ \A s \in Slots : Valid(s)' = Valid(s) /\ Generation(s)' = Generation(s)
BY DEF Newest, Logical, PreviousImage, GenerationsAdjacent, ErasureInv, Valid, Generation,
       Content, Blank, IsNext

\* Once the update is closed only the slots matter.
LEMMA Closed ==
  ASSUME TypeOK', GenerationsAdjacent', ErasureInv', pc' = "idle", nextWord' = 1, updateOpen' = FALSE
  PROVE  IInv'
BY DEF IInv, ActiveSlotKept, TargetInv, CleanInv

\* The instant the commit marker is programmed the draft is the image, and the
\* image it replaces, if any, is the previous one.
LEMMA MarkerStep ==
  ASSUME IInv, TypeOK', ProgramMarker
  PROVE  \E t \in Slots :
           /\ t = Target /\ Newest' = t /\ Valid(t)'
           /\ slot'[1 - t] = slot[1 - t]
           /\ slot'[t] = [slot[t] EXCEPT !.commit = TRUE]
           /\ Logical' = stagingImage
           /\ PreviousImage' \in {Logical, None}
           /\ GenerationsAdjacent' /\ ErasureInv'
<1>t. PICK t \in Slots : t = Target
  BY TargetType DEF IInv
<1>0. slot \in [Slots -> Cell] /\ slot[t] \in Cell
  BY DEF IInv, TypeOK, Cell
<1>1. 1 - t \in Slots /\ 1 - t # t
  BY DEF Slots
<1>2. slot'[1 - t] = slot[1 - t] /\ slot'[t] = [slot[t] EXCEPT !.commit = TRUE]
  BY <1>t, <1>0, <1>1 DEF ProgramMarker
<1>3. /\ slot[t].header = HeaderFor(NWords, NextGeneration, stagingImage)
      /\ slot[t].data = stagingImage
  BY <1>t DEF ProgramMarker, IInv, TargetInv
<1>4. /\ slot'[t].commit
      /\ slot'[t].header = HeaderFor(NWords, NextGeneration, stagingImage)
      /\ slot'[t].data = stagingImage
  BY <1>0, <1>2, <1>3 DEF Cell
<1>5. stagingImage \in Images /\ NWords \in Sizes /\ NextGeneration \in Generations
  BY SizesAssumption, NextGenerationType DEF IInv, TypeOK
<1>6. HeaderFor(NWords, NextGeneration, stagingImage) # NoHeader
  BY <1>5, HeaderForType
<1>7. /\ HeaderFor(NWords, NextGeneration, stagingImage).size = NWords
      /\ HeaderFor(NWords, NextGeneration, stagingImage).generation = NextGeneration
      /\ HeaderFor(NWords, NextGeneration, stagingImage).payloadCrc = Crc(stagingImage, NWords)
  BY DEF HeaderFor
<1>8. Valid(t)' /\ Generation(t)' = NextGeneration
  BY <1>4, <1>6, <1>7 DEF Valid, CellValid, Generation
<1>9. Content(t)' = stagingImage
  <2>1. CellContent(slot'[t]) = [w \in Words |-> IF w <= NWords THEN stagingImage[w] ELSE Erased]
    BY <1>4, <1>7 DEF CellContent
  <2>2. \A w \in Words : w <= NWords
    BY SizesAssumption DEF Words
  <2>3. stagingImage = [w \in Words |-> stagingImage[w]]
    BY <1>5 DEF Images
  <2> QED
    BY <2>1, <2>2, <2>3 DEF Content
<1>10. /\ Newest = stagedActiveSlot
       /\ stagedActiveSlot # -1 => Generation(stagedActiveSlot) = stagedGeneration
  BY DEF ProgramMarker, IInv, ActiveSlotKept, TargetInv
<1>11. ~Valid(t)
  BY <1>t DEF ProgramMarker, IInv, TargetInv, Valid, CellValid
<1>12. Valid(1 - t) <=> stagedActiveSlot = 1 - t
  BY <1>t, <1>1, <1>10, <1>11, NewestCases DEF Slots
<1>13. Valid(1 - t) => Content(1 - t) = Logical
  BY <1>1, <1>10, <1>12 DEF Logical, Slots
<1>14. Valid(1 - t) => IsNext(Generation(1 - t), Generation(t)')
  BY <1>1, <1>8, <1>10, <1>12 DEF IsNext, NextGeneration, Slots
<1>15. OnlySlot(t)
  BY <1>2 DEF OnlySlot
<1>16. /\ Newest' = t /\ Logical' = Content(t)' /\ GenerationsAdjacent'
       /\ PreviousImage' = (IF Valid(1 - t) THEN Content(1 - t) ELSE None)
  BY <1>8, <1>14, <1>15, NewSlotWins
<1>17. ErasureInv'
  <2>1. \A w \in 1 .. NWords : Crc(stagingImage, NWords)[w] = stagingImage[w]
    BY DEF Crc
  <2>2. \A w \in 1 .. slot'[t].header.size : slot'[t].data[w] = slot'[t].header.payloadCrc[w]
    BY <1>4, <1>7, <2>1
  <2>3. \A s \in Slots : s = t \/ slot'[s] = slot[s]
    BY <1>1, <1>2 DEF Slots
  <2> QED
    BY <2>2, <2>3 DEF ErasureInv, IInv
<1> QED
  BY <1>t, <1>2, <1>8, <1>9, <1>13, <1>16, <1>17

\* The slot an update was copied from outlives the steps before the marker.
LEMMA ActiveSlotStep ==
  ASSUME IInv, ErasePart \/ EraseDone \/ ProgramHeader \/ ProgramWord
  PROVE  ActiveSlotKept' /\ GenerationsAdjacent' /\ ErasureInv' /\ CleanInv'
<1>1. PICK t \in Slots : t = Target /\ Newest # t /\ OnlySlot(t) /\ Fades(t) /\ ErasureInv'
  BY FlashStep
<1>2. /\ Newest' = Newest
      /\ Generation(1 - t)' = Generation(1 - t)
      /\ GenerationsAdjacent'
  BY <1>1, FadeKeepsImage DEF IInv
<1>3. /\ stagedActiveSlot' = stagedActiveSlot /\ stagedGeneration' = stagedGeneration
      /\ updateOpen' = updateOpen /\ updateDirty' = updateDirty
      /\ pc # "verify" /\ pc # "idle"
  BY DEF ErasePart, EraseDone, ProgramHeader, ProgramWord, stagedVars
<1>4. /\ updateOpen /\ updateDirty
      /\ Newest = stagedActiveSlot
      /\ stagedActiveSlot # -1 => Generation(stagedActiveSlot) = stagedGeneration
  BY <1>3 DEF IInv, ActiveSlotKept, TargetInv, CleanInv
<1>5. stagedActiveSlot # -1 => stagedActiveSlot = 1 - t
  BY <1>1 DEF Target, Slots, IInv, TypeOK
<1>6. stagedActiveSlot # -1 => Generation(stagedActiveSlot)' = stagedGeneration
  BY <1>2, <1>3, <1>4, <1>5 DEF Generation
<1>7. ActiveSlotKept'
  BY <1>2, <1>3, <1>4, <1>6 DEF ActiveSlotKept, Generation
<1>8. CleanInv'
  BY <1>3, <1>4 DEF CleanInv
<1> QED
  BY <1>1, <1>2, <1>7, <1>8

\* What commitImage has erased and programmed so far.
LEMMA TargetStep ==
  ASSUME IInv, ErasePart \/ EraseDone \/ ProgramHeader \/ ProgramWord
  PROVE  TargetInv'
<1>t. PICK t \in Slots : t = Target
  BY TargetType DEF IInv
<1>0. slot \in [Slots -> Cell] /\ slot[t] \in Cell
  BY DEF IInv, TypeOK, Cell
<1>1. updateOpen
  BY DEF ErasePart, EraseDone, ProgramHeader, ProgramWord, IInv, TargetInv
<1>2. CASE ErasePart
  BY <1>1, <1>2 DEF ErasePart, stagedVars, TargetInv, IInv
<1>3. CASE EraseDone
  <2>1. /\ slot'[t] = BlankSlot /\ Target' = t
        /\ updateOpen' /\ pc' = "header" /\ nextWord' = 1
    BY <1>0, <1>1, <1>3, <1>t DEF EraseDone, stagedVars, Target, IInv, TargetInv
  <2> QED
    BY <2>1 DEF TargetInv, BlankSlot
<1>4. CASE ProgramHeader
  <2>1. /\ slot'[t].header = HeaderFor(NWords, NextGeneration, stagingImage)
        /\ slot'[t].commit = slot[t].commit
    BY <1>0, <1>4, <1>t DEF ProgramHeader, Cell
  <2>2. /\ Target' = t /\ updateOpen' /\ pc' = "payload" /\ nextWord' = nextWord
        /\ stagingImage' = stagingImage /\ NextGeneration' = NextGeneration
    BY <1>1, <1>4, <1>t DEF ProgramHeader, stagedVars, Target, NextGeneration
  <2>3. nextWord = 1 /\ ~slot[t].commit
    BY <1>4, <1>t DEF ProgramHeader, IInv, TargetInv
  <2> QED
    BY <2>1, <2>2, <2>3 DEF TargetInv, HeaderFor, Crc
<1>5. CASE ProgramWord
  <2>1. /\ slot'[t].header = slot[t].header /\ slot'[t].commit = slot[t].commit
        /\ slot'[t].data = [slot[t].data EXCEPT ![nextWord] = stagingImage[nextWord]]
    BY <1>0, <1>5, <1>t DEF ProgramWord, Cell
  <2>2. /\ Target' = t /\ updateOpen'
        /\ stagingImage' = stagingImage /\ NextGeneration' = NextGeneration
        /\ pc' = (IF nextWord = NWords THEN "commit" ELSE "payload")
        /\ nextWord' = (IF nextWord = NWords THEN nextWord ELSE nextWord + 1)
    BY <1>1, <1>5, <1>t DEF ProgramWord, stagedVars, Target, NextGeneration
  <2>3. /\ ~slot[t].commit
        /\ slot[t].header = HeaderFor(NWords, NextGeneration, stagingImage)
        /\ \A w \in 1 .. nextWord - 1 : slot[t].data[w] = stagingImage[w]
        /\ nextWord \in Words
    BY <1>5, <1>t DEF ProgramWord, IInv, TargetInv, TypeOK
  <2>4. HeaderFor(NWords, NextGeneration, stagingImage)' = HeaderFor(NWords, NextGeneration, stagingImage)
    BY <2>2 DEF HeaderFor, Crc
  <2>5. slot[t].data \in [Words -> Data \cup {Torn}] /\ stagingImage \in [Words -> Data]
    BY <1>0 DEF Cell, IInv, TypeOK, Images
  <2>6. \A w \in 1 .. nextWord : slot'[t].data[w] = stagingImage[w]
    <3> TAKE w \in 1 .. nextWord
    <3>1. w \in Words /\ (w = nextWord \/ w \in 1 .. nextWord - 1)
      BY <2>3, SizesAssumption DEF Words
    <3> QED
      BY <2>1, <2>3, <2>5, <3>1
  <2>7. CASE nextWord = NWords
    <3>1. \A w \in Words : slot'[t].data[w] = stagingImage[w]
      BY <2>6, <2>7 DEF Words
    <3>2. slot'[t].data \in [Words -> Data \cup {Torn}]
      BY <2>1, <2>3, <2>5
    <3>3. slot'[t].data = stagingImage
      BY <2>5, <3>1, <3>2
    <3> QED
      BY <2>1, <2>2, <2>3, <2>4, <2>7, <3>3 DEF TargetInv
  <2>8. CASE nextWord # NWords
    <3>1. 1 .. nextWord' - 1 = 1 .. nextWord
      BY <2>2, <2>3, <2>8 DEF Words
    <3> QED
      BY <2>1, <2>2, <2>3, <2>4, <2>6, <2>8, <3>1 DEF TargetInv
  <2> QED
    BY <2>7, <2>8
<1> QED
  BY <1>2, <1>3, <1>4, <1>5

\* Every step keeps the inductive invariant.
LEMMA StepIInv == IInv /\ [Next]_vars => IInv'
<1> SUFFICES ASSUME IInv, [Next]_vars PROVE IInv'
  OBVIOUS
<1>0. TypeOK'
  BY TypeStep DEF IInv
<1>1. CASE BeginUpdate
  BY <1>0, <1>1, SlotsUnchanged, NewestCases
     DEF BeginUpdate, IInv, ActiveSlotKept, TargetInv, CleanInv, Generation
<1>2. CASE CancelUpdate \/ CommitUnchanged \/ Verify \/ OperationFails \/ PowerLoss
  <2>1. slot' = slot /\ pc' = "idle" /\ nextWord' = 1 /\ updateOpen' = FALSE
    BY <1>2 DEF IInv, TargetInv, CancelUpdate, CommitUnchanged, Verify, OperationFails, PowerLoss,
                Return, Cancelled
  <2> QED
    BY <1>0, <2>1, SlotsUnchanged, Closed DEF IInv
<1>3. ASSUME NEW ws \in SUBSET Words, NEW v \in Data, StageWords(ws, v) PROVE IInv'
  BY <1>0, <1>3, SlotsUnchanged
     DEF StageWords, IInv, ActiveSlotKept, TargetInv, CleanInv, Generation
<1>4. CASE CommitChanged
  BY <1>0, <1>4, SlotsUnchanged
     DEF CommitChanged, stagedVars, IInv, ActiveSlotKept, TargetInv, CleanInv, Generation
<1>5. CASE ErasePart \/ EraseDone \/ ProgramHeader \/ ProgramWord
  BY <1>0, <1>5, ActiveSlotStep, TargetStep DEF IInv
<1>6. CASE TornWord
  <2>1. PICK t \in Slots : Newest # t /\ OnlySlot(t) /\ Fades(t) /\ ErasureInv'
    BY <1>6, FlashStep
  <2>2. GenerationsAdjacent'
    BY <2>1, FadeKeepsImage DEF IInv
  <2> QED
    BY <1>0, <1>6, <2>1, <2>2, Closed DEF TornWord, Return, Cancelled
<1>7. CASE ProgramMarker
  <2>1. PICK t \in Slots :
           /\ t = Target /\ Newest' = t /\ Valid(t)'
           /\ slot'[1 - t] = slot[1 - t]
           /\ slot'[t] = [slot[t] EXCEPT !.commit = TRUE]
           /\ GenerationsAdjacent' /\ ErasureInv'
    BY <1>0, <1>7, MarkerStep
  <2>2. /\ Target' = t /\ updateOpen' /\ pc' = "verify" /\ updateDirty'
        /\ stagingImage' = stagingImage /\ NextGeneration' = NextGeneration
        /\ stagedActiveSlot' = stagedActiveSlot /\ stagedGeneration' = stagedGeneration
    BY <1>7, <2>1 DEF ProgramMarker, stagedVars, Target, NextGeneration, IInv, TargetInv, CleanInv
  <2>3. /\ slot[t].header = HeaderFor(NWords, NextGeneration, stagingImage)
        /\ slot[t].data = stagingImage /\ slot[t] \in Cell
    BY <1>7, <2>1 DEF ProgramMarker, IInv, TargetInv, TypeOK, Cell
  <2>4. /\ slot'[t].header = slot[t].header /\ slot'[t].data = slot[t].data /\ slot'[t].commit
    BY <2>1, <2>3 DEF Cell
  <2>5. stagedActiveSlot # -1 => Valid(stagedActiveSlot)' /\ Generation(stagedActiveSlot)' = stagedGeneration
    <3>1. SUFFICES ASSUME stagedActiveSlot # -1
                   PROVE  Valid(stagedActiveSlot)' /\ Generation(stagedActiveSlot)' = stagedGeneration
      OBVIOUS
    <3>2. stagedActiveSlot = 1 - t
      BY <2>1, <3>1 DEF Target, Slots, IInv, TypeOK
    <3>3. Valid(stagedActiveSlot) /\ Generation(stagedActiveSlot) = stagedGeneration
      BY <1>7, <3>1, NewestCases DEF ProgramMarker, IInv, ActiveSlotKept, TargetInv, TypeOK
    <3> QED
      BY <2>1, <2>2, <3>2, <3>3 DEF Valid, Generation
  <2>6. HeaderFor(NWords, NextGeneration, stagingImage)' = HeaderFor(NWords, NextGeneration, stagingImage)
    BY <2>2 DEF HeaderFor, Crc
  <2>7. TargetInv'
    BY <2>1, <2>2, <2>3, <2>4, <2>5, <2>6 DEF TargetInv
  <2> QED
    BY <1>0, <2>1, <2>2, <2>7 DEF IInv, ActiveSlotKept, CleanInv
<1>8. ASSUME NEW s \in Slots, Decay(s) PROVE IInv'
  <2>1. slot \in [Slots -> Cell] /\ 1 - s \in Slots /\ 1 - s # s
    BY DEF IInv, TypeOK, Cell, Slots
  <2>2. slot'[1 - s] = slot[1 - s] /\ slot'[s].header = NoHeader
    BY <1>8, <2>1 DEF Decay, Cell
  <2>3. OnlySlot(s) /\ ~Valid(s)' /\ Fades(s)
    BY <2>2 DEF OnlySlot, Valid, CellValid, Fades
  <2>4. GenerationsAdjacent'
    BY <2>3, FadeKeepsImage, DamageUncoversPrevious DEF IInv
  <2>5. \A r \in Slots : r = s \/ r = 1 - s
    BY DEF Slots
  <2>6. ErasureInv'
    BY <2>2, <2>5 DEF ErasureInv, IInv
  <2>7. pc' = "idle" /\ nextWord' = 1 /\ updateOpen' = FALSE
    BY <1>8 DEF Decay, stagedVars, IInv, TargetInv, TypeOK
  <2> QED
    BY <1>0, <2>4, <2>6, <2>7, Closed
<1>9. CASE UNCHANGED vars
  <2>1. UNCHANGED <<slot, stagedVars, pc, nextWord>>
    BY <1>9 DEF vars
  <2>2. ActiveSlotKept'
    BY <2>1, SlotsUnchanged DEF stagedVars, IInv, ActiveSlotKept, Generation
  <2>3. CleanInv'
    BY <2>1, SlotsUnchanged DEF stagedVars, IInv, CleanInv
  <2>4. TargetInv'
    BY <2>1 DEF stagedVars, IInv, TargetInv, Target, NextGeneration, HeaderFor, Crc,
                Valid, CellValid, Generation, Newest
  <2>5. GenerationsAdjacent' /\ ErasureInv'
    BY <2>1, SlotsUnchanged DEF IInv
  <2> QED
    BY <1>0, <2>2, <2>3, <2>4, <2>5 DEF IInv
<1> QED
  BY <1>1, <1>2, <1>3, <1>4, <1>5, <1>6, <1>7, <1>8, <1>9 DEF Next

\* In every reachable state the invariant holds: what has been erased and
\* programmed never touches the image in use, up to the commit marker.
THEOREM Invariance == Spec => []IInv
<1>1. Init => IInv
  BY InitIInv
<1>2. IInv /\ [Next]_vars => IInv'
  BY StepIInv
<1> QED
  BY <1>1, <1>2, PTL DEF Spec

\* The slot an update is copied from survives until the update's own commit
\* marker is programmed, whatever fails and whenever power is lost.
THEOREM ActiveSlotAlwaysKept == Spec => []ActiveSlotKept
<1>1. IInv => ActiveSlotKept
  BY DEF IInv
<1> QED
  BY <1>1, Invariance, PTL

\* Two valid slots always hold consecutive generations, for every counter of at
\* least three values, so the newest one is found across the wrap.
THEOREM GenerationsAlwaysAdjacent == Spec => []GenerationsAdjacent
<1>1. IInv => GenerationsAdjacent
  BY DEF IInv
<1> QED
  BY <1>1, Invariance, PTL

-----------------------------------------------------------------------------
(* The store implements one image that updates replace as a whole.           *)

\* Every initial device is an initial image of DurableImage.
LEMMA InitRefines == Init => Durable!Init
<1> SUFFICES ASSUME Init PROVE Durable!Init
  OBVIOUS
<1>1. Logical \in Images
  BY InitType, LogicalType
<1>2. ~Valid(1)
  BY DEF Init, Slots, BlankSlot, Valid, CellValid
<1> QED
  BY <1>1, <1>2 DEF Durable!Init, PreviousImage, Draft, Init, Images

\* Every Flash operation, failure and power loss is a step of DurableImage or a
\* stutter.
LEMMA StepRefines == IInv /\ [Next]_vars => [Durable!Next]_(Durable!vars)
<1> SUFFICES ASSUME IInv, [Next]_vars PROVE Durable!Next \/ UNCHANGED Durable!vars
  OBVIOUS
<1>0. TypeOK' /\ stagingImage \in Images /\ stagingImage # None
  BY TypeStep, MarksAssumption DEF IInv, TypeOK
<1>d. updateOpen => Draft = stagingImage /\ Draft # None
  BY <1>0 DEF Draft
<1>1. CASE BeginUpdate
  <2>1. Durable!Begin
    BY <1>1, SlotsUnchanged DEF BeginUpdate, Durable!Begin, Draft
  <2> QED
    BY <2>1 DEF Durable!Next
<1>2. CASE CancelUpdate \/ PowerLoss
  <2>1. slot' = slot /\ updateOpen' = FALSE /\ answer' = "none"
    BY <1>2 DEF CancelUpdate, PowerLoss, Cancelled
  <2>2. Durable!Drop
    BY <2>1, SlotsUnchanged DEF Durable!Drop, Draft
  <2> QED
    BY <2>2 DEF Durable!Next
<1>3. ASSUME NEW ws \in SUBSET Words, NEW v \in Data, StageWords(ws, v)
      PROVE  Durable!Next
  <2>1. Durable!Stage(ws, v)
    BY <1>3, <1>d, SlotsUnchanged DEF StageWords, Durable!Stage, Draft
  <2> QED
    BY <2>1 DEF Durable!Next
<1>r. ASSUME NEW ok \in BOOLEAN, Return(ok), updateOpen, ok => stagingImage = Logical,
             Logical' = Logical, PreviousImage' = PreviousImage
      PROVE  Durable!Next
  <2>1. Durable!Answer(ok)
    BY <1>d, <1>r DEF Return, Cancelled, Durable!Answer, Draft
  <2> QED
    BY <2>1 DEF Durable!Next
<1>4. CASE CommitUnchanged
  <2>1. updateOpen /\ stagingImage = Logical
    BY <1>4 DEF CommitUnchanged, IInv, CleanInv
  <2> QED
    BY <1>4, <1>r, <2>1, SlotsUnchanged DEF CommitUnchanged
<1>5. CASE CommitChanged
  BY <1>5, SlotsUnchanged DEF CommitChanged, stagedVars, Durable!vars, Draft
<1>6. CASE ErasePart \/ EraseDone \/ ProgramHeader \/ ProgramWord
  <2>1. PICK t \in Slots : Newest # t /\ OnlySlot(t) /\ Fades(t)
    BY <1>6, FlashStep
  <2>2. Logical' = Logical /\ PreviousImage' \in {PreviousImage, None}
    BY <2>1, FadeKeepsImage
  <2>3. Draft' = Draft /\ answer' = answer
    BY <1>6 DEF ErasePart, EraseDone, ProgramHeader, ProgramWord, stagedVars, Draft
  <2>4. CASE PreviousImage' = PreviousImage
    BY <2>2, <2>3, <2>4 DEF Durable!vars
  <2>5. CASE PreviousImage' = None
    BY <2>2, <2>3, <2>5 DEF Durable!Next, Durable!ForgetPrevious
  <2> QED
    BY <2>2, <2>4, <2>5
<1>7. CASE TornWord
  <2>1. PICK t \in Slots : t = Target /\ Newest # t /\ OnlySlot(t) /\ Fades(t)
    BY <1>7, FlashStep
  <2>2. Logical' = Logical /\ PreviousImage' \in {PreviousImage, None}
    BY <2>1, FadeKeepsImage
  <2>3. ~Valid(t)
    BY <1>7, <2>1 DEF TornWord, IInv, TargetInv, Valid, CellValid
  <2>4. PreviousImage = None
    BY <2>3 DEF PreviousImage, Slots
  <2>5. updateOpen
    BY <1>7 DEF TornWord, IInv, TargetInv
  <2> QED
    BY <1>7, <1>r, <2>2, <2>4, <2>5 DEF TornWord
<1>8. CASE ProgramMarker
  <2>1. Logical' = stagingImage /\ PreviousImage' \in {Logical, None}
    BY <1>0, <1>8, MarkerStep
  <2>2. updateOpen /\ Draft' = Draft /\ answer' = answer
    BY <1>8 DEF ProgramMarker, stagedVars, Draft, IInv, TargetInv
  <2> QED
    BY <1>d, <2>1, <2>2 DEF Durable!Next, Durable!Install
<1>9. CASE OperationFails
  <2>1. updateOpen
    BY <1>9 DEF OperationFails, IInv, TargetInv
  <2> QED
    BY <1>9, <1>r, <2>1, SlotsUnchanged DEF OperationFails
<1>10. CASE Verify
  <2>1. PICK t \in Slots : t = Target
    BY TargetType DEF IInv
  <2>2. /\ updateOpen /\ Newest = t /\ slot[t].data = stagingImage
        /\ slot[t].header = HeaderFor(NWords, NextGeneration, stagingImage)
    BY <1>10, <2>1 DEF Verify, IInv, TargetInv
  <2>3. slot[t].header.size = NWords
    BY <2>2 DEF HeaderFor
  <2>4. \A w \in Words : w <= NWords
    BY SizesAssumption DEF Words
  <2>5. stagingImage = [w \in Words |-> stagingImage[w]]
    BY <1>0 DEF Images
  <2>6. Logical = stagingImage
    BY <2>2, <2>3, <2>4, <2>5 DEF Logical, Content, CellContent, Slots
  <2>7. (Valid(Target) /\ Generation(Target) = NextGeneration) \in BOOLEAN
    BY Zenon DEF Valid, CellValid
  <2> QED
    BY <1>10, <1>r, <2>2, <2>6, <2>7, SlotsUnchanged DEF Verify
<1>11. ASSUME NEW s \in Slots, Decay(s) PROVE Durable!Next
  <2>1. slot \in [Slots -> Cell] /\ 1 - s \in Slots /\ 1 - s # s
    BY DEF IInv, TypeOK, Cell, Slots
  <2>2. slot'[1 - s] = slot[1 - s] /\ slot'[s].header = NoHeader
    BY <1>11, <2>1 DEF Decay, Cell
  <2>3. OnlySlot(s) /\ ~Valid(s)' /\ Fades(s)
    BY <2>2 DEF OnlySlot, Valid, CellValid, Fades
  <2>4. Draft = None /\ Draft' = Draft /\ answer' = answer
    BY <1>11 DEF Decay, stagedVars, Draft
  <2>5. CASE Newest = s
    <3>1. /\ Logical' = (IF Valid(1 - s) THEN Content(1 - s) ELSE Blank)
          /\ PreviousImage = (IF Valid(1 - s) THEN Content(1 - s) ELSE None)
          /\ PreviousImage' = None
      BY <2>3, <2>5, DamageUncoversPrevious
    <3>2. Valid(1 - s) => Content(1 - s) \in Images
      BY <2>1, ValidCell DEF Valid, Content
    <3>3. Logical' = IF PreviousImage = None THEN Durable!Blank ELSE PreviousImage
      BY <3>1, <3>2, MarksAssumption DEF Blank, Durable!Blank
    <3> QED
      BY <2>4, <3>1, <3>3 DEF Durable!Next, Durable!Decay
  <2>6. CASE Newest # s
    <3>1. Logical' = Logical
      BY <2>3, <2>6, FadeKeepsImage
    <3>2. PreviousImage' = None
      BY <2>3 DEF PreviousImage, Slots
    <3> QED
      BY <2>4, <3>1, <3>2 DEF Durable!Next, Durable!ForgetPrevious
  <2> QED
    BY <2>5, <2>6
<1>12. CASE UNCHANGED vars
  BY <1>12, SlotsUnchanged DEF vars, stagedVars, Durable!vars, Draft
<1> QED
  BY <1>1, <1>2, <1>3, <1>4, <1>5, <1>6, <1>7, <1>8, <1>9, <1>10, <1>11, <1>12 DEF Next

\* The A/B store implements DurableImage for every image, set of payload sizes
\* and counter width: updates are atomic under power loss at any point, a
\* failing Flash operation and a damaged slot, and `true' means durable.
THEOREM Refinement == Spec => ImplementsDurableImage
<1>1. Init => Durable!Init
  BY InitRefines
<1>2. IInv /\ [Next]_vars => [Durable!Next]_(Durable!vars)
  BY StepRefines
<1> QED
  BY <1>1, <1>2, Invariance, PTL DEF Spec, ImplementsDurableImage, Durable!Spec
=============================================================================
