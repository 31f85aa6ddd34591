---------------------------- MODULE ExpressionList ----------------------------
(***************************************************************************)
(* How the expression of sequencer steps is kept                           *)
(* (services/sequencer_step_store, domain/sequencer_step_metadata): an     *)
(* unordered list with room for a fraction of all steps, each row a packed *)
(* key and a packed word, written to Flash as it is.  SequencerStores sees *)
(* the list as a set per pattern and has its deadlines and commits.        *)
(***************************************************************************)
EXTENDS Integers, SequencesExt, FiniteSets

CONSTANTS
  Patterns,       \* pairs of a channel and a slot
  Steps,
  Metadata,       \* the expressions a step is given
  MaxOverrides    \* rows in the list

VARIABLES
  list,    \* keys_ and words_ up to count_
  image,   \* the store's region of Flash
  meant,   \* the expression the user gave each step
  kept     \* what of it was flushed last

vars == <<list, image, meant, kept>>

Positions == {<<p[1], p[2], n>> : p \in Patterns, n \in Steps}

-----------------------------------------------------------------------------
(* Sixteen bits: seven of probability, four of gate profile, three of         *)
(* ratchets less one, the tie and a reserved bit.                             *)

Default == [probability |-> 0, gate |-> 0, ratchet |-> 1, tie |-> FALSE]
IsValid(m) == m.probability <= 100 /\ m.gate \in 0..10 /\ m.ratchet \in 1..8

Pack(m) ==
  IF ~IsValid(m) THEN 0
  ELSE m.probability + 128 * m.gate + 2048 * (m.ratchet - 1) + (IF m.tie THEN 16384 ELSE 0)

Unpack(word) ==
  LET m == [probability |-> word % 128, gate |-> (word \div 128) % 16,
            ratchet |-> ((word \div 2048) % 8) + 1, tie |-> (word \div 16384) % 2 = 1]
  IN  IF word \div 32768 = 1 \/ ~IsValid(m) THEN Default ELSE m

Key(at) == at[3] + 128 * at[1] + 1024 * at[2]
At(key) == <<(key \div 128) % 8, (key \div 1024) % 8, key % 128>>
IsKey(key) == key \div 8192 = 0

-----------------------------------------------------------------------------
Keys(rows) == {rows[i].key : i \in DOMAIN rows}
IndexOf(key) == CHOOSE i \in DOMAIN list : list[i].key = key
OfPattern(p, row) == <<At(row.key)[1], At(row.key)[2]>> = p

\* metadata()
Shown(at) ==
  IF Key(at) \in Keys(list) THEN Unpack(list[IndexOf(Key(at))].word) ELSE Default

\* loadPatternWords
PatternWords(p) ==
  [n \in Steps |->
     IF Key(<<p[1], p[2], n>>) \in Keys(list)
       THEN list[IndexOf(Key(<<p[1], p[2], n>>))].word ELSE 0]

\* Mutant: the last row is dropped, but not moved to the place that became free.
DroppedLast(rows, i) == Front(rows)

\* The last row moves to the place of the one removed.
Removed(rows, i) == Front([rows EXCEPT ![i] = Last(rows)])

\* updateMetadata on a list.
Updated(rows, at, m) ==
  LET key == Key(at)
      i == CHOOSE j \in DOMAIN rows : rows[j].key = key
  IN  IF m = Default THEN IF key \in Keys(rows) THEN Removed(rows, i) ELSE rows
      ELSE IF key \in Keys(rows) THEN [rows EXCEPT ![i].word = Pack(m)]
      ELSE IF Len(rows) < MaxOverrides THEN Append(rows, [key |-> key, word |-> Pack(m)])
      ELSE rows

\* clearPattern keeps the order of the others.
Cleared(rows, p) == SelectSeq(rows, LAMBDA row : ~OfPattern(p, row))

\* replacePatternWords, if there is room for all of them.
Filled(rows, p, words) ==
  FoldLeft(LAMBDA done, n : Updated(done, <<p[1], p[2], n>>, Unpack(words[n])),
           rows, SetToSortSeq(Steps, <))

Needed(words) == Cardinality({n \in Steps : Unpack(words[n]) # Default})

-----------------------------------------------------------------------------
(* The image.                                                                 *)

Blank == [magic |-> FALSE, version |-> 255, count |-> 65535, steps |-> 255, rows |-> <<>>, sum |-> TRUE]

\* encodeStore
Encoded(rows) ==
  [magic |-> TRUE, version |-> 1, count |-> Len(rows), steps |-> 128, rows |-> rows, sum |-> TRUE]

\* decodeStore: all rows or none.
RowsAreSound(rows) ==
  /\ \A i \in DOMAIN rows :
       /\ IsKey(rows[i].key) /\ Unpack(rows[i].word) # Default
       /\ Pack(Unpack(rows[i].word)) = rows[i].word
  /\ \A i, j \in DOMAIN rows : i # j => rows[i].key # rows[j].key

Decoded(bytes) ==
  IF /\ bytes.magic /\ bytes.version = 1 /\ bytes.steps = 128 /\ bytes.sum
     /\ bytes.count <= MaxOverrides /\ RowsAreSound(bytes.rows)
  THEN bytes.rows ELSE <<>>

-----------------------------------------------------------------------------
Nothing == [at \in Positions |-> Default]

Init == list = <<>> /\ image = Blank /\ meant = Nothing /\ kept = Nothing

Given(m) == Cardinality({at \in Positions : m[at] # Default})

\* An edit of one step; refused if it needs a row and there is none.
UpdateMetadata(at, m) ==
  LET wished == [meant EXCEPT ![at] = m]
  IN  /\ meant[at] # m
      /\ list' = Updated(list, at, m)
      /\ meant' = IF Given(wished) <= MaxOverrides THEN wished ELSE meant
      /\ UNCHANGED <<image, kept>>

ClearPattern(p) ==
  /\ list' = Cleared(list, p)
  /\ meant' = [at \in Positions |-> IF <<at[1], at[2]>> = p THEN Default ELSE meant[at]]
  /\ UNCHANGED <<image, kept>>

\* PASTE of the words of one pattern over another, as a whole or not at all.
ReplacePatternWords(from, to) ==
  LET words == PatternWords(from)
      existing == Len(SelectSeq(list, LAMBDA row : OfPattern(to, row)))
      wished == [at \in Positions |->
                   IF <<at[1], at[2]>> = to THEN meant[<<from[1], from[2], at[3]>>] ELSE meant[at]]
  IN  /\ from # to
      /\ list' = IF Len(list) - existing + Needed(words) > MaxOverrides THEN list
                 ELSE Filled(Cleared(list, to), to, words)
      /\ meant' = IF Given(wished) <= MaxOverrides THEN wished ELSE meant
      /\ UNCHANGED <<image, kept>>

Flush == image' = Encoded(list) /\ kept' = meant /\ UNCHANGED <<list, meant>>

\* begin() after a power cycle.
Begin == list' = Decoded(image) /\ meant' = kept /\ UNCHANGED <<image, kept>>

\* The region decays: the CRC no longer matches.
Decay == image' = [image EXCEPT !.sum = FALSE] /\ kept' = Nothing /\ UNCHANGED <<list, meant>>

Next ==
  \/ \E at \in Positions, m \in Metadata : UpdateMetadata(at, m)
  \/ \E p \in Patterns : ClearPattern(p)
  \/ \E p, q \in Patterns : ReplacePatternWords(p, q)
  \/ Flush \/ Begin \/ Decay

Spec == Init /\ [][Next]_vars

-----------------------------------------------------------------------------
(* Properties *)

\* Whatever was set, cleared, pasted, refused for want of room, flushed and read
\* back: every step has the expression it was given, the scheduler's words say the
\* same, and no row is wasted on a step that has none.
EveryStepHasItsOwn ==
  /\ \A at \in Positions : Shown(at) = meant[at]
  /\ \A p \in Patterns : \A n \in Steps :
       Unpack(PatternWords(p)[n]) = meant[<<p[1], p[2], n>>]
  /\ Len(list) = Given(meant)
=============================================================================
