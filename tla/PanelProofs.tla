------------------------------ MODULE PanelProofs ------------------------------
(* Theorems about what lies between the user's hands and the firmware: the edge  *)
(* queue of a jack, the rotary encoder, the display panel, the settings that are *)
(* edited with them, the recorder of a groove, the TAP estimator and the board   *)
(* of a boot game.  Each holds for every value of the constants its component    *)
(* allows.                                                                       *)
EXTENDS EdgeQueue, FiniteSets, FiniteSetTheorems, SequenceTheorems, WellFoundedInduction, TLAPS

\* The constants and variables of the other components, under their own names.
CONSTANTS PerDetent, MaximumPending, MaximumReport, MaxTurn,
          Buses, Savers, SaverAfter, DimAfter, OffAfter, MaxEvents, Losses,
          Channels, Deltas, LowestBpm, HighestBpm, MaxMinutes, LastRole, MaxSteps,
          GrooveLengths, CustomLength, MaxPlain, MaxEdits, None,
          Step, Beat, Length, MaxOffset, CountIns, Debounce, RewindCap, Rates, MaxDelay,
          MaxPosition,
          MinGap, MaxGap, Window, Minute, MinBpm, MaxBpm, MicrosWrap, MaxTime,
          MaxEntries, VisibleRows, Letters, NameLength, MaxScore, MaxRuns, Outcomes, NoRecord

VARIABLES shaft, unread, anchor, remainder, pending, pushed, rest, counted, bounced, slip,
          bus, hasSaver, screen, step, stopped, idle, turned, ui, queued, presented, fresh,
          transfer, ram, column, panel, events,
          state, engine, clipboard, edits,
          moving, position, rate, wait, contact, raw, stable, rawAge, mode, countIn, epoch,
          playhead, captured, heard, astray,
          now, passAt, slot, previous, intervals, sequenceAt, bpm,
          record, legacy, table, initials, letter, scroll, rank, history

Knob == INSTANCE RotaryEncoder
Oled == INSTANCE Display
Edits == INSTANCE SettingsEditor
Take == INSTANCE GrooveRecorder
Tapping == INSTANCE TapTempo
Scores == INSTANCE Arcade

-----------------------------------------------------------------------------
(* The edge queue. *)


\* The index after i wraps at the end of the ring (the % of pushFromIsr, pop).
LEMMA NextIndexWraps ==
  \A i \in Slots : NextIndex(i) = IF i = Capacity - 1 THEN 0 ELSE i + 1
BY CapacityAssumption DEF NextIndex, Slots

\* An index that advances stays inside the ring.
LEMMA NextIndexInSlots == \A i \in Slots : NextIndex(i) \in Slots
BY NextIndexWraps, CapacityAssumption DEF Slots

\* The initial state satisfies the inductive invariant.
LEMMA InitIInv == Init => IInv
<1> SUFFICES ASSUME Init PROVE IInv
  OBVIOUS
<1> USE CapacityAssumption, MaxEdgesAssumption
<1>1. TypeOK
  <2>1. [id |-> 0, high |-> FALSE] \in Edge
    BY DEF Edge
  <2>2. <<>> \in Seq(Item)
    OBVIOUS
  <2>3. edges \in [Slots -> Edge] /\ overflow \in Edge /\ edge \in Edge
    BY <2>1 DEF Init
  <2>4. published \in Seq(Item) /\ delivered \in Seq(Item)
    BY <2>2 DEF Init
  <2>5. head \in Slots /\ tail \in Slots
    BY DEF Init, Slots
  <2>6. pc \in PC
    BY DEF Init, PC
  <2>7. QED
    BY <2>3, <2>4, <2>5, <2>6 DEF Init, TypeOK
<1>2. DeliveredAsPublished /\ ContentsInv
  BY DEF Init, DeliveredAsPublished, ContentsInv, Count, Offset, Distance, Slots
<1>3. HandlerInv /\ StreamInv
  BY DEF Init, HandlerInv, StreamInv, Settled
<1>4. QED
  BY <1>1, <1>2, <1>3 DEF IInv

\* Two indices that advance to the same slot were the same.
LEMMA NextIndexInjective ==
  \A i, j \in Slots : NextIndex(i) = NextIndex(j) => i = j
<1> SUFFICES ASSUME NEW i \in Slots, NEW j \in Slots, NextIndex(i) = NextIndex(j)
             PROVE  i = j
  OBVIOUS
<1> USE CapacityAssumption DEF Slots
<1>1. CASE i = Capacity - 1 /\ j # Capacity - 1
  BY <1>1, NextIndexWraps
<1>2. CASE i # Capacity - 1 /\ j = Capacity - 1
  BY <1>2, NextIndexWraps
<1>3. CASE i # Capacity - 1 /\ j # Capacity - 1
  BY <1>3, NextIndexWraps
<1>4. QED
  BY <1>1, <1>2, <1>3

\* A distance around the ring is smaller than the ring.
LEMMA DistanceType == \A t, s \in Slots : Distance(t, s) \in 0 .. Capacity - 1
BY CapacityAssumption DEF Distance, Slots

\* Advancing the far end adds one, unless the ends meet.
LEMMA DistanceGrows ==
  \A t, h \in Slots : NextIndex(h) # t => Distance(t, NextIndex(h)) = Distance(t, h) + 1
<1> SUFFICES ASSUME NEW t \in Slots, NEW h \in Slots, NextIndex(h) # t
             PROVE  Distance(t, NextIndex(h)) = Distance(t, h) + 1
  OBVIOUS
<1>1. CASE h = Capacity - 1
  BY <1>1, NextIndexWraps, CapacityAssumption DEF Distance, Slots
<1>2. CASE h # Capacity - 1
  BY <1>2, NextIndexWraps, CapacityAssumption DEF Distance, Slots
<1>3. QED
  BY <1>1, <1>2

\* Advancing the near end takes one away, unless the slot is passed.
LEMMA DistanceShrinks ==
  \A t, s \in Slots : s # t => Distance(NextIndex(t), s) = Distance(t, s) - 1
<1> SUFFICES ASSUME NEW t \in Slots, NEW s \in Slots, s # t
             PROVE  Distance(NextIndex(t), s) = Distance(t, s) - 1
  OBVIOUS
<1>1. CASE t = Capacity - 1
  BY <1>1, NextIndexWraps, CapacityAssumption DEF Distance, Slots
<1>2. CASE t # Capacity - 1
  BY <1>2, NextIndexWraps, CapacityAssumption DEF Distance, Slots
<1>3. QED
  BY <1>1, <1>2

\* A slot is at distance zero of itself and at the largest once passed.
LEMMA DistanceAtSelf ==
  \A t \in Slots : Distance(t, t) = 0 /\ Distance(NextIndex(t), t) = Capacity - 1
<1> SUFFICES ASSUME NEW t \in Slots
             PROVE  Distance(t, t) = 0 /\ Distance(NextIndex(t), t) = Capacity - 1
  OBVIOUS
<1>1. CASE t = Capacity - 1
  BY <1>1, NextIndexWraps, CapacityAssumption DEF Distance, Slots
<1>2. CASE t # Capacity - 1
  BY <1>2, NextIndexWraps, CapacityAssumption DEF Distance, Slots
<1>3. QED
  BY <1>1, <1>2

\* A distance determines its slot.
LEMMA DistanceInjective ==
  \A t, s, r \in Slots : Distance(t, s) = Distance(t, r) => s = r
BY CapacityAssumption DEF Distance, Slots

\* What pop hands out for an edge is an item.
LEMMA ItemTypes == \A e \in Edge : Plain(e) \in Item /\ Marker(e) \in Item
BY DEF Edge, Item, Plain, Marker

-----------------------------------------------------------------------------
(* Type correctness. *)

\* No step of the handler or of the tick leaves the types.
LEMMA TypeStep == TypeOK /\ [Next]_vars => TypeOK'
<1> SUFFICES ASSUME TypeOK, [Next]_vars PROVE TypeOK'
  OBVIOUS
<1> USE DEF TypeOK, At, producerVars, ringVars, lossVars, historyVars
<1>1. CASE Capture
  <2>1. PICK high \in BOOLEAN : edge' = [id |-> edge.id + 1, high |-> high]
    BY <1>1 DEF Capture
  <2>2. edge' \in Edge
    BY <1>1, <2>1, MaxEdgesAssumption DEF Capture, Edge
  <2>3. QED
    BY <1>1, <2>2 DEF Capture, PC
<1>2. CASE DropBehindMarker \/ SeeNoMarker \/ SeeFull \/ SeeRoom
  BY <1>2 DEF DropBehindMarker, SeeNoMarker, SeeFull, SeeRoom, PC
<1>3. CASE StoreEdge
  BY <1>3 DEF StoreEdge, PC
<1>4. CASE PublishEdge
  <2>1. head' \in Slots
    BY <1>4, NextIndexInSlots DEF PublishEdge
  <2>2. published' \in Seq(Item)
    BY <1>4, ItemTypes DEF PublishEdge
  <2>3. QED
    BY <1>4, <2>1, <2>2 DEF PublishEdge, PC
<1>5. CASE MarkTimestamp \/ MarkLevel
  <2>1. overflow' \in Edge
    BY <1>5 DEF MarkTimestamp, MarkLevel, Edge
  <2>2. QED
    BY <1>5, <2>1 DEF MarkTimestamp, MarkLevel, PC
<1>6. CASE PublishMarker
  <2>1. published' \in Seq(Item)
    BY <1>6, ItemTypes DEF PublishMarker
  <2>2. QED
    BY <1>6, <2>1 DEF PublishMarker, PC
<1>7. CASE TickBegin \/ TickEnd
  BY <1>7 DEF TickBegin, TickEnd
<1>8. CASE PopEdge
  <2>1. tail' \in Slots
    BY <1>8, NextIndexInSlots DEF PopEdge
  <2>2. delivered' \in Seq(Item)
    BY <1>8, ItemTypes DEF PopEdge
  <2>3. QED
    BY <1>8, <2>1, <2>2 DEF PopEdge
<1>9. CASE PopMarker
  <2>1. delivered' \in Seq(Item)
    BY <1>9, ItemTypes DEF PopMarker
  <2>2. QED
    BY <1>9, <2>1 DEF PopMarker
<1>10. CASE UNCHANGED vars
  BY <1>10 DEF vars
<1>11. QED
  BY <1>1, <1>2, <1>3, <1>4, <1>5, <1>6, <1>7, <1>8, <1>9, <1>10 DEF Next, Push, Pop

\* Every variable of the queue keeps its type in every reachable state.
THEOREM TypeCorrect == Spec => []TypeOK
<1>1. Init => TypeOK
  BY InitIInv DEF IInv
<1>2. QED
  BY <1>1, TypeStep, PTL DEF Spec

-----------------------------------------------------------------------------
(* The inductive invariant. *)

\* Handler steps that publish nothing: the ring, the marker flag and the two
\* histories stay, so only what the handler has prepared can be disturbed.
LEMMA QuietStep ==
  ASSUME IInv, TypeOK',
         UNCHANGED <<ringVars, overflowPending, historyVars>>,
         overflowPending => UNCHANGED overflow
  PROVE  DeliveredAsPublished' /\ ContentsInv'
<1> USE DEF ringVars, historyVars
<1>1. DeliveredAsPublished'
  BY DEF IInv, DeliveredAsPublished
<1>2. ContentsInv'
  BY DEF IInv, ContentsInv, Count, Offset
<1>3. QED
  BY <1>1, <1>2

\* A quiet step leaves the stream's invariant alone when it settles no edge.
LEMMA QuietStream ==
  ASSUME IInv, UNCHANGED published, Settled' = Settled
  PROVE  StreamInv'
BY DEF IInv, StreamInv, Follows

\* One more item at the end of the stream, for the edge the handler settles.
LEMMA PublishStream ==
  ASSUME IInv, TypeOK', NEW item \in Item,
         pc # "idle", pc' = "idle", UNCHANGED edge, item.id = edge.id,
         published' = Append(published, item)
  PROVE  StreamInv'
<1> USE DEF IInv, TypeOK
<1>1. edge.id \in Nat /\ edge.id > 0 /\ Settled = edge.id - 1 /\ Settled' = edge.id
  BY DEF Edge, HandlerInv, Settled
<1>2. /\ Len(published') = Len(published) + 1
      /\ published'[Len(published) + 1] = item
      /\ \A i \in 1 .. Len(published) : published'[i] = published[i]
  OBVIOUS
<1>3. \A i \in 1 .. Len(published) : Follows(published', i)
  BY <1>2 DEF StreamInv, Follows
<1>4. Follows(published', Len(published) + 1)
  <2>1. CASE published = <<>>
    BY <2>1, <1>1, <1>2 DEF StreamInv, Follows
  <2>2. CASE published # <<>>
    <3>1. Len(published) > 0 /\ published[Len(published)] \in Item
      BY <2>2
    <3>2. published'[Len(published)] = published[Len(published)]
      BY <3>1, <1>2
    <3>3. published[Len(published)].id \in Nat
      BY <3>1 DEF Item
    <3>4. QED
      BY <2>2, <3>1, <3>2, <3>3, <1>1, <1>2 DEF StreamInv, Follows
  <2>3. QED
    BY <2>1, <2>2
<1>5. QED
  <2>1. \A i \in 1 .. Len(published') : Follows(published', i)
    BY <1>2, <1>3, <1>4
  <2>2. published' # <<>> /\ published'[Len(published')] = item
    BY <1>2
  <2>3. IF item.lost THEN item.id <= Settled' ELSE item.id = Settled'
    BY <1>1
  <2>4. QED
    BY <2>1, <2>2, <2>3 DEF StreamInv

\* Publishing an edge makes the slot the handler filled the newest in use.
LEMMA PublishEdgeContents ==
  ASSUME IInv, TypeOK', PublishEdge
  PROVE  DeliveredAsPublished' /\ ContentsInv'
<1> USE CapacityAssumption DEF IInv, TypeOK
<1>1. /\ head' = NextIndex(head) /\ head' # tail
      /\ UNCHANGED <<edge, edges, tail, overflowPending, delivered>>
      /\ published' = Append(published, Plain(edge))
      /\ ~overflowPending /\ edges[head] = edge
  BY DEF PublishEdge, At, HandlerInv, lossVars
<1>2. /\ Len(published') = Len(published) + 1
      /\ published'[Len(published) + 1] = Plain(edge)
      /\ \A i \in 1 .. Len(published) : published'[i] = published[i]
  BY <1>1, ItemTypes
<1>3. DeliveredAsPublished'
  BY <1>1, <1>2 DEF DeliveredAsPublished
<1>4. Count' = Count + 1 /\ \A s \in Slots : Offset(s)' = Offset(s)
  BY <1>1, DistanceGrows DEF Count, Offset
<1>5. ASSUME NEW s \in Slots, Offset(s) < Count + 1
      PROVE  Plain(edges[s]) = published'[Len(delivered) + 1 + Offset(s)]
  <2>1. Offset(s) \in Nat /\ Count \in Nat
    BY DEF Offset, Count, Distance, Slots
  <2>2. Len(published) = Len(delivered) + Count
    BY <1>1, <2>1 DEF ContentsInv
  <2>3. CASE Offset(s) < Count
    <3>1. Len(delivered) + 1 + Offset(s) \in 1 .. Len(published)
      BY <2>1, <2>2, <2>3
    <3>2. Plain(edges[s]) = published[Len(delivered) + 1 + Offset(s)]
      BY <2>3 DEF ContentsInv
    <3>3. QED
      BY <3>1, <3>2, <1>2
  <2>4. CASE Offset(s) = Count
    <3>1. s = head
      BY <2>4, DistanceInjective DEF Offset, Count
    <3>2. Len(delivered) + 1 + Offset(s) = Len(published) + 1
      BY <2>1, <2>2, <2>4
    <3>3. Plain(edges[s]) = Plain(edge)
      BY <3>1, <1>1
    <3>4. QED
      BY <3>2, <3>3, <1>2
  <2>5. QED
    BY <2>1, <2>3, <2>4, <1>5
<1>6. Len(published') = Len(delivered') + Count' + IF overflowPending' THEN 1 ELSE 0
  <2>1. Len(published) = Len(delivered) + Count /\ Count \in Nat
    BY <1>1 DEF ContentsInv, Count, Offset, Distance, Slots
  <2>2. QED
    BY <2>1, <1>1, <1>2, <1>4
<1>7. QED
  BY <1>1, <1>3, <1>4, <1>5, <1>6 DEF ContentsInv

\* Publishing a marker puts it behind everything the ring still holds.
LEMMA PublishMarkerContents ==
  ASSUME IInv, TypeOK', PublishMarker
  PROVE  DeliveredAsPublished' /\ ContentsInv'
<1> USE CapacityAssumption DEF IInv, TypeOK
<1>1. /\ UNCHANGED <<edges, head, tail, overflow, delivered>>
      /\ published' = Append(published, Marker(edge))
      /\ ~overflowPending /\ overflowPending' /\ overflow = edge
  BY DEF PublishMarker, At, HandlerInv, ringVars
<1>2. /\ Len(published') = Len(published) + 1
      /\ published'[Len(published) + 1] = Marker(overflow)
      /\ \A i \in 1 .. Len(published) : published'[i] = published[i]
  BY <1>1, ItemTypes
<1>3. DeliveredAsPublished'
  BY <1>1, <1>2 DEF DeliveredAsPublished
<1>4. Count' = Count /\ Count \in Nat /\ \A s \in Slots : Offset(s)' = Offset(s)
  BY <1>1 DEF Count, Offset, Distance, Slots
<1>5. Len(published) = Len(delivered) + Count
  BY <1>1, <1>4 DEF ContentsInv
<1>6. \A s \in Slots : Offset(s) < Count =>
        /\ Len(delivered) + 1 + Offset(s) \in 1 .. Len(published)
        /\ Plain(edges[s]) = published[Len(delivered) + 1 + Offset(s)]
  BY <1>4, <1>5 DEF ContentsInv, Offset, Distance, Slots
<1>7. QED
  BY <1>1, <1>2, <1>3, <1>4, <1>5, <1>6 DEF ContentsInv

\* Popping an edge delivers the oldest published item and frees its slot.
LEMMA PopEdgeContents ==
  ASSUME IInv, TypeOK', PopEdge
  PROVE  DeliveredAsPublished' /\ ContentsInv'
<1> USE CapacityAssumption DEF IInv, TypeOK
<1>1. /\ tail # head /\ tail' = NextIndex(tail)
      /\ UNCHANGED <<edges, head, overflowPending, overflow, published>>
      /\ delivered' = Append(delivered, Plain(edges[tail]))
  BY DEF PopEdge, lossVars
<1>2. /\ Len(delivered') = Len(delivered) + 1
      /\ delivered'[Len(delivered) + 1] = Plain(edges[tail])
      /\ \A i \in 1 .. Len(delivered) : delivered'[i] = delivered[i]
  BY <1>1, ItemTypes
<1>3. Count \in 1 .. Capacity - 1 /\ Offset(tail) = 0 /\ Count' = Count - 1
  BY <1>1, DistanceType, DistanceShrinks, DistanceAtSelf, DistanceInjective DEF Count, Offset
<1>4. Plain(edges[tail]) = published[Len(delivered) + 1]
  BY <1>3 DEF ContentsInv
<1>5. DeliveredAsPublished'
  BY <1>1, <1>2, <1>3, <1>4 DEF DeliveredAsPublished, ContentsInv
<1>6. ASSUME NEW s \in Slots, Offset(s)' < Count'
      PROVE  Offset(s) < Count /\ Offset(s) = Offset(s)' + 1
  <2>1. s # tail
    BY <1>1, <1>3, <1>6, DistanceAtSelf DEF Offset
  <2>2. Offset(s)' = Offset(s) - 1 /\ Offset(s) \in 0 .. Capacity - 1
    BY <1>1, <2>1, DistanceShrinks, DistanceType DEF Offset
  <2>3. Count' = Count - 1 /\ Count \in Int
    BY <1>3
  <2>4. Offset(s)' < Count - 1
    BY <2>3, <1>6
  <2>5. Offset(s) \in Int /\ Offset(s)' = Offset(s) - 1
    BY <2>2
  <2>6. Offset(s) = Offset(s)' + 1
    BY <2>5
  <2>7. Offset(s) < Count
    BY <2>3, <2>4, <2>5
  <2>8. QED
    BY <2>6, <2>7
<1>7. ASSUME NEW s \in Slots, Offset(s)' < Count'
      PROVE  Plain(edges'[s]) = published'[Len(delivered') + 1 + Offset(s)']
  <2>1. Plain(edges[s]) = published[Len(delivered) + 1 + Offset(s)]
    BY <1>6, <1>7 DEF ContentsInv
  <2>2. Offset(s)' \in 0 .. Capacity - 1
    BY DistanceType DEF Offset
  <2>3. Len(delivered) + 1 + Offset(s) = Len(delivered') + 1 + Offset(s)'
    BY <2>2, <1>2, <1>6, <1>7
  <2>4. QED
    BY <2>1, <2>3, <1>1
<1>8. Len(published') = Len(delivered') + Count' + IF overflowPending' THEN 1 ELSE 0
  <2>1. Len(published) = Len(delivered) + Count + IF overflowPending THEN 1 ELSE 0
    BY DEF ContentsInv
  <2>2. Len(published') = Len(published) /\ overflowPending' = overflowPending
    BY <1>1
  <2>3. Count' = Count - 1 /\ Count \in Int /\ Len(delivered) \in Int
    BY <1>3
  <2>4. QED
    BY <2>1, <2>2, <2>3, <1>2
<1>9. overflowPending' => published'[Len(published')] = Marker(overflow)'
  BY <1>1 DEF ContentsInv, Marker
<1>10. QED
  BY <1>5, <1>7, <1>8, <1>9 DEF ContentsInv

\* Popping the marker delivers the last published item; nothing remains.
LEMMA PopMarkerContents ==
  ASSUME IInv, TypeOK', PopMarker
  PROVE  DeliveredAsPublished' /\ ContentsInv'
<1> USE CapacityAssumption DEF IInv, TypeOK
<1>1. /\ tail = head /\ overflowPending /\ ~overflowPending'
      /\ UNCHANGED <<edges, head, tail, overflow, published>>
      /\ delivered' = Append(delivered, Marker(overflow))
  BY DEF PopMarker, ringVars
<1>2. /\ Len(delivered') = Len(delivered) + 1
      /\ delivered'[Len(delivered) + 1] = Marker(overflow)
      /\ \A i \in 1 .. Len(delivered) : delivered'[i] = delivered[i]
  BY <1>1, ItemTypes
<1>3. Count = 0 /\ Count' = 0 /\ \A s \in Slots : Offset(s)' \in Nat
  BY <1>1 DEF Count, Offset, Distance, Slots
<1>4. Len(published) = Len(delivered) + 1 /\ published[Len(published)] = Marker(overflow)
  BY <1>1, <1>3 DEF ContentsInv
<1>5. DeliveredAsPublished'
  BY <1>1, <1>2, <1>4 DEF DeliveredAsPublished
<1>6. QED
  BY <1>1, <1>2, <1>3, <1>4, <1>5 DEF ContentsInv

\* Every step of the handler and of the tick preserves the invariant.
LEMMA StepIInv == IInv /\ [Next]_vars => IInv'
<1> SUFFICES ASSUME IInv, [Next]_vars PROVE IInv'
  OBVIOUS
<1>t. TypeOK'
  BY TypeStep DEF IInv
<1> USE <1>t DEF At
<1>1. CASE Capture
  <2>1. DeliveredAsPublished' /\ ContentsInv'
    BY <1>1, QuietStep DEF Capture, lossVars, ringVars
  <2>2. Settled' = Settled /\ edge'.id = edge.id + 1 /\ edge.id \in Nat
    BY <1>1 DEF Capture, Settled, IInv, TypeOK, Edge
  <2>3. StreamInv'
    BY <1>1, <2>2, QuietStream DEF Capture, historyVars
  <2>4. HandlerInv'
    BY <1>1, <2>2 DEF Capture, HandlerInv, IInv
  <2>5. QED
    BY <2>1, <2>3, <2>4 DEF IInv
<1>2. CASE DropBehindMarker
  <2>1. DeliveredAsPublished' /\ ContentsInv'
    BY <1>2, QuietStep DEF DropBehindMarker
  <2>2. HandlerInv'
    BY <1>2 DEF DropBehindMarker, HandlerInv, IInv
  <2>3. Settled' = Settled + 1 /\ Settled \in Nat
    BY <1>2 DEF DropBehindMarker, Settled, IInv, HandlerInv, TypeOK, Edge
  <2>4. published # <<>> /\ published[Len(published)].lost
    <3>1. Count \in Nat /\ overflowPending
      BY <1>2, DistanceType DEF DropBehindMarker, Count, Offset, IInv, TypeOK
    <3>2. Len(published) > 0
      BY <3>1 DEF IInv, ContentsInv, TypeOK
    <3>3. published[Len(published)] = Marker(overflow)
      BY <3>1 DEF IInv, ContentsInv
    <3>4. QED
      BY <3>2, <3>3 DEF Marker
  <2>5. published[Len(published)].id \in Int
    <3>1. published \in Seq(Item) /\ published # <<>>
      BY <2>4 DEF IInv, TypeOK
    <3>2. published[Len(published)] \in Item
      BY <3>1
    <3>3. QED
      BY <3>2 DEF Item
  <2>6. published' = published
    BY <1>2 DEF DropBehindMarker, historyVars
  <2>7. StreamInv'
    BY <2>3, <2>4, <2>5, <2>6 DEF IInv, StreamInv, Follows
  <2>8. QED
    BY <2>1, <2>2, <2>7 DEF IInv
<1>3. CASE SeeNoMarker \/ SeeRoom \/ SeeFull
  <2>1. DeliveredAsPublished' /\ ContentsInv'
    BY <1>3, QuietStep DEF SeeNoMarker, SeeRoom, SeeFull, lossVars
  <2>2. HandlerInv'
    BY <1>3 DEF SeeNoMarker, SeeRoom, SeeFull, HandlerInv, IInv, lossVars, ringVars
  <2>3. Settled' = Settled /\ published' = published
    BY <1>3 DEF SeeNoMarker, SeeRoom, SeeFull, Settled, historyVars
  <2>4. QED
    BY <2>1, <2>2, <2>3, QuietStream DEF IInv
<1>4. CASE StoreEdge
  <2>1. /\ UNCHANGED <<head, tail, overflowPending, overflow, published, delivered, edge>>
        /\ edges' = [edges EXCEPT ![head] = edge] /\ pc = "storeEdge" /\ pc' = "publishEdge"
    BY <1>4 DEF StoreEdge, lossVars, historyVars
  <2>2. edges'[head] = edge /\ \A s \in Slots : s # head => edges'[s] = edges[s]
    BY <2>1 DEF IInv, TypeOK
  <2>3. \A s \in Slots : Offset(s) < Count => s # head
    BY DistanceType DEF IInv, TypeOK, Offset, Count
  <2>4. DeliveredAsPublished' /\ ContentsInv'
    BY <2>1, <2>2, <2>3 DEF IInv, DeliveredAsPublished, ContentsInv, Offset, Count
  <2>5. HandlerInv'
    BY <2>1, <2>2 DEF IInv, HandlerInv
  <2>6. Settled' = Settled
    BY <2>1 DEF Settled
  <2>7. QED
    BY <2>1, <2>4, <2>5, <2>6, QuietStream DEF IInv
<1>5. CASE PublishEdge
  <2>1. DeliveredAsPublished' /\ ContentsInv'
    BY <1>5, PublishEdgeContents
  <2>2. HandlerInv'
    BY <1>5 DEF PublishEdge, HandlerInv, IInv, lossVars
  <2>3. Plain(edge) \in Item /\ Plain(edge).id = edge.id
    BY ItemTypes DEF IInv, TypeOK, Plain
  <2>4. StreamInv'
    BY <1>5, <2>3, PublishStream DEF PublishEdge
  <2>5. QED
    BY <2>1, <2>2, <2>4 DEF IInv
<1>6. CASE MarkTimestamp \/ MarkLevel
  <2>1. ~overflowPending /\ UNCHANGED <<edge, ringVars, overflowPending, historyVars>>
    BY <1>6 DEF MarkTimestamp, MarkLevel, IInv, HandlerInv
  <2>2. DeliveredAsPublished' /\ ContentsInv'
    BY <2>1, QuietStep
  <2>3. HandlerInv'
    BY <1>6, <2>1 DEF MarkTimestamp, MarkLevel, IInv, HandlerInv, TypeOK, Edge
  <2>4. Settled' = Settled /\ published' = published
    BY <1>6 DEF MarkTimestamp, MarkLevel, Settled, historyVars
  <2>5. QED
    BY <2>2, <2>3, <2>4, QuietStream DEF IInv
<1>7. CASE PublishMarker
  <2>1. DeliveredAsPublished' /\ ContentsInv'
    BY <1>7, PublishMarkerContents
  <2>2. HandlerInv'
    BY <1>7 DEF PublishMarker, HandlerInv, IInv
  <2>3. Marker(edge) \in Item /\ Marker(edge).id = edge.id
    BY ItemTypes DEF IInv, TypeOK, Marker
  <2>4. StreamInv'
    BY <1>7, <2>3, PublishStream DEF PublishMarker
  <2>5. QED
    BY <2>1, <2>2, <2>4 DEF IInv
<1>8. CASE TickBegin \/ TickEnd \/ UNCHANGED vars
  <2>1. UNCHANGED <<producerVars, ringVars, lossVars, historyVars>>
    BY <1>8 DEF TickBegin, TickEnd, vars
  <2>2. DeliveredAsPublished' /\ ContentsInv'
    BY <2>1, QuietStep DEF lossVars
  <2>3. HandlerInv' /\ Settled' = Settled
    BY <2>1 DEF IInv, HandlerInv, Settled, producerVars, ringVars, lossVars
  <2>4. QED
    BY <2>1, <2>2, <2>3, QuietStream DEF IInv, historyVars
<1>9. CASE PopEdge
  <2>1. DeliveredAsPublished' /\ ContentsInv'
    BY <1>9, PopEdgeContents
  <2>2. /\ UNCHANGED <<pc, edge, edges, head, overflowPending, overflow, published>>
        /\ tail # head /\ tail' = NextIndex(tail)
    BY <1>9 DEF PopEdge, producerVars, lossVars
  <2>3. NextIndex(head) # NextIndex(tail)
    BY <2>2, NextIndexInjective DEF IInv, TypeOK
  <2>4. HandlerInv' /\ Settled' = Settled
    BY <2>2, <2>3 DEF IInv, HandlerInv, Settled
  <2>5. QED
    BY <2>1, <2>2, <2>4, QuietStream DEF IInv
<1>10. CASE PopMarker
  <2>1. DeliveredAsPublished' /\ ContentsInv'
    BY <1>10, PopMarkerContents
  <2>2. HandlerInv' /\ Settled' = Settled /\ published' = published
    BY <1>10 DEF PopMarker, IInv, HandlerInv, Settled, producerVars, ringVars
  <2>3. QED
    BY <2>1, <2>2, QuietStream DEF IInv
<1>11. QED
  BY <1>1, <1>2, <1>3, <1>4, <1>5, <1>6, <1>7, <1>8, <1>9, <1>10 DEF Next, Push, Pop

\* In every reachable state the ring and the marker hold exactly what was
\* published and not yet delivered, whatever the handler was preempted in.
THEOREM Invariance == Spec => []IInv
BY InitIInv, StepIInv, PTL DEF Spec

\* The tick receives exactly what the handler published, in order and whole,
\* wherever it preempts pushFromIsr and however large the ring is.
THEOREM DeliversAsPublished == Spec => []DeliveredAsPublished
<1>1. IInv => DeliveredAsPublished
  BY DEF IInv
<1>2. QED
  BY <1>1, Invariance, PTL

\* No dropped edge hides between two edges the tick receives back to back:
\* processSyncEdges never measures a period across a loss.
THEOREM GapsAreAlwaysMarked == Spec => []GapsAreMarked
<1>1. IInv => GapsAreMarked
  <2> SUFFICES ASSUME IInv, NEW i \in 1 .. Len(delivered)
               PROVE  Follows(delivered, i)
    BY DEF GapsAreMarked
  <2>1. i \in 1 .. Len(published) /\ delivered[i] = published[i]
    BY DEF IInv, DeliveredAsPublished, TypeOK
  <2>2. i > 1 => delivered[i - 1] = published[i - 1]
    BY DEF IInv, DeliveredAsPublished, TypeOK
  <2>3. Follows(published, i)
    BY <2>1 DEF IInv, StreamInv
  <2>4. QED
    BY <2>1, <2>2, <2>3 DEF Follows
<1>2. QED
  BY <1>1, Invariance, PTL
-----------------------------------------------------------------------------
(* The encoder. *)

KnobAssumption ==
  /\ PerDetent = 4 /\ MaximumPending \in Nat /\ MaximumReport \in Nat /\ MaxTurn \in Nat

\* The queue of pending detents, 32767 long, has room for what the next sample finds.
RoomLeft ==
  unread # 0 =>
    Knob!Magnitude(pending + Knob!Detents(remainder + unread).new) <= MaximumPending

\* Since the last rest, handed out and carried transitions make up the turn, but for one
\* that was miscounted; at that rest the shaft stood at the anchor.
KnobInv ==
  /\ shaft \in Int /\ unread \in Int /\ remainder \in Int /\ pending \in Int
  /\ rest \in Int /\ counted \in Int /\ bounced \in BOOLEAN /\ pushed \in BOOLEAN
  /\ Knob!Magnitude(pending) <= MaximumPending
  /\ anchor = rest % 4
  /\ LET error == 4 * counted + remainder + unread - (shaft - rest)
     IN  error \in {-1, 0, 1} /\ (error # 0 => bounced)
  /\ slip = 0

\* From one rest to the next, whole detents pass, plus or minus what was miscounted.
LEMMA WholeTurns ==
  ASSUME NEW a \in Int, NEW b \in Int, a % 4 = b % 4
  PROVE  \E k \in Int : a - b = 4 * k
<1>1. a = 4 * (a \div 4) + (a % 4) /\ b = 4 * (b \div 4) + (b % 4) /\ a \div 4 \in Int /\ b \div 4 \in Int
  OBVIOUS
<1>2. a - b = 4 * (a \div 4 - b \div 4) /\ a \div 4 - b \div 4 \in Int
  BY <1>1
<1> QED BY <1>2

\* Rounding at the anchor undoes one miscount.
LEMMA RoundsToDetents ==
  ASSUME KnobAssumption, Knob!AtDetent, NEW k \in Int, NEW e \in {-1, 0, 1}
  PROVE  Knob!Detents(4 * k + e) = [new |-> k, rest |-> 0]
<1> DEFINE m == 4 * k + e
<1>1. m \in Int
  OBVIOUS
<1>2. CASE m < 0
  <2>1. (-m + 1) \div 4 = -k
    <3>1. -m + 1 = 4 * (-k) + (1 - e) /\ 1 - e \in 0..3 /\ -k \in Int
      OBVIOUS
    <3> QED BY <3>1
  <2> QED BY <1>1, <1>2, <2>1 DEF Knob!Detents, Knob!Magnitude, KnobAssumption
<1>3. CASE ~(m < 0)
  <2>1. (m + 1) \div 4 = k
    <3>1. m + 1 = 4 * k + (1 + e) /\ 1 + e \in 0..3
      OBVIOUS
    <3> QED BY <3>1
  <2> QED BY <1>1, <1>3, <2>1 DEF Knob!Detents, Knob!Magnitude, KnobAssumption
<1> QED BY <1>2, <1>3

\* What a sample takes and what it leaves are integers, and elsewhere than at the anchor
\* they add up.
LEMMA DetentsAddUp ==
  ASSUME KnobAssumption, NEW m \in Int
  PROVE  /\ Knob!Detents(m).new \in Int /\ Knob!Detents(m).rest \in Int
         /\ ~Knob!AtDetent => 4 * Knob!Detents(m).new + Knob!Detents(m).rest = m
BY DEF Knob!Detents, Knob!Magnitude, Knob!Towards0, KnobAssumption

\* At power-on the shaft rests at the anchor and nothing is counted.
LEMMA KnobInvInitially == ASSUME KnobAssumption, Knob!Init PROVE KnobInv
<1>1. 0 % 4 = 0 /\ Knob!Magnitude(0) <= MaximumPending
  BY DEF Knob!Magnitude, KnobAssumption
<1>2. 4 * counted + remainder + unread - (shaft - rest) = 0 /\ anchor = rest % 4
  BY <1>1 DEF Knob!Init
<1>3. bounced \in BOOLEAN /\ pushed \in BOOLEAN
  BY DEF Knob!Init
<1> QED BY <1>1, <1>2, <1>3 DEF KnobInv, Knob!Init

\* Turning, a bounce, a sample and the button keep the count of the turn since the last rest.
LEMMA KnobInvStep ==
  ASSUME KnobAssumption, KnobInv, RoomLeft, [Knob!Next]_Knob!vars PROVE KnobInv'
<1> USE DEF KnobAssumption
<1>1. ASSUME NEW by \in {-1, 1}, Knob!Turn(by) PROVE KnobInv'
  BY <1>1 DEF KnobInv, Knob!Turn, Knob!Magnitude
<1>2. ASSUME NEW by \in {-1, 1}, Knob!Bounce(by) PROVE KnobInv'
  BY <1>2 DEF KnobInv, Knob!Bounce, Knob!Magnitude
<1>3. ASSUME NEW release \in BOOLEAN, Knob!Sample(release) PROVE KnobInv'
  <2> DEFINE moved == remainder + unread
             found == IF unread = 0 THEN [new |-> 0, rest |-> remainder] ELSE Knob!Detents(moved)
             total == pending + found.new
  <2>1. moved \in Int /\ found.new \in Int /\ found.rest \in Int
    BY DetentsAddUp DEF KnobInv
  <2>2. total \in Int /\ Knob!Magnitude(total) <= MaximumPending
    BY <2>1 DEF KnobInv, RoomLeft
  <2>3. Knob!Clamp(total, MaximumPending) = total
    BY <2>2 DEF Knob!Clamp, Knob!Magnitude
  <2>4. /\ unread' = 0 /\ shaft' = shaft
        /\ anchor' = IF release THEN shaft % 4 ELSE anchor
        /\ remainder' = IF release THEN 0 ELSE found.rest
        /\ pending' = total - Knob!Clamp(total, MaximumReport)
        /\ pushed' = (pushed /\ ~release)
        /\ rest' = IF release \/ (unread # 0 /\ Knob!AtDetent) THEN shaft ELSE rest
        /\ counted' = IF release \/ (unread # 0 /\ Knob!AtDetent) THEN 0 ELSE counted + total - pending
        /\ slip' = IF (release \/ (unread # 0 /\ Knob!AtDetent)) /\ ~release
                   THEN 4 * (counted + total - pending) - (shaft - rest) ELSE slip
        /\ bounced' = (bounced /\ ~(release \/ (unread # 0 /\ Knob!AtDetent)))
    BY <1>3, <2>3 DEF Knob!Sample
  <2>5. pending' \in Int /\ Knob!Magnitude(pending') <= MaximumPending
    BY <2>2, <2>4 DEF Knob!Clamp, Knob!Magnitude
  <2>6. CASE release
    <3>0. /\ unread' = 0 /\ shaft' = shaft /\ anchor' = shaft % 4 /\ remainder' = 0
          /\ rest' = shaft /\ counted' = 0 /\ slip' = slip
      BY <2>4, <2>6
    <3>1. /\ 4 * counted' + remainder' + unread' - (shaft' - rest') = 0
          /\ shaft' \in Int /\ unread' \in Int /\ remainder' \in Int /\ rest' \in Int
          /\ counted' \in Int /\ anchor' = rest' % 4 /\ slip' = 0
      BY <3>0 DEF KnobInv
    <3>2. bounced' \in BOOLEAN /\ pushed' \in BOOLEAN
      BY <2>4
    <3> QED BY <2>5, <3>1, <3>2 DEF KnobInv
  <2>7. CASE ~release /\ unread # 0 /\ Knob!AtDetent
    <3>1. shaft % 4 = rest % 4
      BY <2>7 DEF KnobInv, Knob!AtDetent
    <3>2. PICK k \in Int : shaft - rest = 4 * k
      BY <3>1, WholeTurns DEF KnobInv
    <3>3. PICK e \in {-1, 0, 1} : 4 * counted + moved - (shaft - rest) = e
      BY DEF KnobInv
    <3>4. moved = 4 * (k - counted) + e /\ k - counted \in Int
      BY <2>1, <3>2, <3>3 DEF KnobInv
    <3>5. found = [new |-> k - counted, rest |-> 0]
      BY <2>7, <3>4, RoundsToDetents
    <3>6. slip' = 0
      BY <2>1, <2>4, <2>7, <3>2, <3>5 DEF KnobInv
    <3> QED BY <2>4, <2>5, <2>7, <3>1, <3>5, <3>6 DEF KnobInv
  <2>8. CASE ~release /\ (unread = 0 \/ ~Knob!AtDetent)
    <3>1. 4 * found.new + found.rest = moved
      BY <2>1, <2>8, DetentsAddUp DEF KnobInv
    <3>2. counted' = counted + found.new /\ remainder' = found.rest /\ rest' = rest
      BY <2>1, <2>4, <2>8 DEF KnobInv
    <3> QED BY <2>1, <2>4, <2>5, <2>8, <3>1, <3>2 DEF KnobInv
  <2> QED BY <2>6, <2>7, <2>8
<1>4. CASE Knob!Push
  BY <1>4 DEF KnobInv, Knob!Push, Knob!Magnitude
<1>5. CASE UNCHANGED Knob!vars
  BY <1>5 DEF KnobInv, Knob!vars, Knob!Magnitude
<1> QED BY <1>1, <1>2, <1>3, <1>4, <1>5 DEF Knob!Next

\* RotaryEncoder!TurnsAreCountedAtRest, as long as the queue of pending detents has room:
\* sampleEncoder hands out what was turned between two rests, whatever one miscount, the
\* moments it looked and the button did.
THEOREM TurnsAlwaysCounted ==
  KnobAssumption => (Knob!Spec /\ []RoomLeft => []Knob!TurnsAreCountedAtRest)
<1> SUFFICES ASSUME KnobAssumption PROVE Knob!Spec /\ []RoomLeft => []Knob!TurnsAreCountedAtRest
  OBVIOUS
<1>1. Knob!Init => KnobInv
  BY KnobInvInitially
<1>2. KnobInv /\ RoomLeft /\ [Knob!Next]_Knob!vars => KnobInv'
  BY KnobInvStep
<1>3. KnobInv => Knob!TurnsAreCountedAtRest
  BY DEF KnobInv, Knob!TurnsAreCountedAtRest
<1> QED BY <1>1, <1>2, <1>3, PTL DEF Knob!Spec
-----------------------------------------------------------------------------
(* The display. *)

OledAssumption ==
  /\ Buses \subseteq {"spi", "i2c"} /\ Savers \subseteq BOOLEAN /\ Losses \subseteq {"nak"}
  /\ SaverAfter \in Nat /\ DimAfter \in Nat /\ OffAfter \in Nat /\ MaxEvents \in Nat

Looks == {"a", "b"}
Cells == [what : {"a", "b", "saver", "blank", "mixed"}, turned : BOOLEAN]
Pictures == [Oled!Pages -> Cells]
Whole(cell) == cell.what # "mixed"

\* What a pass may see of the interface, the driver and the panel.
Faces ==
  [dirty : BOOLEAN, shown : Looks, off : BOOLEAN, dim : BOOLEAN, saver : BOOLEAN, rested : BOOLEAN]
Transfers == [phase : {"idle", "window", "data"}, page : 1..3, half : {1, 2}]
Memories == [Oled!Pages -> [Oled!Halves -> Cells]]
Panels == [on : BOOLEAN, dim : BOOLEAN]
Moments ==
  [screen : Looks, stopped : BOOLEAN, idle : Nat, turned : BOOLEAN, ui : Faces,
   queued : Pictures, presented : Pictures, fresh : BOOLEAN, transfer : Transfers,
   ram : Memories, panel : Panels]

\* The panel holds page p of a picture, whole.
Holds(n, p, picture) == \A h \in Oled!Halves : n.ram[p][h] = picture[p]

\* While the driver remembers what it sent, the panel holds it, but for a page under way.
RemembersTruly(n) ==
  n.fresh => \A p \in Oled!Pages : Whole(n.presented[p]) => Holds(n, p, n.presented)

\* A transfer has passed the pages that are as queued; of the one it writes, the panel's
\* pointer is where the next half belongs.
WritesInPlace(n, col) ==
  n.transfer.phase # "idle" =>
    /\ bus = "i2c"
    /\ \A p \in Oled!Pages : Whole(n.queued[p])
    /\ \A p \in Oled!Pages :
         p < n.transfer.page => n.presented[p] = n.queued[p] /\ Holds(n, p, n.queued)
    /\ n.transfer.phase = "data" =>
         /\ n.transfer.page \in Oled!Pages /\ col = n.transfer.half
         /\ n.transfer.half = 2 =>
              /\ ~Whole(n.presented[n.transfer.page])
              /\ n.ram[n.transfer.page][1] = n.queued[n.transfer.page]

Target(n) ==
  Oled!Mapped([q \in Oled!Pages |-> IF q = 1 THEN n.screen ELSE n.ui.shown], n.turned)

\* A clean screen that is on display was presented or is on its way.
AskedFor(n) ==
  ~n.ui.dirty /\ ~n.ui.saver /\ ~n.ui.off =>
    IF n.transfer.phase = "idle" THEN n.fresh /\ n.presented = Target(n)
    ELSE n.queued = Target(n)

Driven(n, col) == n \in Moments /\ RemembersTruly(n) /\ WritesInPlace(n, col)
Sound(n, col) == Driven(n, col) /\ AskedFor(n)

OledInv ==
  /\ bus \in {"spi", "i2c"} /\ step \in Looks /\ column \in {1, 2} /\ Sound(Oled!Now, column)

\* What the renderers draw is whole pictures, whichever way up.
LEMMA MappedIsWhole ==
  ASSUME NEW picture, NEW isTurned \in BOOLEAN,
         \A p \in Oled!Pages : picture[p] \in {"a", "b", "saver", "blank"}
  PROVE  /\ Oled!Mapped(picture, isTurned) \in Pictures
         /\ \A p \in Oled!Pages : Whole(Oled!Mapped(picture, isTurned)[p])
BY DEF Oled!Mapped, Oled!Cell, Oled!Pages, Pictures, Cells, Whole

\* A moment with other memories of the driver is a moment.
LEMMA DriverUpdates ==
  ASSUME NEW n \in Moments, NEW isFresh \in BOOLEAN, NEW sent \in Pictures, NEW memory \in Memories
  PROVE  [n EXCEPT !.fresh = isFresh, !.presented = sent, !.ram = memory] \in Moments
BY DEF Moments

\* What a screen or a saver is drawn onto becomes the picture asked for.
LEMMA PresentIsSound ==
  ASSUME NEW n, NEW col, NEW picture, bus \in {"spi", "i2c"},
         Driven(n, col),
         \A p \in Oled!Pages : picture[p] \in {"a", "b", "saver", "blank"}
  PROVE  LET m == Oled!Present(n, picture)
             frame == Oled!Mapped(picture, n.turned)
         IN  /\ Driven(m, col)
             /\ m.screen = n.screen /\ m.ui = n.ui /\ m.turned = n.turned /\ m.stopped = n.stopped
             /\ IF m.transfer.phase = "idle" THEN m.fresh /\ m.presented = frame
                ELSE m.queued = frame
<1> DEFINE m == Oled!Present(n, picture)
           frame == Oled!Mapped(picture, n.turned)
           differ == {p \in Oled!Pages : ~n.fresh \/ frame[p] # n.presented[p]}
<1> USE DEF Driven
<1>1. n.turned \in BOOLEAN /\ n.presented \in Pictures /\ n.ram \in Memories
  BY DEF Moments
<1>2. frame \in Pictures /\ \A p \in Oled!Pages : Whole(frame[p])
  BY <1>1, MappedIsWhole
<1>3. CASE bus = "spi"
  <2> DEFINE sent == [p \in Oled!Pages |-> IF p \in differ THEN frame[p] ELSE n.presented[p]]
             memory == [p \in Oled!Pages |-> IF p \in differ
                                             THEN [h \in Oled!Halves |-> frame[p]] ELSE n.ram[p]]
  <2>1. m = [n EXCEPT !.fresh = TRUE, !.presented = sent, !.ram = memory]
    BY <1>3 DEF Oled!Present
  <2>2. /\ m.fresh = TRUE /\ m.presented = sent /\ m.ram = memory /\ m.screen = n.screen
        /\ m.ui = n.ui /\ m.turned = n.turned /\ m.stopped = n.stopped
        /\ m.transfer = n.transfer
    BY <2>1 DEF Moments
  <2>3. sent = frame
    BY <1>2 DEF Pictures
  <2>4. memory \in Memories
    BY <1>1, <1>2 DEF Pictures, Memories
  <2>5. m \in Moments
    <3>1. sent \in Pictures
      BY <1>2, <2>3
    <3> HIDE DEF sent, memory, m
    <3> QED BY <2>1, <2>4, <3>1, DriverUpdates
  <2>6. m.transfer.phase = "idle"
    BY <1>3, <2>2 DEF WritesInPlace
  <2>7. \A p \in Oled!Pages : Holds(m, p, frame)
    <3> SUFFICES ASSUME NEW p \in Oled!Pages PROVE Holds(m, p, frame)
      OBVIOUS
    <3>1. CASE p \in differ
      BY <2>2, <3>1 DEF Holds
    <3>2. CASE p \notin differ
      BY <1>2, <2>2, <3>2 DEF Holds, RemembersTruly
    <3> QED BY <3>1, <3>2
  <2>8. RemembersTruly(m)
    BY <2>2, <2>3, <2>7 DEF RemembersTruly
  <2> QED BY <2>2, <2>3, <2>5, <2>6, <2>8 DEF WritesInPlace
<1>4. CASE bus = "i2c"
  <2>1. m = [n EXCEPT !.queued = frame, !.transfer = [phase |-> "window", page |-> 1, half |-> 1]]
    BY <1>4 DEF Oled!Present
  <2>2. /\ m.queued = frame /\ m.transfer = [phase |-> "window", page |-> 1, half |-> 1]
        /\ m.fresh = n.fresh /\ m.presented = n.presented /\ m.ram = n.ram
        /\ m.screen = n.screen /\ m.ui = n.ui /\ m.turned = n.turned /\ m.stopped = n.stopped
    BY <2>1 DEF Moments
  <2>3. m \in Moments
    <3>1. [phase |-> "window", page |-> 1, half |-> 1] \in Transfers
      BY DEF Transfers
    <3> QED BY <1>2, <2>1, <3>1 DEF Moments
  <2>4. RemembersTruly(m)
    BY <2>2 DEF RemembersTruly, Holds
  <2>5. WritesInPlace(m, col)
    BY <1>2, <1>4, <2>2 DEF WritesInPlace, Oled!Pages
  <2> QED BY <2>2, <2>3, <2>4, <2>5
<1> QED BY <1>3, <1>4

\* The pass before it draws: what only the interface changes leaves the driver alone.
SameDriver(m, n) ==
  /\ m.queued = n.queued /\ m.presented = n.presented /\ m.fresh = n.fresh
  /\ m.transfer = n.transfer /\ m.ram = n.ram

\* What leaves the driver and the panel alone leaves the driver right.
LEMMA DriverUntouched ==
  ASSUME NEW n, NEW m \in Moments, NEW col, Driven(n, col), SameDriver(m, n)
  PROVE  Driven(m, col)
BY DEF Driven, SameDriver, RemembersTruly, WritesInPlace, Holds

\* A moment with another face or panel power is a moment.
LEMMA InterfaceUpdates ==
  ASSUME NEW n \in Moments, NEW face \in Faces, NEW power \in Panels
  PROVE  /\ [n EXCEPT !.ui = face] \in Moments
         /\ [n EXCEPT !.ui = face, !.panel = power] \in Moments
         /\ [n EXCEPT !.idle = 0, !.ui = face, !.panel = power] \in Moments
BY DEF Moments

\* Waking marks the screen for drawing and leaves the driver alone.
LEMMA WakeIsSound ==
  ASSUME NEW n, NEW col, Driven(n, col)
  PROVE  LET m == Oled!Wake(n)
         IN  /\ Driven(m, col) /\ m.ui.dirty = TRUE /\ m.turned = n.turned /\ m.screen = n.screen
             /\ m.stopped = n.stopped
<1> DEFINE m == Oled!Wake(n)
           face == [n.ui EXCEPT !.dirty = TRUE, !.off = FALSE, !.dim = FALSE, !.saver = FALSE,
                                !.rested = FALSE]
           power == [on |-> n.panel.on \/ n.ui.off, dim |-> n.panel.dim /\ ~n.ui.dim]
<1>1. n \in Moments /\ n.ui \in Faces /\ n.panel \in Panels
  BY DEF Driven, Moments
<1>2. face \in Faces /\ face.dirty = TRUE
  BY <1>1 DEF Faces
<1>3. power \in Panels
  BY <1>1 DEF Panels, Faces
<1>4. m = [n EXCEPT !.idle = 0, !.ui = face, !.panel = power]
  BY DEF Oled!Wake
<1>5. m \in Moments
  <2> HIDE DEF face, power, m
  <2> QED BY <1>1, <1>2, <1>3, <1>4, InterfaceUpdates
<1>6. /\ SameDriver(m, n) /\ m.ui = face /\ m.turned = n.turned /\ m.screen = n.screen
      /\ m.stopped = n.stopped
  BY <1>1, <1>4 DEF Moments, SameDriver
<1> QED BY <1>2, <1>5, <1>6, DriverUntouched

\* Turning the display over makes the driver forget, so that all is sent again.
LEMMA RotateIsSound ==
  ASSUME NEW n, NEW col, NEW isTurned \in BOOLEAN, Sound(n, col)
  PROVE  Sound(Oled!Rotate(n, isTurned), col)
<1> DEFINE m == Oled!Rotate(n, isTurned)
<1>1. n \in Moments /\ n.ui \in Faces
  BY DEF Sound, Driven, Moments
<1>2. CASE isTurned = n.turned
  BY <1>2 DEF Oled!Rotate
<1>3. CASE isTurned # n.turned
  <2> DEFINE face == [n.ui EXCEPT !.dirty = TRUE]
  <2>1. m = [n EXCEPT !.turned = isTurned, !.fresh = FALSE, !.transfer = Oled!Rest,
                      !.queued = Oled!Blank, !.ui = face]
    BY <1>1, <1>3 DEF Oled!Rotate, Moments
  <2>2. face \in Faces /\ face.dirty = TRUE
    BY <1>1 DEF Faces
  <2>3. Oled!Rest \in Transfers /\ Oled!Rest.phase = "idle" /\ Oled!Blank \in Pictures
    BY DEF Oled!Rest, Transfers, Oled!Blank, Oled!Cell, Pictures, Cells
  <2>4. m \in Moments /\ m.fresh = FALSE /\ m.transfer.phase = "idle" /\ m.ui.dirty = TRUE
    <3> HIDE DEF face, m
    <3> QED BY <1>1, <2>1, <2>2, <2>3 DEF Moments
  <2> QED BY <2>4 DEF Sound, Driven, RemembersTruly, WritesInPlace, AskedFor
<1> QED BY <1>2, <1>3

\* Whatever a pass meets, the screen is marked for drawing when it no longer is what
\* was presented.
LEMMA ArrivalIsSound ==
  ASSUME NEW n, NEW col, NEW what \in {"nothing", "touch", "transport", "rotation"}, Sound(n, col)
  PROVE  Sound(Oled!Arrival(n, what), col)
<1> DEFINE m == Oled!Arrival(n, what)
<1>0. n \in Moments /\ n.ui \in Faces /\ n.screen \in Looks /\ n.stopped \in BOOLEAN
  BY DEF Sound, Driven, Moments
<1>1. CASE what = "nothing"
  BY <1>1 DEF Oled!Arrival
<1>2. CASE what = "touch"
  <2> DEFINE look == IF n.screen = "a" THEN "b" ELSE "a"
             o == [n EXCEPT !.screen = look]
  <2>1. m = Oled!Wake(o)
    BY <1>2 DEF Oled!Arrival
  <2>2. look \in Looks
    BY DEF Looks
  <2>3. o \in Moments /\ SameDriver(o, n)
    <3> HIDE DEF look
    <3> QED BY <1>0, <2>2 DEF Moments, SameDriver
  <2>4. Driven(o, col)
    BY <2>3, DriverUntouched DEF Sound
  <2> QED BY <2>1, <2>4, WakeIsSound DEF Sound, AskedFor
<1>3. CASE what = "transport"
  <2> DEFINE face == [n.ui EXCEPT !.dirty = TRUE]
  <2>1. m = [n EXCEPT !.stopped = ~n.stopped, !.ui = face]
    BY <1>0, <1>3 DEF Oled!Arrival, Moments
  <2>2. face \in Faces /\ face.dirty = TRUE
    BY <1>0 DEF Faces
  <2>3. m \in Moments /\ SameDriver(m, n) /\ m.ui.dirty = TRUE
    <3> HIDE DEF face, m
    <3> QED BY <1>0, <2>1, <2>2 DEF Moments, SameDriver
  <2> QED BY <2>3, DriverUntouched DEF Sound, AskedFor
<1>4. CASE what = "rotation"
  <2>1. m = Oled!Rotate(Oled!Wake(n), ~n.turned)
    BY <1>4 DEF Oled!Arrival
  <2>2. Sound(Oled!Wake(n), col)
    BY WakeIsSound DEF Sound, AskedFor
  <2>3. (~n.turned) \in BOOLEAN
    OBVIOUS
  <2> QED BY <2>1, <2>2, <2>3, RotateIsSound
<1> QED BY <1>1, <1>2, <1>3, <1>4

\* A dirty or ticking screen is drawn, and then asked for.
LEMMA RenderIsSound ==
  ASSUME NEW n, NEW col, NEW tick \in BOOLEAN, Sound(n, col), bus \in {"spi", "i2c"}, step \in Looks
  PROVE  Sound(Oled!Render(n, tick), col)
<1> DEFINE face == [n.ui EXCEPT !.dirty = @ \/ step # n.ui.shown, !.shown = step]
           m == [n EXCEPT !.ui = face]
           drawn == Oled!Render(n, tick)
<1>1. n \in Moments /\ n.ui \in Faces /\ n.screen \in Looks
  BY DEF Sound, Driven, Moments
<1>2. /\ face \in Faces /\ face.shown = step /\ face.saver = n.ui.saver /\ face.off = n.ui.off
      /\ face.dirty = (n.ui.dirty \/ step # n.ui.shown)
  BY <1>1 DEF Faces
<1>3. m \in Moments /\ SameDriver(m, n) /\ m.ui = face /\ m.screen = n.screen /\ m.turned = n.turned
  <2> HIDE DEF face
  <2> QED BY <1>1, <1>2 DEF Moments, SameDriver
<1>4. Driven(m, col)
  BY <1>3, DriverUntouched DEF Sound
<1>5. CASE m.ui.dirty /\ (m.ui.rested \/ tick)
  <2> DEFINE clean == [face EXCEPT !.dirty = FALSE, !.rested = FALSE]
             o == [m EXCEPT !.ui = clean]
             picture == [p \in Oled!Pages |-> IF p = 1 THEN m.screen ELSE step]
  <2>1. drawn = Oled!Present(o, picture)
    BY <1>1, <1>5 DEF Oled!Render, Moments
  <2>2. clean \in Faces /\ clean.shown = step
    BY <1>2 DEF Faces
  <2>3. /\ o \in Moments /\ SameDriver(o, m) /\ o.ui = clean /\ o.screen = m.screen
        /\ o.turned = m.turned
    <3> HIDE DEF clean, m
    <3> QED BY <1>3, <2>2 DEF Moments, SameDriver
  <2>4. Driven(o, col)
    BY <1>4, <2>3, DriverUntouched
  <2>5. \A p \in Oled!Pages : picture[p] \in {"a", "b", "saver", "blank"}
    BY <1>1, <1>3 DEF Looks
  <2>6. /\ Driven(drawn, col) /\ drawn.screen = m.screen /\ drawn.ui = clean
        /\ drawn.turned = m.turned
        /\ IF drawn.transfer.phase = "idle"
           THEN drawn.fresh /\ drawn.presented = Oled!Mapped(picture, m.turned)
           ELSE drawn.queued = Oled!Mapped(picture, m.turned)
    <3> HIDE DEF clean, m, o, picture, drawn
    <3> QED BY <2>1, <2>3, <2>4, <2>5, PresentIsSound
  <2>7. Target(drawn) = Oled!Mapped(picture, m.turned)
    BY <2>2, <2>6 DEF Target
  <2> HIDE DEF clean, m, o, picture
  <2> QED BY <2>6, <2>7 DEF Sound, AskedFor
<1>6. CASE ~(m.ui.dirty /\ (m.ui.rested \/ tick))
  <2> DEFINE rested == [face EXCEPT !.rested = @ \/ tick]
  <2>1. drawn = [m EXCEPT !.ui = rested]
    BY <1>1, <1>6 DEF Oled!Render, Moments
  <2>2. /\ rested \in Faces /\ rested.shown = step /\ rested.saver = n.ui.saver
        /\ rested.off = n.ui.off /\ rested.dirty = (n.ui.dirty \/ step # n.ui.shown)
    BY <1>2 DEF Faces
  <2>3. /\ drawn \in Moments /\ SameDriver(drawn, n) /\ drawn.ui = rested
        /\ drawn.screen = n.screen /\ drawn.turned = n.turned
    <3> HIDE DEF rested, m, drawn
    <3> QED BY <1>3, <2>1, <2>2 DEF Moments, SameDriver
  <2>4. Driven(drawn, col)
    BY <2>3, DriverUntouched DEF Sound
  <2>5. AskedFor(drawn)
    <3> SUFFICES ASSUME ~rested.dirty /\ ~rested.saver /\ ~rested.off PROVE AskedFor(drawn)
      BY <2>3 DEF AskedFor
    <3>1. ~n.ui.dirty /\ step = n.ui.shown /\ ~n.ui.saver /\ ~n.ui.off
      BY <2>2
    <3>2. Target(drawn) = Target(n)
      BY <2>2, <2>3, <3>1 DEF Target
    <3> QED BY <2>3, <3>1, <3>2 DEF AskedFor, Sound, SameDriver
  <2> QED BY <2>4, <2>5 DEF Sound
<1> QED BY <1>5, <1>6

\* Protecting the panel dims it, puts it to sleep or draws the saver, and then asks for no screen.
LEMMA ProtectIsSound ==
  ASSUME NEW n, NEW col, NEW tick \in BOOLEAN, Sound(n, col), bus \in {"spi", "i2c"}
  PROVE  Sound(Oled!Protect(n, tick), col)
<1> DEFINE m == Oled!Protect(n, tick)
           dim == n.idle >= DimAfter
           face == [n.ui EXCEPT !.dim = dim]
           power == [n.panel EXCEPT !.dim = IF dim # n.ui.dim THEN dim ELSE @]
           d == [n EXCEPT !.ui = face, !.panel = power]
<1>1. n \in Moments /\ n.ui \in Faces /\ n.panel \in Panels
  BY DEF Sound, Driven, Moments
<1>2. CASE n.idle >= OffAfter
  <2> DEFINE dark == [n.ui EXCEPT !.off = TRUE]
             down == [n.panel EXCEPT !.on = @ /\ n.ui.off]
  <2>1. m = [n EXCEPT !.ui = dark, !.panel = down]
    BY <1>1, <1>2 DEF Oled!Protect, Moments
  <2>2. dark \in Faces /\ dark.off = TRUE /\ down \in Panels
    BY <1>1 DEF Faces, Panels
  <2>3. m \in Moments /\ SameDriver(m, n) /\ m.ui = dark
    <3> HIDE DEF dark, down, m
    <3> QED BY <1>1, <2>1, <2>2 DEF Moments, SameDriver
  <2> QED BY <2>2, <2>3, DriverUntouched DEF Sound, AskedFor
<1>3. /\ face \in Faces /\ face.dirty = n.ui.dirty /\ face.saver = n.ui.saver
      /\ face.off = n.ui.off /\ face.shown = n.ui.shown /\ power \in Panels
  <2>1. dim \in BOOLEAN
    OBVIOUS
  <2>2. (IF dim # n.ui.dim THEN dim ELSE n.panel.dim) \in BOOLEAN
    BY <1>1, <2>1 DEF Panels
  <2> HIDE DEF dim
  <2> QED BY <1>1, <2>1, <2>2 DEF Faces, Panels
<1>4. /\ d \in Moments /\ SameDriver(d, n) /\ d.ui = face /\ d.screen = n.screen
      /\ d.turned = n.turned
  <2> HIDE DEF face, power
  <2> QED BY <1>1, <1>3 DEF Moments, SameDriver
<1>5. Sound(d, col)
  <2>1. Driven(d, col)
    BY <1>4, DriverUntouched DEF Sound
  <2>2. Target(d) = Target(n)
    BY <1>3, <1>4 DEF Target
  <2>3. AskedFor(d)
    BY <1>3, <1>4, <2>2 DEF AskedFor, Sound, SameDriver
  <2> QED BY <2>1, <2>3 DEF Sound
<1>6. CASE ~(n.idle >= OffAfter) /\ (~Oled!Protected(n) \/ (n.ui.saver /\ ~tick))
  <2>1. m = d
    BY <1>1, <1>3, <1>4, <1>6 DEF Oled!Protect, Moments
  <2> QED BY <2>1, <1>5
<1>7. CASE ~(n.idle >= OffAfter) /\ Oled!Protected(n) /\ ~(n.ui.saver /\ ~tick)
  <2> DEFINE away == [face EXCEPT !.saver = TRUE]
             o == [d EXCEPT !.ui = away]
             picture == [p \in Oled!Pages |-> "saver"]
  <2>1. m = Oled!Present(o, picture)
    BY <1>1, <1>3, <1>4, <1>7 DEF Oled!Protect, Moments
  <2>2. away \in Faces /\ away.saver = TRUE
    BY <1>3 DEF Faces
  <2>3. o \in Moments /\ SameDriver(o, d) /\ o.ui = away
    <3> HIDE DEF away, d
    <3> QED BY <1>4, <2>2 DEF Moments, SameDriver
  <2>4. Driven(o, col)
    BY <1>5, <2>3, DriverUntouched DEF Sound
  <2>5. \A p \in Oled!Pages : picture[p] \in {"a", "b", "saver", "blank"}
    OBVIOUS
  <2>6. Driven(m, col) /\ m.ui = away
    <3> HIDE DEF away, o, picture, m
    <3> QED BY <2>1, <2>3, <2>4, <2>5, PresentIsSound
  <2> QED BY <2>2, <2>6 DEF Sound, AskedFor
<1> QED BY <1>2, <1>6, <1>7

\* What a pass draws, screen or saver.
LEMMA DrawIsSound ==
  ASSUME NEW n, NEW col, NEW tick \in BOOLEAN, Sound(n, col), bus \in {"spi", "i2c"}, step \in Looks
  PROVE  Sound(Oled!Draw(n, tick), col)
<1>1. Sound(Oled!Wake(n), col)
  BY WakeIsSound DEF Sound, AskedFor
<1>2. Sound(Oled!Protect(n, tick), col)
  BY ProtectIsSound
<1> QED BY <1>1, <1>2, RenderIsSound DEF Oled!Draw

\* The next page that differs is the first: those before it are as queued.
LEMMA FirstIsLeast ==
  ASSUME NEW S \in SUBSET Oled!Pages, S # {}
  PROVE  Oled!First(S) \in S /\ \A q \in S : Oled!First(S) <= q
<1>1. \E p \in S : \A q \in S : p <= q
  <2>1. CASE 1 \in S
    BY <2>1 DEF Oled!Pages
  <2>2. CASE 1 \notin S
    <3>1. S = {2}
      BY <2>2 DEF Oled!Pages
    <3> QED BY <3>1
  <2> QED BY <2>1, <2>2
<1> QED BY <1>1 DEF Oled!First

\* A moment with a page under way is a moment.
LEMMA PageUpdates ==
  ASSUME NEW n \in Moments, NEW t \in Transfers, NEW sent \in Pictures, NEW memory \in Memories
  PROVE  [n EXCEPT !.ram = memory, !.transfer = t, !.presented = sent] \in Moments
BY DEF Moments

\* A moment with another transfer under way, or with none, is a moment.
LEMMA TransferUpdates ==
  ASSUME NEW n \in Moments, NEW t \in Transfers
  PROVE  /\ [n EXCEPT !.transfer = t] \in Moments
         /\ [n EXCEPT !.transfer = t, !.fresh = TRUE, !.queued = Oled!Blank] \in Moments
<1>1. Oled!Blank \in Pictures
  BY DEF Oled!Blank, Oled!Cell, Pictures, Cells
<1> QED BY <1>1 DEF Moments

\* A window is opened on the first page that differs; without one the frame is there.
LEMMA WindowIsSound ==
  ASSUME NEW n, NEW outcome \in {"ok", "nak"}, column \in {1, 2}, Sound(n, column),
         n.transfer.phase = "window"
  PROVE  /\ Sound(Oled!OpenWindow(n, outcome), Oled!Pointer(n, outcome))
         /\ Oled!Pointer(n, outcome) \in {1, 2}
<1> DEFINE m == Oled!OpenWindow(n, outcome)
           D == Oled!Differing(n)
<1>1. n \in Moments /\ n.transfer \in Transfers /\ n.transfer.page \in 1..3
      /\ n.queued \in Pictures /\ n.presented \in Pictures
  BY DEF Sound, Driven, Moments, Transfers
<1>2. \A p \in Oled!Pages \ D : n.presented[p] = n.queued[p] /\ Holds(n, p, n.queued)
  <2> SUFFICES ASSUME NEW p \in Oled!Pages, p \notin D
               PROVE  n.presented[p] = n.queued[p] /\ Holds(n, p, n.queued)
    OBVIOUS
  <2>1. CASE p < n.transfer.page
    BY <2>1 DEF Sound, Driven, WritesInPlace
  <2>2. CASE ~(p < n.transfer.page)
    <3>1. p >= n.transfer.page
      BY <1>1, <2>2 DEF Oled!Pages
    <3>2. n.fresh /\ n.queued[p] = n.presented[p]
      BY <3>1 DEF Oled!Differing
    <3>3. Whole(n.presented[p])
      BY <3>2 DEF Sound, Driven, WritesInPlace
    <3> QED BY <3>2, <3>3 DEF Sound, Driven, RemembersTruly, Holds
  <2> QED BY <2>1, <2>2
<1>3. CASE D = {}
  <2>1. m = [n EXCEPT !.transfer = Oled!Rest, !.fresh = TRUE, !.queued = Oled!Blank]
    BY <1>3 DEF Oled!OpenWindow
  <2>2. Oled!Rest \in Transfers /\ Oled!Rest.phase = "idle"
    BY DEF Oled!Rest, Transfers
  <2>3. m \in Moments
    BY <1>1, <2>1, <2>2, TransferUpdates
  <2>4. /\ m.transfer.phase = "idle" /\ m.fresh /\ m.presented = n.presented /\ m.ram = n.ram
        /\ m.ui = n.ui /\ m.screen = n.screen /\ m.turned = n.turned
    BY <1>1, <2>1, <2>2 DEF Moments
  <2>5. RemembersTruly(m)
    BY <1>2, <1>3, <2>4 DEF RemembersTruly, Holds
  <2>6. n.presented = n.queued
    BY <1>1, <1>2, <1>3 DEF Pictures
  <2>7. Target(m) = Target(n)
    BY <2>4 DEF Target
  <2>8. AskedFor(m)
    BY <2>4, <2>6, <2>7 DEF Sound, AskedFor
  <2>9. Oled!Pointer(n, outcome) = column
    BY <1>3 DEF Oled!Pointer
  <2> QED BY <2>3, <2>4, <2>5, <2>8, <2>9 DEF Sound, Driven, WritesInPlace
<1>4. CASE D # {}
  <2> DEFINE t == [phase |-> IF outcome = "ok" THEN "data" ELSE "window",
                   page |-> Oled!First(D), half |-> 1]
  <2>0. D \in SUBSET Oled!Pages
    BY DEF Oled!Differing
  <2>1. Oled!First(D) \in D /\ Oled!First(D) \in {1, 2} /\ \A q \in D : Oled!First(D) <= q
    BY <1>4, <2>0, FirstIsLeast DEF Oled!Pages
  <2>2. t \in Transfers /\ t.page \in Oled!Pages
    BY <2>1 DEF Transfers, Oled!Pages
  <2>3. m = [n EXCEPT !.transfer = t]
    BY <1>4 DEF Oled!OpenWindow
  <2>4. m \in Moments
    <3> HIDE DEF t, m
    <3> QED BY <1>1, <2>2, <2>3, TransferUpdates
  <2>5. /\ m.transfer = t /\ m.fresh = n.fresh /\ m.presented = n.presented /\ m.ram = n.ram
        /\ m.queued = n.queued /\ m.ui = n.ui /\ m.screen = n.screen /\ m.turned = n.turned
    <3> HIDE DEF t
    <3> QED BY <1>1, <2>3 DEF Moments
  <2>6. RemembersTruly(m)
    BY <2>5 DEF Sound, Driven, RemembersTruly, Holds
  <2>7. \A p \in Oled!Pages : p < t.page => p \notin D
    BY <2>1 DEF Oled!Pages
  <2>8. outcome = "ok" => Oled!Pointer(n, outcome) = 1
    BY <1>4 DEF Oled!Pointer
  <2>9. WritesInPlace(m, Oled!Pointer(n, outcome))
    <3>1. bus = "i2c" /\ \A p \in Oled!Pages : Whole(n.queued[p])
      BY DEF Sound, Driven, WritesInPlace
    <3>2. \A p \in Oled!Pages :
            p < t.page => m.presented[p] = m.queued[p] /\ Holds(m, p, m.queued)
      BY <1>2, <2>5, <2>7 DEF Holds
    <3> QED BY <2>2, <2>5, <2>8, <3>1, <3>2 DEF WritesInPlace
  <2>10. Target(m) = Target(n)
    BY <2>5 DEF Target
  <2>11. AskedFor(m)
    BY <2>5, <2>10 DEF Sound, AskedFor
  <2>12. Oled!Pointer(n, outcome) \in {1, 2}
    BY <1>4 DEF Oled!Pointer
  <2> QED BY <2>4, <2>6, <2>9, <2>11, <2>12 DEF Sound, Driven
<1> QED BY <1>3, <1>4

\* A half goes where the pointer stands; a page counts when both have been taken.
LEMMA ChunkIsSound ==
  ASSUME NEW n, NEW outcome \in {"ok", "nak"}, column \in {1, 2}, Sound(n, column),
         n.transfer.phase = "data"
  PROVE  /\ Sound(Oled!SendChunk(n, outcome), Oled!Pointer(n, outcome))
         /\ Oled!Pointer(n, outcome) \in {1, 2}
<1> DEFINE m == Oled!SendChunk(n, outcome)
           t == n.transfer
           p == t.page
<1>1. n \in Moments /\ t \in Transfers /\ t.half \in {1, 2} /\ n.ram \in Memories
      /\ n.queued \in Pictures /\ n.presented \in Pictures
  BY DEF Sound, Driven, Moments, Transfers
<1>2. /\ bus = "i2c" /\ p \in Oled!Pages /\ column = t.half
      /\ \A q \in Oled!Pages : Whole(n.queued[q])
      /\ \A q \in Oled!Pages : q < p => n.presented[q] = n.queued[q] /\ Holds(n, q, n.queued)
      /\ t.half = 2 => n.ram[p][1] = n.queued[p]
  BY DEF Sound, Driven, WritesInPlace
<1>3. Oled!Pointer(n, outcome) = IF outcome = "nak" THEN column ELSE 3 - column
  BY DEF Oled!Pointer
<1>4. CASE outcome = "nak"
  <2> DEFINE memory == [n.ram EXCEPT ![p] = [n.ram[p] EXCEPT ![column] = n.ram[p][column]]]
  <2>1. m = [n EXCEPT !.ram = memory]
    BY <1>4 DEF Oled!SendChunk
  <2>2. memory = n.ram
    BY <1>1, <1>2 DEF Memories
  <2>3. m = n
    <3> HIDE DEF memory
    <3> QED BY <1>1, <2>1, <2>2 DEF Moments
  <2> QED BY <1>3, <1>4, <2>3
<1>5. CASE outcome = "ok"
  <2> DEFINE memory == [n.ram EXCEPT ![p] = [n.ram[p] EXCEPT ![column] = n.queued[p]]]
             sent == [n.presented EXCEPT ![p] = IF t.half = 2 THEN n.queued[p]
                                                ELSE Oled!Cell("mixed", FALSE)]
             u == IF t.half = 1 THEN [t EXCEPT !.half = 2]
                  ELSE [phase |-> "window", page |-> p + 1, half |-> 1]
  <2>1. m = [n EXCEPT !.ram = memory, !.transfer = u, !.presented = sent]
    BY <1>1, <1>5 DEF Oled!SendChunk, Moments
  <2>2. u \in Transfers
    BY <1>1, <1>2 DEF Transfers, Oled!Pages
  <2>3. memory \in Memories /\ sent \in Pictures
    BY <1>1, <1>2 DEF Memories, Pictures, Cells, Oled!Cell, Oled!Halves
  <2>4. m \in Moments
    <3> HIDE DEF u, memory, sent, m
    <3> QED BY <1>1, <2>1, <2>2, <2>3, PageUpdates
  <2>5. /\ m.transfer = u /\ m.fresh = n.fresh /\ m.presented = sent /\ m.ram = memory
        /\ m.queued = n.queued /\ m.ui = n.ui /\ m.screen = n.screen /\ m.turned = n.turned
    <3> HIDE DEF u, memory, sent
    <3> QED BY <1>1, <2>1 DEF Moments
  <2>6. Target(m) = Target(n)
    BY <2>5 DEF Target
  <2>7. u.phase # "idle"
    BY <1>1 DEF Transfers
  <2>8. AskedFor(m)
    BY <2>5, <2>6, <2>7 DEF Sound, AskedFor
  <2>9. \A q \in Oled!Pages : q # p => memory[q] = n.ram[q] /\ sent[q] = n.presented[q]
    BY <1>1 DEF Memories, Pictures
  <2>10. CASE t.half = 1
    <3>1. u.phase = "data" /\ u.page = p /\ u.half = 2
      BY <1>1, <2>10 DEF Transfers
    <3>2. ~Whole(sent[p]) /\ memory[p][1] = n.queued[p]
      BY <1>1, <1>2, <2>10 DEF Whole, Oled!Cell, Pictures, Memories, Oled!Halves
    <3> HIDE DEF memory, sent, u
    <3>3. RemembersTruly(m)
      BY <2>5, <2>9, <3>2 DEF Sound, Driven, RemembersTruly, Holds
    <3>4. \A q \in Oled!Pages :
            q < p => m.presented[q] = m.queued[q] /\ Holds(m, q, m.queued)
      BY <1>2, <2>5, <2>9 DEF Holds, Oled!Pages
    <3>5. Oled!Pointer(n, outcome) = 2
      BY <1>2, <1>3, <1>5, <2>10
    <3>6. WritesInPlace(m, Oled!Pointer(n, outcome))
      BY <1>2, <2>5, <3>1, <3>2, <3>4, <3>5 DEF WritesInPlace
    <3> QED BY <2>4, <2>8, <3>3, <3>5, <3>6 DEF Sound, Driven
  <2>11. CASE t.half = 2
    <3>1. u.phase = "window" /\ u.page = p + 1
      BY <2>11
    <3>2. sent[p] = n.queued[p] /\ \A h \in Oled!Halves : memory[p][h] = n.queued[p]
      BY <1>1, <1>2, <2>11 DEF Pictures, Memories, Oled!Halves
    <3> HIDE DEF memory, sent, u
    <3>3. RemembersTruly(m)
      BY <2>5, <2>9, <3>2 DEF Sound, Driven, RemembersTruly, Holds
    <3>4. \A q \in Oled!Pages : q < p + 1 => q < p \/ q = p
      BY <1>2 DEF Oled!Pages
    <3>5. \A q \in Oled!Pages :
            q < p + 1 => m.presented[q] = m.queued[q] /\ Holds(m, q, m.queued)
      BY <1>2, <2>5, <2>9, <3>2, <3>4 DEF Holds, Oled!Pages
    <3>6. WritesInPlace(m, Oled!Pointer(n, outcome))
      BY <1>2, <2>5, <3>1, <3>5 DEF WritesInPlace
    <3>7. Oled!Pointer(n, outcome) \in {1, 2}
      BY <1>2, <1>3
    <3> QED BY <2>4, <2>8, <3>3, <3>6, <3>7 DEF Sound, Driven
  <2> QED BY <1>1, <2>10, <2>11
<1> QED BY <1>4, <1>5

\* serviceTransfer, in each of its phases.
LEMMA TransferIsSound ==
  ASSUME NEW n, NEW outcome \in {"ok", "nak"}, column \in {1, 2}, Sound(n, column)
  PROVE  /\ Sound(Oled!Transfer(n, outcome), Oled!Pointer(n, outcome))
         /\ Oled!Pointer(n, outcome) \in {1, 2}
<1>1. n.transfer.phase \in {"idle", "window", "data"}
  BY DEF Sound, Driven, Moments, Transfers
<1>2. CASE n.transfer.phase = "idle"
  BY <1>2 DEF Oled!Transfer, Oled!Pointer
<1>3. CASE n.transfer.phase = "window"
  BY <1>3, WindowIsSound DEF Oled!Transfer
<1>4. CASE n.transfer.phase = "data"
  BY <1>4, ChunkIsSound DEF Oled!Transfer
<1> QED BY <1>1, <1>2, <1>3, <1>4

\* What leaves driver, panel and interface alone leaves everything right.
LEMMA SoundUntouched ==
  ASSUME NEW n, NEW m \in Moments, NEW col, Sound(n, col), SameDriver(m, n),
         m.ui = n.ui, m.screen = n.screen, m.turned = n.turned
  PROVE  Sound(m, col)
<1>1. Target(m) = Target(n)
  BY DEF Target
<1>2. AskedFor(m)
  BY <1>1 DEF Sound, AskedFor, SameDriver
<1> QED BY <1>2, DriverUntouched DEF Sound

\* At power-on nothing is presented and the screen waits to be drawn.
LEMMA OledInvInitially == ASSUME OledAssumption, Oled!Init PROVE OledInv
<1>1. /\ bus \in {"spi", "i2c"} /\ step \in Looks /\ column \in {1, 2}
      /\ screen \in Looks /\ stopped \in BOOLEAN /\ idle \in Nat /\ turned \in BOOLEAN
      /\ ui \in Faces /\ queued \in Pictures /\ presented \in Pictures /\ fresh \in BOOLEAN
      /\ transfer \in Transfers /\ panel \in Panels
  <2>1. Oled!Blank \in Pictures /\ Oled!Rest \in Transfers
    BY DEF Pictures, Cells, Oled!Blank, Oled!Cell, Transfers, Oled!Rest
  <2>2. ui \in Faces /\ panel \in Panels
    BY DEF Oled!Init, Faces, Panels, Looks
  <2> QED BY <2>1, <2>2 DEF OledAssumption, Oled!Init, Looks
<1>2. ram \in Memories
  BY DEF Oled!Init, Memories, Cells, Oled!Cell
<1>3. Oled!Now \in Moments
  BY <1>1, <1>2 DEF Oled!Now, Moments
<1>4. /\ Oled!Now.fresh = fresh /\ Oled!Now.presented = presented /\ Oled!Now.ram = ram
      /\ Oled!Now.transfer.phase = "idle" /\ Oled!Now.ui.dirty
  BY DEF Oled!Init, Oled!Now, Oled!Rest
<1>5. RemembersTruly(Oled!Now)
  BY <1>4 DEF RemembersTruly, Holds, Oled!Init, Oled!Blank
<1> QED BY <1>1, <1>3, <1>4, <1>5 DEF OledInv, Sound, Driven, WritesInPlace, AskedFor

\* Every pass keeps the invariant, and so do music and time.
LEMMA OledInvStep == ASSUME OledAssumption, OledInv, [Oled!Next]_Oled!vars PROVE OledInv'
<1> USE DEF OledAssumption
<1>1. ASSUME NEW what \in {"nothing", "touch", "transport", "rotation"}, NEW tick \in BOOLEAN,
             NEW outcome \in {"ok"} \cup Losses, Oled!Pass(what, tick, outcome)
      PROVE  OledInv'
  <2> DEFINE drawn == Oled!Draw(Oled!Arrival(Oled!Now, what), tick)
             n == Oled!Transfer(drawn, outcome)
  <2>1. /\ screen' = n.screen /\ stopped' = n.stopped /\ idle' = n.idle /\ turned' = n.turned
        /\ ui' = n.ui /\ queued' = n.queued /\ presented' = n.presented /\ fresh' = n.fresh
        /\ transfer' = n.transfer /\ ram' = n.ram /\ panel' = n.panel
        /\ column' = Oled!Pointer(drawn, outcome) /\ UNCHANGED <<bus, step>>
    BY <1>1 DEF Oled!Pass
  <2>2. Sound(drawn, column)
    BY ArrivalIsSound, DrawIsSound DEF OledInv
  <2>3. Sound(n, column') /\ column' \in {1, 2}
    BY <2>1, <2>2, TransferIsSound DEF OledInv
  <2>4. Oled!Now' = n
    <3>1. n \in Moments
      BY <2>3 DEF Sound, Driven
    <3> HIDE DEF n
    <3> QED BY <2>1, <3>1 DEF Oled!Now, Moments
  <2>5. Sound(Oled!Now', column')
    BY <2>3, <2>4
  <2>6. WritesInPlace(Oled!Now, column)'
    BY <2>1, <2>5 DEF Sound, Driven, WritesInPlace
  <2>7. RemembersTruly(Oled!Now') /\ AskedFor(Oled!Now') /\ Oled!Now' \in Moments
    BY <2>5 DEF Sound, Driven
  <2> QED BY <2>1, <2>3, <2>6, <2>7 DEF OledInv, Sound, Driven
<1>2. CASE Oled!Play \/ Oled!Minute \/ UNCHANGED Oled!vars
  <2>1. /\ UNCHANGED <<bus, column, screen, stopped, turned, ui, queued, presented, fresh,
                      transfer, ram, panel>>
        /\ step' \in Looks
    BY <1>2 DEF Oled!Play, Oled!Minute, Oled!vars, Looks, OledInv
  <2>2. idle \in Nat /\ Oled!Now \in Moments
    BY DEF OledInv, Sound, Driven, Oled!Now, Moments
  <2>3. idle' \in Nat
    BY <1>2, <2>2 DEF Oled!Play, Oled!Minute, Oled!vars
  <2>4. Oled!Now' = [Oled!Now EXCEPT !.idle = idle']
    BY <2>1 DEF Oled!Now
  <2>5. /\ Oled!Now' \in Moments /\ SameDriver(Oled!Now', Oled!Now)
        /\ (Oled!Now').ui = Oled!Now.ui /\ (Oled!Now').screen = Oled!Now.screen
        /\ (Oled!Now').turned = Oled!Now.turned
    BY <2>2, <2>3, <2>4 DEF Moments, SameDriver
  <2>6. Sound(Oled!Now', column)
    BY <2>5, SoundUntouched DEF OledInv
  <2>7. WritesInPlace(Oled!Now, column)'
    BY <2>1, <2>6 DEF Sound, Driven, WritesInPlace
  <2>8. RemembersTruly(Oled!Now') /\ AskedFor(Oled!Now') /\ Oled!Now' \in Moments
    BY <2>6 DEF Sound, Driven
  <2> QED BY <2>1, <2>7, <2>8 DEF OledInv, Sound, Driven
<1> QED BY <1>1, <1>2 DEF Oled!Next

\* Display!PanelShowsTheScreen, for any idle times, with screensavers or without, over SPI and
\* over an I2C whose transactions may fail whole: what a pass left undrawn or unsent stays
\* marked, and a page is skipped only when the panel holds it.
THEOREM PanelAlwaysShowsTheScreen ==
  OledAssumption => (Oled!Spec => []Oled!PanelShowsTheScreen)
<1> SUFFICES ASSUME OledAssumption PROVE Oled!Spec => []Oled!PanelShowsTheScreen
  OBVIOUS
<1>1. Oled!Init => OledInv
  BY OledInvInitially
<1>2. OledInv /\ [Oled!Next]_Oled!vars => OledInv'
  BY OledInvStep
<1>3. OledInv => Oled!PanelShowsTheScreen
  <2> SUFFICES ASSUME OledInv, ~ui.dirty /\ step = ui.shown /\ ~ui.saver /\ ~ui.off,
                      transfer.phase = "idle",
                      NEW p \in Oled!Pages, NEW h \in Oled!Halves
               PROVE  ram[p][h] = Oled!Mapped([q \in Oled!Pages |-> IF q = 1 THEN screen ELSE step],
                                              turned)[p]
    BY DEF Oled!PanelShowsTheScreen
  <2> DEFINE target == Oled!Mapped([q \in Oled!Pages |-> IF q = 1 THEN screen ELSE step], turned)
  <2>1. fresh /\ presented = target
    <3>1. Target(Oled!Now) = target
      BY DEF Target, Oled!Now
    <3> HIDE DEF target
    <3> QED BY <3>1 DEF OledInv, Sound, AskedFor, Oled!Now
  <2>2. Whole(target[p])
    <3>1. screen \in Looks /\ turned \in BOOLEAN /\ step \in Looks
      BY DEF OledInv, Sound, Driven, Oled!Now, Moments
    <3> QED BY <3>1, MappedIsWhole DEF Looks
  <2> HIDE DEF target
  <2>3. ram[p][h] = presented[p]
    BY <2>1, <2>2 DEF OledInv, Sound, Driven, RemembersTruly, Holds, Oled!Now
  <2> QED BY <2>1, <2>3 DEF target
<1> QED BY <1>1, <1>2, <1>3, PTL DEF Oled!Spec

-----------------------------------------------------------------------------
(* The settings. *)

EditsAssumption ==
  /\ Deltas \subseteq Int
  /\ LowestBpm \in Int /\ HighestBpm \in Int /\ LowestBpm < HighestBpm
  /\ MaxMinutes \in Nat \ {0} /\ LastRole \in Nat /\ LastRole >= 2 /\ MaxSteps \in Nat \ {0}
  /\ GrooveLengths \in Seq(Nat \ {0}) /\ GrooveLengths # <<>> /\ CustomLength \in Nat \ {0}
  /\ MaxPlain \in Nat

\* What a configuration is made of.
Grooves == [preset : Int, rotation : Int]
Euclids == [steps : Int, hits : Int, rotation : Int]
Patterns == [length : Int, rotation : Int, pattern : SUBSET Int]
Outputs ==
  [mode : {"Clock", "Euclid", "Sequencer", "Off"}, plain : Int, groove : Grooves, meter : Int,
   euclid : Euclids, sequencer : Patterns]
Tempos == [low : Int, bpm : Int, high : Int]
Times == [saver : Int, dim : Int, off : Int]
Unifieds == [plain : Int, groove : Grooves]
Configurations ==
  [topology : {"UnifiedClock", "DividerBank", "Independent"}, transport : Int, device : Int,
   tempo : Tempos, display : Times, inputs : [{1, 2} -> Int], meter : Int, sync : Int,
   unified : Unifieds, divider : Int, channels : [Channels -> Outputs]]

\* A configuration that can be restored.
Restorable(s) == s \in Configurations /\ Edits!Valid(s)

EditsInv == Restorable(state) /\ engine = Edits!Copy(state)

\* Every groove preset has a step to begin with.
LEMMA GroovesHaveSteps ==
  ASSUME EditsAssumption, NEW preset \in 0..Edits!Custom
  PROVE  Edits!Custom \in Nat /\ Edits!Length(preset) \in Nat \ {0}
<1>1. Len(GrooveLengths) \in Nat
  BY DEF EditsAssumption
<1>2. CASE preset = Len(GrooveLengths)
  BY <1>1, <1>2 DEF EditsAssumption, Edits!Custom, Edits!Length
<1>3. CASE preset # Len(GrooveLengths)
  <2>1. preset + 1 \in 1..Len(GrooveLengths)
    BY <1>1, <1>3 DEF Edits!Custom
  <2> QED BY <1>1, <1>3, <2>1 DEF EditsAssumption, Edits!Custom, Edits!Length
<1> QED BY <1>2, <1>3

\* The groove page turns a valid groove into a valid one.
LEMMA GrooveTurnsAreValid ==
  ASSUME EditsAssumption, NEW g \in Grooves, Edits!ValidGroove(g), NEW delta \in Int
  PROVE  /\ Edits!TurnPreset(g, delta) \in Grooves
         /\ Edits!ValidGroove(Edits!TurnPreset(g, delta))
         /\ Edits!TurnRotation(g, delta) \in Grooves
         /\ Edits!ValidGroove(Edits!TurnRotation(g, delta))
<1>1. Len(GrooveLengths) \in Nat /\ Edits!Custom = Len(GrooveLengths)
  BY DEF EditsAssumption, Edits!Custom
<1>2. g.preset \in Int /\ g.rotation \in Int /\ g.preset \in 0..Edits!Custom
      /\ g.rotation \in 0..Edits!Length(g.preset) - 1
  BY DEF Grooves, Edits!ValidGroove, Edits!Within
<1>3. Edits!TurnPreset(g, delta) \in Grooves /\ Edits!ValidGroove(Edits!TurnPreset(g, delta))
  <2> DEFINE preset == Edits!Clamp(g.preset + delta, 0, Edits!Custom)
             rotation == IF g.rotation >= Edits!Length(preset) THEN 0 ELSE g.rotation
  <2>1. preset \in 0..Edits!Custom
    BY <1>1, <1>2 DEF Edits!Clamp, Edits!Least
  <2>2. Edits!Length(preset) \in Nat \ {0}
    BY <2>1, GroovesHaveSteps
  <2>3. rotation \in 0..Edits!Length(preset) - 1
    BY <1>1, <1>2, <2>2, GroovesHaveSteps
  <2>4. Edits!TurnPreset(g, delta) = [preset |-> preset, rotation |-> rotation]
    BY DEF Edits!TurnPreset
  <2> HIDE DEF preset, rotation
  <2> QED BY <1>1, <2>1, <2>2, <2>3, <2>4 DEF Edits!ValidGroove, Edits!Within, Grooves
<1>4. Edits!TurnRotation(g, delta) \in Grooves /\ Edits!ValidGroove(Edits!TurnRotation(g, delta))
  <2> DEFINE rotation == Edits!Clamp(g.rotation + delta, 0, Edits!Length(g.preset) - 1)
  <2>1. Edits!Length(g.preset) \in Nat \ {0}
    BY <1>2, GroovesHaveSteps
  <2>2. rotation \in 0..Edits!Length(g.preset) - 1
    BY <1>2, <2>1 DEF Edits!Clamp, Edits!Least
  <2>3. Edits!TurnRotation(g, delta) = [g EXCEPT !.rotation = rotation]
    BY DEF Edits!TurnRotation, Grooves
  <2> HIDE DEF rotation
  <2>4. /\ Edits!TurnRotation(g, delta) \in Grooves
        /\ Edits!TurnRotation(g, delta).preset = g.preset
        /\ Edits!TurnRotation(g, delta).rotation = rotation
    BY <2>1, <2>2, <2>3 DEF Grooves
  <2> QED BY <1>2, <2>2, <2>4 DEF Edits!ValidGroove, Edits!Within
<1> QED BY <1>3, <1>4

\* The pages of a channel turn a valid channel into a valid one.
LEMMA ChannelTurnsAreValid ==
  ASSUME EditsAssumption, NEW ch \in Outputs, Edits!ValidChannel(ch), NEW delta \in Int,
         NEW t \in {Edits!TurnPlain(ch, delta), Edits!TurnSteps(ch, delta),
                    Edits!TurnHits(ch, delta), Edits!TurnEuclidRotation(ch, delta),
                    Edits!TurnLength(ch, delta), Edits!TurnSequencerRotation(ch, delta)}
  PROVE  t \in Outputs /\ Edits!ValidChannel(t)
<1>1. /\ ch.plain \in Int /\ ch.groove \in Grooves /\ ch.euclid \in Euclids
      /\ ch.sequencer \in Patterns /\ MaxPlain \in Int /\ MaxSteps \in Nat \ {0}
  BY DEF Outputs, EditsAssumption
<1>2. /\ ch.euclid.steps \in Int /\ ch.euclid.hits \in Int /\ ch.euclid.rotation \in Int
      /\ ch.sequencer.length \in Int /\ ch.sequencer.rotation \in Int
  BY <1>1 DEF Euclids, Patterns
<1>3. /\ 1 <= ch.euclid.steps /\ ch.euclid.steps <= MaxSteps
      /\ 0 <= ch.euclid.hits /\ ch.euclid.hits <= ch.euclid.steps
      /\ 0 <= ch.euclid.rotation /\ ch.euclid.rotation < ch.euclid.steps
      /\ 1 <= ch.sequencer.length /\ ch.sequencer.length <= MaxSteps
      /\ 0 <= ch.sequencer.rotation /\ ch.sequencer.rotation < ch.sequencer.length
      /\ Edits!ValidGroove(ch.groove)
  BY <1>1, <1>2 DEF Edits!ValidChannel, Edits!Within
<1>4. CASE t = Edits!TurnPlain(ch, delta)
  <2> DEFINE plain == Edits!Clamp(ch.plain + delta, 0, MaxPlain)
  <2>1. t = [ch EXCEPT !.plain = plain]
    BY <1>4 DEF Edits!TurnPlain, Outputs
  <2>2. plain \in Int
    BY <1>1 DEF Edits!Clamp, Edits!Least
  <2> HIDE DEF plain
  <2> QED BY <2>1, <2>2 DEF Outputs, Edits!ValidChannel
<1>5. ASSUME NEW e \in Euclids, t = [ch EXCEPT !.euclid = e],
             1 <= e.steps /\ e.steps <= MaxSteps /\ 0 <= e.hits /\ e.hits <= e.steps,
             0 <= e.rotation /\ e.rotation < e.steps
      PROVE  t \in Outputs /\ Edits!ValidChannel(t)
  <2>1. /\ t \in Outputs /\ t.euclid = e /\ t.groove = ch.groove /\ t.sequencer = ch.sequencer
    BY <1>1, <1>5 DEF Outputs
  <2>2. /\ e.steps \in Int /\ e.hits \in Int /\ e.rotation \in Int
    BY DEF Euclids
  <2>3. e.steps \in 1..MaxSteps /\ e.hits \in 0..e.steps /\ e.rotation \in 0..e.steps - 1
    BY <1>1, <1>5, <2>2
  <2> QED BY <2>1, <2>3 DEF Edits!ValidChannel, Edits!Within
<1>6. ASSUME NEW q \in Patterns, t = [ch EXCEPT !.sequencer = q],
             1 <= q.length /\ q.length <= MaxSteps /\ 0 <= q.rotation /\ q.rotation < q.length
      PROVE  t \in Outputs /\ Edits!ValidChannel(t)
  <2>1. /\ t \in Outputs /\ t.euclid = ch.euclid /\ t.groove = ch.groove /\ t.sequencer = q
    BY <1>1, <1>6 DEF Outputs
  <2>2. q.length \in Int /\ q.rotation \in Int
    BY DEF Patterns
  <2>3. q.length \in 1..MaxSteps /\ q.rotation \in 0..q.length - 1
    BY <1>1, <1>6, <2>2
  <2> QED BY <2>1, <2>3 DEF Edits!ValidChannel, Edits!Within
<1>7. CASE t = Edits!TurnSteps(ch, delta)
  <2> DEFINE steps == Edits!Clamp(ch.euclid.steps + delta, 1, MaxSteps)
             e == [steps |-> steps, hits |-> Edits!Least(ch.euclid.hits, steps),
                   rotation |-> IF ch.euclid.rotation >= steps THEN 0 ELSE ch.euclid.rotation]
  <2>1. t = [ch EXCEPT !.euclid = e]
    BY <1>7 DEF Edits!TurnSteps, Outputs
  <2>2. steps \in Int /\ 1 <= steps /\ steps <= MaxSteps
    BY <1>1, <1>2 DEF Edits!Clamp, Edits!Least
  <2>3. /\ e \in Euclids /\ 1 <= e.steps /\ e.steps <= MaxSteps /\ 0 <= e.hits
        /\ e.hits <= e.steps /\ 0 <= e.rotation /\ e.rotation < e.steps
    <3> HIDE DEF steps
    <3> QED BY <1>2, <1>3, <2>2 DEF Euclids, Edits!Least
  <2> HIDE DEF e
  <2> QED BY <1>5, <2>1, <2>3
<1>8. CASE t = Edits!TurnHits(ch, delta)
  <2> DEFINE hits == Edits!Clamp(ch.euclid.hits + delta, 0, ch.euclid.steps)
             e == [ch.euclid EXCEPT !.hits = hits]
  <2>1. t = [ch EXCEPT !.euclid = e]
    BY <1>1, <1>8 DEF Edits!TurnHits, Outputs, Euclids
  <2>2. hits \in Int /\ 0 <= hits /\ hits <= ch.euclid.steps
    BY <1>2, <1>3 DEF Edits!Clamp, Edits!Least
  <2>3. /\ e \in Euclids /\ e.steps = ch.euclid.steps /\ e.hits = hits
        /\ e.rotation = ch.euclid.rotation
    <3> HIDE DEF hits
    <3> QED BY <1>1, <2>2 DEF Euclids
  <2> HIDE DEF e
  <2> QED BY <1>3, <1>5, <2>1, <2>2, <2>3
<1>9. CASE t = Edits!TurnEuclidRotation(ch, delta)
  <2> DEFINE rotation == Edits!Clamp(ch.euclid.rotation + delta, 0, ch.euclid.steps - 1)
             e == [ch.euclid EXCEPT !.rotation = rotation]
  <2>1. t = [ch EXCEPT !.euclid = e]
    BY <1>1, <1>9 DEF Edits!TurnEuclidRotation, Outputs, Euclids
  <2>2. rotation \in Int /\ 0 <= rotation /\ rotation < ch.euclid.steps
    BY <1>2, <1>3 DEF Edits!Clamp, Edits!Least
  <2>3. /\ e \in Euclids /\ e.steps = ch.euclid.steps /\ e.hits = ch.euclid.hits
        /\ e.rotation = rotation
    <3> HIDE DEF rotation
    <3> QED BY <1>1, <2>2 DEF Euclids
  <2> HIDE DEF e
  <2> QED BY <1>3, <1>5, <2>1, <2>2, <2>3
<1>10. CASE t = Edits!TurnLength(ch, delta)
  <2> DEFINE length == Edits!Clamp(ch.sequencer.length + delta, 1, MaxSteps)
             rotation == IF ch.sequencer.rotation >= length THEN 0 ELSE ch.sequencer.rotation
             q == [ch.sequencer EXCEPT !.length = length, !.rotation = rotation]
  <2>1. t = [ch EXCEPT !.sequencer = q]
    BY <1>1, <1>10 DEF Edits!TurnLength, Outputs, Patterns
  <2>2. length \in Int /\ 1 <= length /\ length <= MaxSteps
    BY <1>1, <1>2 DEF Edits!Clamp, Edits!Least
  <2>3. rotation \in Int /\ 0 <= rotation /\ rotation < length
    <3> HIDE DEF length
    <3> QED BY <1>2, <1>3, <2>2
  <2>4. q \in Patterns /\ q.length = length /\ q.rotation = rotation
    <3> HIDE DEF length, rotation
    <3> QED BY <1>1, <2>2, <2>3 DEF Patterns
  <2> HIDE DEF q
  <2> QED BY <1>6, <2>1, <2>2, <2>3, <2>4
<1>11. CASE t = Edits!TurnSequencerRotation(ch, delta)
  <2> DEFINE rotation == Edits!Clamp(ch.sequencer.rotation + delta, 0, ch.sequencer.length - 1)
             q == [ch.sequencer EXCEPT !.rotation = rotation]
  <2>1. t = [ch EXCEPT !.sequencer = q]
    BY <1>1, <1>11 DEF Edits!TurnSequencerRotation, Outputs, Patterns
  <2>2. rotation \in Int /\ 0 <= rotation /\ rotation < ch.sequencer.length
    BY <1>2, <1>3 DEF Edits!Clamp, Edits!Least
  <2>3. q \in Patterns /\ q.length = ch.sequencer.length /\ q.rotation = rotation
    <3> HIDE DEF rotation
    <3> QED BY <1>1, <2>2 DEF Patterns
  <2> HIDE DEF q
  <2> QED BY <1>3, <1>6, <2>1, <2>2, <2>3
<1> QED BY <1>4, <1>7, <1>8, <1>9, <1>10, <1>11

\* What a restorable configuration consists of.
ValidTempo(t) == LowestBpm <= t.low /\ t.low <= t.bpm /\ t.bpm <= t.high /\ t.high <= HighestBpm
ValidTimes(d) == 1 <= d.saver /\ d.saver <= d.dim /\ d.dim <= d.off /\ d.off <= MaxMinutes
ValidRoles(roles) ==
  /\ roles[1] \in 0..LastRole /\ roles[2] \in 0..LastRole
  /\ roles[1] = 0 \/ roles[1] # roles[2]

\* Restorable is what the validator asks of each part.
LEMMA RestorableParts ==
  ASSUME NEW s
  PROVE  Restorable(s) <=>
           /\ s \in Configurations /\ ValidTempo(s.tempo) /\ ValidTimes(s.display)
           /\ ValidRoles(s.inputs) /\ Edits!ValidGroove(s.unified.groove)
           /\ \A c \in Channels : Edits!ValidChannel(s.channels[c])
BY DEF Restorable, Edits!Valid, ValidTempo, ValidTimes, ValidRoles

\* A setting that constrains nothing else may take any value.
LEMMA PlainEdit ==
  ASSUME NEW s, Restorable(s), NEW x \in Int
  PROVE  /\ Restorable([s EXCEPT !.meter = x]) /\ Restorable([s EXCEPT !.sync = x])
         /\ Restorable([s EXCEPT !.device = x]) /\ Restorable([s EXCEPT !.divider = x])
BY RestorableParts DEF Configurations

\* A group of settings may take any valid values of its own.
LEMMA GroupEdit ==
  ASSUME NEW s, Restorable(s)
  PROVE  /\ \A t \in Tempos : ValidTempo(t) => Restorable([s EXCEPT !.tempo = t])
         /\ \A d \in Times : ValidTimes(d) => Restorable([s EXCEPT !.display = d])
         /\ \A r \in [{1, 2} -> Int] : ValidRoles(r) => Restorable([s EXCEPT !.inputs = r])
         /\ \A u \in Unifieds :
              Edits!ValidGroove(u.groove) => Restorable([s EXCEPT !.unified = u])
         /\ \A top \in {"UnifiedClock", "DividerBank", "Independent"} :
              Restorable([s EXCEPT !.topology = top])
         /\ \A chs \in [Channels -> Outputs] :
              (\A c \in Channels : Edits!ValidChannel(chs[c])) => Restorable([s EXCEPT !.channels = chs])
<1>1. \A t \in Tempos : ValidTempo(t) => Restorable([s EXCEPT !.tempo = t])
  BY RestorableParts DEF Configurations
<1>2. \A d \in Times : ValidTimes(d) => Restorable([s EXCEPT !.display = d])
  BY RestorableParts DEF Configurations
<1>3. \A r \in [{1, 2} -> Int] : ValidRoles(r) => Restorable([s EXCEPT !.inputs = r])
  BY RestorableParts DEF Configurations
<1>4. \A u \in Unifieds : Edits!ValidGroove(u.groove) => Restorable([s EXCEPT !.unified = u])
  BY RestorableParts DEF Configurations
<1>5. \A top \in {"UnifiedClock", "DividerBank", "Independent"} :
        Restorable([s EXCEPT !.topology = top])
  BY RestorableParts DEF Configurations
<1>6. \A chs \in [Channels -> Outputs] :
        (\A c \in Channels : Edits!ValidChannel(chs[c])) => Restorable([s EXCEPT !.channels = chs])
  BY RestorableParts DEF Configurations
<1> QED BY <1>1, <1>2, <1>3, <1>4, <1>5, <1>6

\* updateConfiguration copies everything.
LEMMA WholeIsHeard ==
  ASSUME NEW s, Restorable(s), Edits!UpdateConfiguration(s)
  PROVE  EditsInv'
BY DEF EditsInv, Restorable, Edits!UpdateConfiguration, Configurations, Edits!Valid, Edits!Copy

\* updateMasterTempo copies all of the tempo that the engine has.
LEMMA TempoIsHeard ==
  ASSUME EditsInv, NEW t \in Tempos, ValidTempo(t),
         Edits!UpdateMasterTempo([state EXCEPT !.tempo = t])
  PROVE  EditsInv'
<1> DEFINE s == [state EXCEPT !.tempo = t]
<1>1. Restorable(s)
  BY GroupEdit DEF EditsInv
<1>2. /\ s.tempo = t /\ s.meter = state.meter /\ s.sync = state.sync /\ s.topology = state.topology
      /\ s.channels = state.channels /\ s.unified = state.unified /\ s.divider = state.divider
  BY DEF EditsInv, Restorable, Configurations
<1>3. state' = s /\ engine' = [engine EXCEPT !.bpm = s.tempo.bpm]
  BY DEF Edits!UpdateMasterTempo
<1> HIDE DEF s
<1>4. \A c \in Channels : Edits!Output(s, c) = Edits!Output(state, c)
  BY <1>2 DEF Edits!Output
<1>5. engine' = Edits!Copy(s)
  BY <1>2, <1>3, <1>4 DEF EditsInv, Edits!Copy
<1> QED BY <1>1, <1>3, <1>5 DEF EditsInv

\* updateChannel copies the one output that an Independent channel decides.
LEMMA ChannelIsHeard ==
  ASSUME EditsInv, state.topology = "Independent", NEW c \in Channels, NEW ch \in Outputs,
         Edits!ValidChannel(ch), Edits!UpdateChannel([state EXCEPT !.channels[c] = ch], c)
  PROVE  EditsInv'
<1> DEFINE chs == [state.channels EXCEPT ![c] = ch]
           s == [state EXCEPT !.channels = chs]
<1>1. state.channels \in [Channels -> Outputs]
      /\ \A d \in Channels : Edits!ValidChannel(state.channels[d])
  BY RestorableParts DEF EditsInv, Configurations
<1>2. chs \in [Channels -> Outputs] /\ \A d \in Channels : Edits!ValidChannel(chs[d])
  BY <1>1
<1>3. [state EXCEPT !.channels[c] = ch] = s
  BY DEF EditsInv, Restorable, Configurations
<1>4. Restorable(s)
  <2> HIDE DEF chs
  <2> QED BY <1>2, GroupEdit DEF EditsInv
<1>5. /\ s.tempo = state.tempo /\ s.meter = state.meter /\ s.sync = state.sync
      /\ s.topology = state.topology /\ s.channels = chs
  BY DEF EditsInv, Restorable, Configurations
<1>6. state' = s /\ engine' = [engine EXCEPT !.channels[c] = ch]
  BY <1>1, <1>3, <1>5 DEF Edits!UpdateChannel
<1> HIDE DEF s
<1>7. \A d \in Channels : Edits!Output(s, d) = chs[d] /\ Edits!Output(state, d) = state.channels[d]
  BY <1>5 DEF Edits!Output
<1>8. engine' = Edits!Copy(s)
  BY <1>1, <1>5, <1>6, <1>7 DEF EditsInv, Edits!Copy
<1> QED BY <1>4, <1>6, <1>8 DEF EditsInv

\* An edit of a setting that the engine has no copy of leaves its copy right.
LEMMA UnheardEdit ==
  ASSUME EditsInv, NEW s, Restorable(s), state' = s, engine' = engine,
         s.tempo = state.tempo, s.meter = state.meter, s.sync = state.sync,
         s.topology = state.topology, s.channels = state.channels, s.unified = state.unified,
         s.divider = state.divider
  PROVE  EditsInv'
<1>1. \A c \in Channels : Edits!Output(s, c) = Edits!Output(state, c)
  BY DEF Edits!Output
<1>2. Edits!Copy(s) = Edits!Copy(state)
  BY <1>1 DEF Edits!Copy
<1> QED BY <1>2 DEF EditsInv

\* The master page: the limits of the tempo keep it between them.
LEMMA MasterStep ==
  ASSUME EditsAssumption, EditsInv, NEW delta \in Int, Edits!AdjustMaster(delta)
  PROVE  EditsInv'
<1>1. /\ state.tempo \in Tempos /\ state.tempo.low \in Int /\ state.tempo.bpm \in Int
      /\ state.tempo.high \in Int /\ ValidTempo(state.tempo)
      /\ LowestBpm \in Int /\ HighestBpm \in Int /\ MaxPlain \in Int /\ state.meter \in Int
  <2>1. state \in Configurations /\ ValidTempo(state.tempo)
    BY RestorableParts DEF EditsInv
  <2>2. state.tempo \in Tempos /\ state.meter \in Int
    BY <2>1 DEF Configurations
  <2>3. LowestBpm \in Int /\ HighestBpm \in Int /\ MaxPlain \in Int
    BY DEF EditsAssumption
  <2> QED BY <2>1, <2>2, <2>3 DEF Tempos
<1>2. CASE Edits!UpdateMasterTempo(Edits!TurnTempo(state, delta))
  <2> DEFINE t == [state.tempo EXCEPT
                     !.bpm = Edits!Clamp(state.tempo.bpm + delta, state.tempo.low, state.tempo.high)]
  <2>1. Edits!TurnTempo(state, delta) = [state EXCEPT !.tempo = t]
    BY <1>1 DEF Edits!TurnTempo, EditsInv, Restorable, Configurations, Tempos
  <2>2. t \in Tempos /\ ValidTempo(t)
    BY <1>1 DEF Tempos, ValidTempo, Edits!Clamp, Edits!Least
  <2> HIDE DEF t
  <2> QED BY <1>2, <2>1, <2>2, TempoIsHeard
<1>3. CASE Edits!UpdateMasterTempo(Edits!TurnLowest(state, delta))
  <2> DEFINE low == Edits!Clamp(state.tempo.low + delta, LowestBpm, state.tempo.high)
             t == [state.tempo EXCEPT !.low = low,
                     !.bpm = Edits!Clamp(state.tempo.bpm, low, state.tempo.high)]
  <2>1. Edits!TurnLowest(state, delta) = [state EXCEPT !.tempo = t]
    BY <1>1 DEF Edits!TurnLowest, EditsInv, Restorable, Configurations, Tempos
  <2>2. low \in Int /\ LowestBpm <= low /\ low <= state.tempo.high
    BY <1>1 DEF ValidTempo, Edits!Clamp, Edits!Least
  <2>3. t \in Tempos /\ ValidTempo(t)
    <3> DEFINE chosen == Edits!Clamp(state.tempo.bpm, low, state.tempo.high)
    <3> HIDE DEF low
    <3>1. chosen \in Int /\ low <= chosen /\ chosen <= state.tempo.high
      BY <1>1, <2>2 DEF Edits!Clamp, Edits!Least
    <3>2. t \in Tempos /\ t.low = low /\ t.bpm = chosen /\ t.high = state.tempo.high
      BY <1>1, <2>2, <3>1 DEF Tempos
    <3> HIDE DEF t, chosen
    <3> QED BY <1>1, <2>2, <3>1, <3>2 DEF ValidTempo
  <2> HIDE DEF t
  <2> QED BY <1>3, <2>1, <2>3, TempoIsHeard
<1>4. CASE Edits!UpdateMasterTempo(Edits!TurnHighest(state, delta))
  <2> DEFINE high == Edits!Clamp(state.tempo.high + delta, state.tempo.low, HighestBpm)
             t == [state.tempo EXCEPT !.high = high,
                     !.bpm = Edits!Clamp(state.tempo.bpm, state.tempo.low, high)]
  <2>1. Edits!TurnHighest(state, delta) = [state EXCEPT !.tempo = t]
    BY <1>1 DEF Edits!TurnHighest, EditsInv, Restorable, Configurations, Tempos
  <2>2. high \in Int /\ state.tempo.low <= high /\ high <= HighestBpm
    BY <1>1 DEF ValidTempo, Edits!Clamp, Edits!Least
  <2>3. t \in Tempos /\ ValidTempo(t)
    <3> DEFINE chosen == Edits!Clamp(state.tempo.bpm, state.tempo.low, high)
    <3> HIDE DEF high
    <3>1. chosen \in Int /\ state.tempo.low <= chosen /\ chosen <= high
      BY <1>1, <2>2 DEF Edits!Clamp, Edits!Least
    <3>2. t \in Tempos /\ t.low = state.tempo.low /\ t.bpm = chosen /\ t.high = high
      BY <1>1, <2>2, <3>1 DEF Tempos
    <3> HIDE DEF t, chosen
    <3> QED BY <1>1, <2>2, <3>1, <3>2 DEF ValidTempo
  <2> HIDE DEF t
  <2> QED BY <1>4, <2>1, <2>3, TempoIsHeard
<1>5. CASE Edits!UpdateConfiguration([state EXCEPT !.meter = Edits!Clamp(@ + delta, 0, MaxPlain)])
  <2>1. Edits!Clamp(state.meter + delta, 0, MaxPlain) \in Int
    BY <1>1 DEF Edits!Clamp, Edits!Least
  <2>2. Restorable([state EXCEPT !.meter = Edits!Clamp(state.meter + delta, 0, MaxPlain)])
    BY <2>1, PlainEdit DEF EditsInv
  <2> QED BY <1>5, <2>2, WholeIsHeard
<1> QED BY <1>2, <1>3, <1>4, <1>5 DEF Edits!AdjustMaster

\* A tempo that is tapped lies within the tempo range.
LEMMA TapStep ==
  ASSUME EditsAssumption, EditsInv, NEW chosen \in state.tempo.low..state.tempo.high,
         Edits!TapTempo(chosen)
  PROVE  EditsInv'
<1> DEFINE t == [state.tempo EXCEPT !.bpm = chosen]
<1>1. /\ state.tempo \in Tempos /\ state.tempo.low \in Int /\ state.tempo.high \in Int
      /\ ValidTempo(state.tempo)
  BY RestorableParts DEF EditsInv, Configurations, Tempos
<1>2. [state EXCEPT !.tempo.bpm = chosen] = [state EXCEPT !.tempo = t]
  BY <1>1 DEF EditsInv, Restorable, Configurations, Tempos
<1>3. t \in Tempos /\ ValidTempo(t)
  BY <1>1 DEF Tempos, ValidTempo
<1>4. Restorable([state EXCEPT !.tempo = t])
  <2> HIDE DEF t
  <2> QED BY <1>3, GroupEdit DEF EditsInv
<1> HIDE DEF t
<1> QED BY <1>2, <1>4, WholeIsHeard DEF Edits!TapTempo

\* The pages of plain settings.
LEMMA PlainStep ==
  ASSUME EditsAssumption, EditsInv, NEW delta \in Int,
         \/ Edits!AdjustSync(delta) \/ Edits!AdjustHardware(delta) \/ Edits!AdjustUnified(delta)
         \/ Edits!AdjustDividerBank(delta)
  PROVE  EditsInv'
<1>1. /\ state.sync \in Int /\ state.device \in Int /\ state.divider \in Int
      /\ state.unified \in Unifieds /\ state.unified.plain \in Int /\ MaxPlain \in Int
      /\ Edits!ValidGroove(state.unified.groove)
  <2>1. state \in Configurations /\ Edits!ValidGroove(state.unified.groove)
    BY RestorableParts DEF EditsInv
  <2>2. /\ state.sync \in Int /\ state.device \in Int /\ state.divider \in Int
        /\ state.unified \in Unifieds
    BY <2>1 DEF Configurations
  <2> QED BY <2>1, <2>2 DEF EditsAssumption, Unifieds
<1>2. CASE Edits!AdjustSync(delta)
  <2>1. Edits!Clamp(state.sync + delta, 0, MaxPlain) \in Int
    BY <1>1 DEF Edits!Clamp, Edits!Least
  <2>2. Restorable([state EXCEPT !.sync = Edits!Clamp(state.sync + delta, 0, MaxPlain)])
    BY <2>1, PlainEdit DEF EditsInv
  <2> QED BY <1>2, <2>2, WholeIsHeard DEF Edits!AdjustSync
<1>3. CASE Edits!AdjustHardware(delta)
  <2> DEFINE s == [state EXCEPT !.device = Edits!Clamp(state.device + delta, 0, 1)]
  <2>1. Edits!Clamp(state.device + delta, 0, 1) \in Int
    BY <1>1 DEF Edits!Clamp, Edits!Least
  <2>2. Restorable(s) /\ state' = s /\ engine' = engine
    BY <1>3, <2>1, PlainEdit DEF EditsInv, Edits!AdjustHardware
  <2>3. /\ s.tempo = state.tempo /\ s.meter = state.meter /\ s.sync = state.sync
        /\ s.topology = state.topology /\ s.channels = state.channels /\ s.unified = state.unified
        /\ s.divider = state.divider
    BY DEF EditsInv, Restorable, Configurations
  <2> HIDE DEF s
  <2> QED BY <2>2, <2>3, UnheardEdit
<1>4. CASE Edits!AdjustUnified(delta)
  <2> DEFINE u == [state.unified EXCEPT !.plain = Edits!Clamp(state.unified.plain + delta, 0, MaxPlain)]
  <2>1. [state EXCEPT !.unified.plain = Edits!Clamp(@ + delta, 0, MaxPlain)]
          = [state EXCEPT !.unified = u]
    BY <1>1 DEF EditsInv, Restorable, Configurations, Unifieds
  <2>2. u \in Unifieds /\ u.groove = state.unified.groove
    BY <1>1 DEF Unifieds, Edits!Clamp, Edits!Least
  <2>3. Restorable([state EXCEPT !.unified = u])
    <3> HIDE DEF u
    <3> QED BY <1>1, <2>2, GroupEdit DEF EditsInv
  <2> HIDE DEF u
  <2> QED BY <1>4, <2>1, <2>3, WholeIsHeard DEF Edits!AdjustUnified
<1>5. CASE Edits!AdjustDividerBank(delta)
  <2>1. Edits!Clamp(state.divider + delta, 0, MaxPlain) \in Int
    BY <1>1 DEF Edits!Clamp, Edits!Least
  <2>2. Restorable([state EXCEPT !.divider = Edits!Clamp(state.divider + delta, 0, MaxPlain)])
    BY <2>1, PlainEdit DEF EditsInv
  <2> QED BY <1>5, <2>2, WholeIsHeard DEF Edits!AdjustDividerBank
<1> QED BY <1>2, <1>3, <1>4, <1>5

\* The times of the display stay in order.
LEMMA TimesStep ==
  ASSUME EditsAssumption, EditsInv, NEW delta \in Int, Edits!AdjustScreensaver(delta)
  PROVE  EditsInv'
<1> DEFINE d == state.display
<1>1. /\ d \in Times /\ d.saver \in Int /\ d.dim \in Int /\ d.off \in Int /\ ValidTimes(d)
      /\ MaxMinutes \in Int
  <2>1. state \in Configurations /\ ValidTimes(d)
    BY RestorableParts DEF EditsInv
  <2>2. d \in Times
    BY <2>1 DEF Configurations
  <2> QED BY <2>1, <2>2 DEF EditsAssumption, Times
<1>2. PICK t \in {[d EXCEPT !.saver = Edits!Clamp(@ + delta, 1, d.dim)],
                  [d EXCEPT !.dim = Edits!Clamp(@ + delta, d.saver, d.off)],
                  [d EXCEPT !.off = Edits!Clamp(@ + delta, d.dim, MaxMinutes)]} :
        state' = [state EXCEPT !.display = t] /\ engine' = engine
  BY DEF Edits!AdjustScreensaver
<1>3. t \in Times /\ ValidTimes(t)
  BY <1>1 DEF Times, ValidTimes, Edits!Clamp, Edits!Least
<1> DEFINE s == [state EXCEPT !.display = t]
<1>4. Restorable(s) /\ state' = s
  BY <1>2, <1>3, GroupEdit DEF EditsInv
<1>5. /\ s.tempo = state.tempo /\ s.meter = state.meter /\ s.sync = state.sync
      /\ s.topology = state.topology /\ s.channels = state.channels /\ s.unified = state.unified
      /\ s.divider = state.divider
  BY DEF EditsInv, Restorable, Configurations
<1> HIDE DEF s
<1> QED BY <1>2, <1>4, <1>5, UnheardEdit

\* However far a turn goes, it passes over the role of the other input.
LEMMA TurnedIsFree ==
  ASSUME EditsAssumption, NEW role \in 0..LastRole, NEW other \in 0..LastRole, NEW delta \in Int
  PROVE  /\ Edits!Turned(role, other, delta) \in 0..LastRole
         /\ Edits!Turned(role, other, delta) = 0 \/ Edits!Turned(role, other, delta) # other
BY DEF EditsAssumption, Edits!Turned, Edits!Place, Edits!RoleAt, Edits!Clamp, Edits!Least

\* The two inputs never get the same role.
LEMMA RolesStep ==
  ASSUME EditsAssumption, EditsInv, NEW delta \in Int, NEW i \in {1, 2}, Edits!AdjustInput(i, delta)
  PROVE  EditsInv'
<1> DEFINE role == Edits!Turned(state.inputs[i], state.inputs[3 - i], delta)
           roles == [state.inputs EXCEPT ![i] = role]
           s == [state EXCEPT !.inputs = roles]
<1>1. state.inputs \in [{1, 2} -> Int] /\ ValidRoles(state.inputs) /\ 3 - i \in {1, 2}
  BY RestorableParts DEF EditsInv, Configurations
<1>2. role \in 0..LastRole /\ (role = 0 \/ role # state.inputs[3 - i])
  BY <1>1, TurnedIsFree DEF ValidRoles
<1>3. roles \in [{1, 2} -> Int] /\ ValidRoles(roles)
  <2> HIDE DEF role
  <2> QED BY <1>1, <1>2 DEF ValidRoles, EditsAssumption
<1>4. state' = s /\ engine' = engine
  BY <1>1 DEF Edits!AdjustInput, EditsInv, Restorable, Configurations
<1>5. Restorable(s)
  <2> HIDE DEF roles
  <2> QED BY <1>3, GroupEdit DEF EditsInv
<1>6. /\ s.tempo = state.tempo /\ s.meter = state.meter /\ s.sync = state.sync
      /\ s.topology = state.topology /\ s.channels = state.channels /\ s.unified = state.unified
      /\ s.divider = state.divider
  BY DEF EditsInv, Restorable, Configurations
<1> HIDE DEF s
<1> QED BY <1>4, <1>5, <1>6, UnheardEdit

\* A groove that is played is one of the unified clock or of an Independent channel.
LEMMA GrooveIsHeard ==
  ASSUME EditsInv, NEW c \in Channels, NEW g \in Grooves, Edits!ValidGroove(g),
         state.topology # "DividerBank", Edits!PlayGroove(c, g)
  PROVE  EditsInv'
<1>1. /\ state \in Configurations /\ state.unified \in Unifieds
      /\ state.channels \in [Channels -> Outputs] /\ state.channels[c] \in Outputs
      /\ Edits!ValidChannel(state.channels[c])
  <2>1. state \in Configurations /\ Edits!ValidChannel(state.channels[c])
    BY RestorableParts DEF EditsInv
  <2> QED BY <2>1 DEF Configurations
<1>2. CASE state.topology = "UnifiedClock"
  <2> DEFINE u == [state.unified EXCEPT !.groove = g]
  <2>1. [state EXCEPT !.unified.groove = g] = [state EXCEPT !.unified = u]
    BY <1>1 DEF Configurations, Unifieds
  <2>2. u \in Unifieds /\ u.groove = g
    BY <1>1 DEF Unifieds
  <2>3. Restorable([state EXCEPT !.unified = u])
    <3> HIDE DEF u
    <3> QED BY <2>2, GroupEdit DEF EditsInv
  <2> HIDE DEF u
  <2> QED BY <1>2, <2>1, <2>3, WholeIsHeard DEF Edits!PlayGroove
<1>3. CASE state.topology # "UnifiedClock"
  <2> DEFINE ch == [state.channels[c] EXCEPT !.groove = g]
  <2>1. state.topology = "Independent"
    BY <1>1, <1>3 DEF Configurations
  <2>2. [state EXCEPT !.channels[c].groove = g] = [state EXCEPT !.channels[c] = ch]
    BY <1>1 DEF Configurations, Outputs
  <2>3. /\ ch \in Outputs /\ ch.groove = g /\ ch.euclid = state.channels[c].euclid
        /\ ch.sequencer = state.channels[c].sequencer
    BY <1>1 DEF Outputs
  <2> HIDE DEF ch
  <2>4. Edits!ValidChannel(ch)
    BY <1>1, <2>3 DEF Edits!ValidChannel
  <2>5. Edits!UpdateChannel([state EXCEPT !.channels[c] = ch], c)
    BY <1>3, <2>2 DEF Edits!PlayGroove
  <2> QED BY <2>1, <2>3, <2>4, <2>5, ChannelIsHeard
<1> QED BY <1>2, <1>3

\* The custom groove, from its first step, and no groove are valid.
LEMMA FirstStepsAreValid ==
  ASSUME EditsAssumption
  PROVE  /\ [preset |-> Edits!Custom, rotation |-> 0] \in Grooves
         /\ Edits!ValidGroove([preset |-> Edits!Custom, rotation |-> 0])
         /\ Edits!NoGroove \in Grooves /\ Edits!ValidGroove(Edits!NoGroove)
<1>1. Len(GrooveLengths) \in Nat /\ Edits!Custom = Len(GrooveLengths)
  BY DEF EditsAssumption, Edits!Custom
<1>2. 0 \in 0..Edits!Custom /\ Edits!Custom \in 0..Edits!Custom
  BY <1>1
<1>3. Edits!Length(0) \in Nat \ {0} /\ Edits!Length(Edits!Custom) \in Nat \ {0}
  BY <1>2, GroovesHaveSteps
<1>4. 0 \in Edits!Within(Edits!Length(0)) /\ 0 \in Edits!Within(Edits!Length(Edits!Custom))
  BY <1>3 DEF Edits!Within
<1> QED BY <1>1, <1>2, <1>4 DEF Grooves, Edits!ValidGroove, Edits!NoGroove

\* The groove page, the selection of a groove and its deletion.
LEMMA GrooveStep ==
  ASSUME EditsAssumption, EditsInv,
         \/ \E c \in Channels : \/ \E delta \in Deltas : Edits!AdjustGroove(c, delta)
                                \/ Edits!ActivateGroove(c)
         \/ Edits!RemoveGroove
  PROVE  EditsInv'
<1>0. /\ state \in Configurations /\ state.unified \in Unifieds /\ state.unified.groove \in Grooves
      /\ state.channels \in [Channels -> Outputs]
      /\ \A c \in Channels : state.channels[c].groove \in Grooves
      /\ Edits!ValidGroove(state.unified.groove)
      /\ \A c \in Channels : Edits!ValidChannel(state.channels[c])
  <2>1. /\ state \in Configurations /\ Edits!ValidGroove(state.unified.groove)
        /\ \A c \in Channels : Edits!ValidChannel(state.channels[c])
    BY RestorableParts DEF EditsInv
  <2>2. state.unified \in Unifieds /\ state.channels \in [Channels -> Outputs]
    BY <2>1 DEF Configurations
  <2> QED BY <2>1, <2>2 DEF Unifieds, Outputs
<1>1. ASSUME NEW c \in Channels, NEW delta \in Deltas, Edits!AdjustGroove(c, delta)
      PROVE  EditsInv'
  <2> DEFINE g == IF state.topology = "UnifiedClock" THEN state.unified.groove
                  ELSE state.channels[c].groove
  <2>1. g \in Grooves /\ Edits!ValidGroove(g) /\ delta \in Int
    BY <1>0 DEF Edits!ValidChannel, EditsAssumption
  <2>2. PICK t \in {Edits!TurnPreset(g, delta), Edits!TurnRotation(g, delta)} :
          Edits!PlayGroove(c, t) /\ state.topology # "DividerBank"
    BY <1>1 DEF Edits!AdjustGroove
  <2> HIDE DEF g
  <2>3. t \in Grooves /\ Edits!ValidGroove(t)
    BY <2>1, <2>2, GrooveTurnsAreValid
  <2> QED BY <2>2, <2>3, GrooveIsHeard
<1>2. ASSUME NEW c \in Channels, Edits!ActivateGroove(c) PROVE EditsInv'
  BY <1>2, FirstStepsAreValid, GrooveIsHeard DEF Edits!ActivateGroove
<1>3. CASE Edits!RemoveGroove
  <2> DEFINE u == [state.unified EXCEPT !.groove = Edits!Detached(state.unified.groove)]
             chs == [c \in Channels |-> [state.channels[c] EXCEPT
                                          !.groove = Edits!Detached(state.channels[c].groove)]]
             s == [[state EXCEPT !.unified = u] EXCEPT !.channels = chs]
  <2>1. Edits!UpdateConfiguration(s)
    <3>1. [state EXCEPT !.unified.groove = Edits!Detached(@),
                        !.channels = [c \in Channels |->
                                        [state.channels[c] EXCEPT !.groove = Edits!Detached(@)]]]
            = s
      BY <1>0 DEF Configurations, Unifieds, Outputs
    <3> HIDE DEF s
    <3> QED BY <1>3, <3>1 DEF Edits!RemoveGroove
  <2>2. \A g \in Grooves : Edits!ValidGroove(g) =>
          Edits!Detached(g) \in Grooves /\ Edits!ValidGroove(Edits!Detached(g))
    BY FirstStepsAreValid DEF Edits!Detached
  <2>3. u \in Unifieds /\ Edits!ValidGroove(u.groove)
    <3>1. u \in Unifieds /\ u.groove = Edits!Detached(state.unified.groove)
      BY <1>0, <2>2 DEF Unifieds
    <3> HIDE DEF u
    <3> QED BY <1>0, <2>2, <3>1
  <2>4. ASSUME NEW c \in Channels PROVE chs[c] \in Outputs /\ Edits!ValidChannel(chs[c])
    <3> DEFINE g == Edits!Detached(state.channels[c].groove)
    <3>1. g \in Grooves /\ Edits!ValidGroove(g)
      BY <1>0, <2>2 DEF Edits!ValidChannel
    <3>2. chs[c] = [state.channels[c] EXCEPT !.groove = g]
      OBVIOUS
    <3> HIDE DEF g, chs
    <3>3. /\ chs[c] \in Outputs /\ chs[c].groove = g /\ chs[c].euclid = state.channels[c].euclid
          /\ chs[c].sequencer = state.channels[c].sequencer
      BY <1>0, <3>1, <3>2 DEF Outputs
    <3> QED BY <1>0, <3>1, <3>3 DEF Edits!ValidChannel
  <2>5. chs \in [Channels -> Outputs]
    <3>1. \A c \in Channels : chs[c] \in Outputs
      BY <2>4
    <3>2. chs = [c \in Channels |-> chs[c]]
      OBVIOUS
    <3> HIDE DEF chs
    <3> QED BY <3>1, <3>2
  <2>6. Restorable(s)
    <3> HIDE DEF u, chs
    <3>1. Restorable([state EXCEPT !.unified = u])
      BY <2>3, GroupEdit DEF EditsInv
    <3> QED BY <2>4, <2>5, <3>1, GroupEdit
  <2> HIDE DEF s
  <2> QED BY <2>1, <2>6, WholeIsHeard
<1> QED BY <1>1, <1>2, <1>3

\* A channel's own pages, its steps and its sequencer commands.
LEMMA ChannelStep ==
  ASSUME EditsAssumption, EditsInv, NEW c \in Channels,
         \/ \E delta \in Deltas : Edits!AdjustChannel(c, delta)
         \/ \E place \in Edits!Within(MaxSteps) : Edits!ToggleStep(c, place)
         \/ Edits!SequencerCommand(c)
  PROVE  EditsInv'
<1> DEFINE ch == state.channels[c]
<1>0. /\ state.channels \in [Channels -> Outputs] /\ ch \in Outputs /\ Edits!ValidChannel(ch)
      /\ ch.sequencer \in Patterns /\ ch.sequencer.pattern \subseteq Int
      /\ ch.sequencer.length \in Int /\ state \in Configurations
  <2>1. state \in Configurations /\ Edits!ValidChannel(ch)
    BY RestorableParts DEF EditsInv
  <2>2. state.channels \in [Channels -> Outputs]
    BY <2>1 DEF Configurations
  <2>3. ch \in Outputs
    BY <2>2
  <2>4. ch.sequencer \in Patterns
    BY <2>3 DEF Outputs
  <2> QED BY <2>1, <2>2, <2>3, <2>4 DEF Patterns
<1>1. ASSUME NEW delta \in Deltas, Edits!AdjustChannel(c, delta) PROVE EditsInv'
  <2>1. PICK t \in {Edits!TurnPlain(ch, delta), Edits!TurnSteps(ch, delta),
                    Edits!TurnHits(ch, delta), Edits!TurnEuclidRotation(ch, delta),
                    Edits!TurnLength(ch, delta), Edits!TurnSequencerRotation(ch, delta)} :
          /\ Edits!UpdateChannel([state EXCEPT !.channels[c] = t], c)
          /\ state.topology = "Independent"
    BY <1>1 DEF Edits!AdjustChannel
  <2>2. delta \in Int
    BY DEF EditsAssumption
  <2> HIDE DEF ch
  <2>3. t \in Outputs /\ Edits!ValidChannel(t)
    BY <1>0, <2>1, <2>2, ChannelTurnsAreValid
  <2> QED BY <2>1, <2>3, ChannelIsHeard
<1>2. ASSUME NEW p \in SUBSET Int, state.topology = "Independent",
             Edits!UpdateChannel([state EXCEPT !.channels[c].sequencer.pattern = p], c)
      PROVE  EditsInv'
  <2> DEFINE q == [ch.sequencer EXCEPT !.pattern = p]
             t == [ch EXCEPT !.sequencer = q]
  <2>1. q \in Patterns /\ q.length = ch.sequencer.length /\ q.rotation = ch.sequencer.rotation
    BY <1>0 DEF Patterns
  <2>2. /\ t \in Outputs /\ t.groove = ch.groove /\ t.euclid = ch.euclid /\ t.sequencer = q
    <3> HIDE DEF q
    <3> QED BY <1>0, <2>1 DEF Outputs
  <2>3. [state EXCEPT !.channels[c].sequencer.pattern = p] = [state EXCEPT !.channels[c] = t]
    BY <1>0 DEF Configurations, Outputs, Patterns
  <2> HIDE DEF q, t
  <2>4. Edits!ValidChannel(t)
    BY <1>0, <2>1, <2>2 DEF Edits!ValidChannel
  <2> QED BY <1>2, <2>2, <2>3, <2>4, ChannelIsHeard
<1>3. ASSUME NEW place \in Edits!Within(MaxSteps), Edits!ToggleStep(c, place) PROVE EditsInv'
  <2> DEFINE p == IF place \in ch.sequencer.pattern THEN ch.sequencer.pattern \ {place}
                  ELSE ch.sequencer.pattern \cup {place}
  <2>1. p \in SUBSET Int
    BY <1>0 DEF Edits!Within
  <2>2. /\ state.topology = "Independent"
        /\ Edits!UpdateChannel([state EXCEPT !.channels[c].sequencer.pattern = p], c)
    BY <1>3 DEF Edits!ToggleStep
  <2> HIDE DEF p, ch
  <2> QED BY <1>2, <2>1, <2>2
<1>4. CASE Edits!SequencerCommand(c)
  <2> DEFINE in == Edits!Within(ch.sequencer.length)
  <2>1. PICK p \in {in \ ch.sequencer.pattern, {}, {i \in in : i % 2 = 0}}
                     \cup (IF clipboard = None THEN {} ELSE {clipboard \cap in}) :
          /\ state.topology = "Independent"
          /\ Edits!UpdateChannel([state EXCEPT !.channels[c].sequencer.pattern = p], c)
    BY <1>4 DEF Edits!SequencerCommand
  <2>2. p \in SUBSET Int
    BY <1>0, <2>1 DEF Edits!Within
  <2> HIDE DEF ch
  <2> QED BY <1>2, <2>1, <2>2
<1> QED BY <1>1, <1>3, <1>4

\* The factory's channels are valid.
LEMMA BlankIsValid ==
  ASSUME EditsAssumption PROVE Edits!Blank \in Outputs /\ Edits!ValidChannel(Edits!Blank)
<1>1. [steps |-> MaxSteps, hits |-> 1, rotation |-> 0] \in Euclids
      /\ [length |-> MaxSteps, rotation |-> 0, pattern |-> {0}] \in Patterns
  BY DEF Euclids, Patterns, EditsAssumption
<1>2. MaxSteps \in 1..MaxSteps /\ 1 \in 0..MaxSteps /\ 0 \in 0..MaxSteps - 1
  BY DEF EditsAssumption
<1> QED BY <1>1, <1>2, FirstStepsAreValid
        DEF Edits!Blank, Outputs, Edits!ValidChannel, Edits!Within

\* The factory's configuration is restorable.
LEMMA FactoryIsRestorable == ASSUME EditsAssumption PROVE Restorable(Edits!Factory)
<1> DEFINE f == Edits!Factory
<1>1. /\ f.tempo \in Tempos /\ ValidTempo(f.tempo) /\ f.display \in Times /\ ValidTimes(f.display)
  BY DEF Edits!Factory, EditsAssumption, Tempos, Times, ValidTempo, ValidTimes
<1>2. f.inputs \in [{1, 2} -> Int] /\ ValidRoles(f.inputs)
  BY DEF Edits!Factory, EditsAssumption, ValidRoles
<1>3. f.unified \in Unifieds /\ Edits!ValidGroove(f.unified.groove)
  BY FirstStepsAreValid DEF Edits!Factory, Unifieds
<1>4. /\ f.channels \in [Channels -> Outputs]
      /\ \A c \in Channels : Edits!ValidChannel(f.channels[c])
  BY BlankIsValid DEF Edits!Factory
<1>5. f = [topology |-> "UnifiedClock", transport |-> 0, device |-> 0, tempo |-> f.tempo,
           display |-> f.display, inputs |-> f.inputs, meter |-> 0, sync |-> 0,
           unified |-> f.unified, divider |-> 0, channels |-> f.channels]
  BY DEF Edits!Factory
<1> HIDE DEF f
<1>6. f \in Configurations
  BY <1>1, <1>2, <1>3, <1>4, <1>5 DEF Configurations
<1> QED BY <1>1, <1>2, <1>3, <1>4, <1>6, RestorableParts DEF f

\* A change of mode and a template leave a restorable configuration.
LEMMA WholeStep ==
  ASSUME EditsAssumption, EditsInv,
         (\E c \in Channels : Edits!SetMode(c)) \/ Edits!ApplyTemplate
  PROVE  EditsInv'
<1>0. /\ state \in Configurations /\ state.channels \in [Channels -> Outputs]
      /\ \A c \in Channels : Edits!ValidChannel(state.channels[c])
  <2>1. state \in Configurations /\ \A c \in Channels : Edits!ValidChannel(state.channels[c])
    BY RestorableParts DEF EditsInv
  <2> QED BY <2>1 DEF Configurations
<1>1. ASSUME NEW top \in {"UnifiedClock", "DividerBank"},
             Edits!UpdateConfiguration([state EXCEPT !.topology = top])
      PROVE  EditsInv'
  <2>1. Restorable([state EXCEPT !.topology = top])
    BY GroupEdit DEF EditsInv
  <2> QED BY <1>1, <2>1, WholeIsHeard
<1>2. ASSUME NEW c \in Channels, NEW m \in {"Clock", "Euclid", "Sequencer", "Off"},
             Edits!UpdateConfiguration([state EXCEPT !.topology = "Independent", !.channels[c].mode = m])
      PROVE  EditsInv'
  <2> DEFINE ch == [state.channels[c] EXCEPT !.mode = m]
             chs == [state.channels EXCEPT ![c] = ch]
             s == [[state EXCEPT !.topology = "Independent"] EXCEPT !.channels = chs]
  <2>1. [state EXCEPT !.topology = "Independent", !.channels[c].mode = m] = s
    BY <1>0 DEF Configurations, Outputs
  <2>2. /\ ch \in Outputs /\ ch.groove = state.channels[c].groove
        /\ ch.euclid = state.channels[c].euclid /\ ch.sequencer = state.channels[c].sequencer
    BY <1>0 DEF Outputs
  <2>3. Edits!ValidChannel(ch)
    <3> HIDE DEF ch
    <3> QED BY <1>0, <2>2 DEF Edits!ValidChannel
  <2>4. chs \in [Channels -> Outputs] /\ \A d \in Channels : Edits!ValidChannel(chs[d])
    <3> HIDE DEF ch
    <3> QED BY <1>0, <2>2, <2>3
  <2>5. Restorable(s)
    <3> HIDE DEF chs
    <3>1. Restorable([state EXCEPT !.topology = "Independent"])
      BY GroupEdit DEF EditsInv
    <3> QED BY <2>4, <3>1, GroupEdit
  <2> HIDE DEF s
  <2> QED BY <1>2, <2>1, <2>5, WholeIsHeard
<1>3. ASSUME NEW top \in {"UnifiedClock", "Independent"},
             Edits!UpdateConfiguration([Edits!Factory EXCEPT !.topology = top,
                                          !.transport = state.transport, !.device = state.device])
      PROVE  EditsInv'
  <2> DEFINE s == [Edits!Factory EXCEPT !.topology = top, !.transport = state.transport,
                                        !.device = state.device]
  <2>1. /\ Edits!Factory \in Configurations /\ ValidTempo(Edits!Factory.tempo)
        /\ ValidTimes(Edits!Factory.display) /\ ValidRoles(Edits!Factory.inputs)
        /\ Edits!ValidGroove(Edits!Factory.unified.groove)
        /\ \A c \in Channels : Edits!ValidChannel(Edits!Factory.channels[c])
    BY FactoryIsRestorable, RestorableParts
  <2>2. state.transport \in Int /\ state.device \in Int
    BY <1>0 DEF Configurations
  <2>3. /\ s \in Configurations /\ s.tempo = Edits!Factory.tempo
        /\ s.display = Edits!Factory.display /\ s.inputs = Edits!Factory.inputs
        /\ s.unified = Edits!Factory.unified /\ s.channels = Edits!Factory.channels
    BY <2>1, <2>2 DEF Configurations
  <2> HIDE DEF s
  <2>4. Restorable(s)
    BY <2>1, <2>3, RestorableParts
  <2> QED BY <1>3, <2>4, WholeIsHeard DEF s
<1> QED BY <1>1, <1>2, <1>3 DEF Edits!SetMode, Edits!ApplyTemplate

\* Whatever is edited, the configuration stays restorable and heard.
LEMMA EditsInvStep == ASSUME EditsAssumption, EditsInv, [Edits!Next]_Edits!vars PROVE EditsInv'
<1>1. CASE UNCHANGED <<state, engine>>
  <2>1. Edits!Copy(state)' = Edits!Copy(state) /\ Edits!Valid(state)' = Edits!Valid(state)
    BY <1>1 DEF Edits!Copy, Edits!Output, Edits!Valid
  <2> QED BY <1>1, <2>1 DEF EditsInv, Restorable
<1>2. ASSUME NEW delta \in Deltas,
             \/ Edits!AdjustMaster(delta) \/ Edits!AdjustSync(delta) \/ Edits!AdjustHardware(delta)
             \/ Edits!AdjustScreensaver(delta) \/ Edits!AdjustUnified(delta)
             \/ Edits!AdjustDividerBank(delta) \/ \E i \in {1, 2} : Edits!AdjustInput(i, delta)
      PROVE  EditsInv'
  <2>1. delta \in Int
    BY DEF EditsAssumption
  <2> QED BY <1>2, <2>1, MasterStep, PlainStep, TimesStep, RolesStep
<1>3. CASE Edits!Edit
  <2>1. CASE \E delta \in Deltas, c \in Channels : Edits!AdjustGroove(c, delta)
    BY <2>1, GrooveStep
  <2>2. CASE \E delta \in Deltas, c \in Channels : Edits!AdjustChannel(c, delta)
    BY <2>2, ChannelStep
  <2>3. CASE \E chosen \in state.tempo.low..state.tempo.high : Edits!TapTempo(chosen)
    BY <2>3, TapStep
  <2>4. CASE \E c \in Channels : Edits!ActivateGroove(c)
    BY <2>4, GrooveStep
  <2>5. CASE \E c \in Channels : Edits!SequencerCommand(c)
    BY <2>5, ChannelStep
  <2>6. CASE \E c \in Channels : Edits!CopyPattern(c)
    BY <1>1, <2>6 DEF Edits!CopyPattern
  <2>7. CASE \E c \in Channels, place \in Edits!Within(MaxSteps) : Edits!ToggleStep(c, place)
    BY <2>7, ChannelStep
  <2>8. CASE Edits!ApplyTemplate \/ \E c \in Channels : Edits!SetMode(c)
    BY <2>8, WholeStep
  <2>9. CASE Edits!RemoveGroove
    BY <2>9, GrooveStep
  <2> QED BY <1>2, <1>3, <2>1, <2>2, <2>3, <2>4, <2>5, <2>6, <2>7, <2>8, <2>9 DEF Edits!Edit
<1> QED BY <1>1, <1>3 DEF Edits!Next, Edits!vars

\* SettingsEditor!EditsStayLoadable: no sequence of edits, in whatever order and over whatever
\* pages, makes a configuration that the next boot would refuse.
THEOREM EditsAlwaysLoadable == EditsAssumption => (Edits!Spec => []Edits!EditsStayLoadable)
<1> SUFFICES ASSUME EditsAssumption PROVE Edits!Spec => []Edits!EditsStayLoadable
  OBVIOUS
<1>1. Edits!Init => EditsInv
  BY FactoryIsRestorable DEF Edits!Init, EditsInv
<1>2. EditsInv /\ [Edits!Next]_Edits!vars => EditsInv'
  BY EditsInvStep
<1>3. EditsInv => Edits!EditsStayLoadable
  BY DEF EditsInv, Restorable, Edits!EditsStayLoadable
<1> QED BY <1>1, <1>2, <1>3, PTL DEF Edits!Spec

\* SettingsEditor!EngineHearsEveryEdit: whichever of its update calls an edit makes, and
\* whichever it does without, the engine's copy is what the configuration resolves to.
THEOREM EngineAlwaysHears == EditsAssumption => (Edits!Spec => []Edits!EngineHearsEveryEdit)
<1> SUFFICES ASSUME EditsAssumption PROVE Edits!Spec => []Edits!EngineHearsEveryEdit
  OBVIOUS
<1>1. Edits!Init => EditsInv
  BY FactoryIsRestorable DEF Edits!Init, EditsInv
<1>2. EditsInv /\ [Edits!Next]_Edits!vars => EditsInv'
  BY EditsInvStep
<1>3. EditsInv => Edits!EngineHearsEveryEdit
  BY DEF EditsInv, Edits!EngineHearsEveryEdit
<1> QED BY <1>1, <1>2, <1>3, PTL DEF Edits!Spec

-----------------------------------------------------------------------------
(* The recorder. *)

\* The 100 ms that the engine looks back outlast the debouncing and a pass.
TakeAssumption ==
  /\ Step \in Nat \ {0} /\ Beat \in Nat /\ Length \in Nat \ {0} /\ CountIns \subseteq Nat
  /\ Debounce \in Nat /\ RewindCap \in Nat /\ Rates \subseteq Nat /\ MaxDelay \in Nat
  /\ Debounce + MaxDelay <= RewindCap + 1

\* A change of the pin that is being debounced is not old, and when it was heard the clock
\* stood where it can still be found; the take it belongs to runs.
ChangeIsFound ==
  raw # stable =>
    /\ rawAge < Debounce + wait
    /\ heard # None =>
         /\ moving /\ heard \in Nat /\ position = heard + rate * rawAge
         /\ Take!InTake(heard) => state = "Recording"

TakeInv ==
  /\ moving \in BOOLEAN /\ position \in Nat /\ rate \in Rates /\ wait \in 0..MaxDelay
  /\ contact \in BOOLEAN /\ raw \in BOOLEAN /\ stable \in BOOLEAN /\ rawAge \in Nat
  /\ state \in {"Ready", "PreCount", "Recording"} /\ mode \in {"OneShot", "Endless"}
  /\ epoch \in Nat
  /\ ChangeIsFound
  /\ astray = FALSE

\* Products are ordered as their factors.
LEMMA ProductsGrow ==
  ASSUME NEW a \in Nat, NEW b \in Nat, NEW n \in Nat, a <= b
  PROVE  n * a <= n * b /\ n * a \in Nat /\ n * b \in Nat
OBVIOUS

\* What lies before a multiple of a step has fewer whole steps.
LEMMA FewerSteps ==
  ASSUME NEW x \in Nat, NEW s \in Nat \ {0}, NEW n \in Nat, x < n * s
  PROVE  x \div s < n
<1>1. x = s * (x \div s) + (x % s) /\ x % s \in 0..s - 1 /\ x \div s \in Nat
  OBVIOUS
<1>2. SUFFICES ASSUME n <= x \div s PROVE FALSE
  BY <1>1
<1>3. s * n <= s * (x \div s)
  BY <1>1, <1>2, ProductsGrow
<1> QED BY <1>1, <1>3

\* The rounded quotient leaves at most half a step on either side.
LEMMA RoundedSteps ==
  ASSUME NEW x \in Nat, NEW s \in Nat \ {0}
  PROVE  LET n == (x + s \div 2) \div s
         IN  /\ n \in Nat /\ 2 * (x - n * s) <= s /\ 2 * (n * s - x) <= s
<1> DEFINE h == s \div 2
           n == (x + h) \div s
<1>1. h \in Nat /\ 2 * h <= s /\ s <= 2 * h + 1
  OBVIOUS
<1> HIDE DEF h
<1>2. x + h = s * n + ((x + h) % s) /\ ((x + h) % s) \in 0..s - 1 /\ n \in Nat
  BY <1>1
<1>3. s * n = n * s
  BY <1>2
<1> HIDE DEF n
<1>4. 2 * (x - n * s) <= s /\ 2 * (n * s - x) <= s
  BY <1>1, <1>2, <1>3
<1> QED BY <1>2, <1>4 DEF n, h

\* No step is nearer than that of the rounded quotient.
LEMMA NearestStep ==
  ASSUME TakeAssumption, epoch \in Nat, NEW at \in Nat, at >= epoch
  PROVE  Take!Nearest(Take!Serial(at), at)
<1> DEFINE x == at - epoch
           n == Take!Serial(at)
<1>1. x \in Nat /\ Step \in Nat \ {0} /\ n = (x + (Step \div 2)) \div Step
  BY DEF TakeAssumption, Take!Serial
<1>2. n \in Nat /\ 2 * (x - n * Step) <= Step /\ 2 * (n * Step - x) <= Step
  BY <1>1, RoundedSteps
<1> HIDE DEF n
<1> SUFFICES ASSUME NEW k \in 0..n + 1
             PROVE  (IF at < epoch + n * Step THEN epoch + n * Step - at ELSE at - epoch - n * Step)
                      <= (IF at < epoch + k * Step THEN epoch + k * Step - at
                          ELSE at - epoch - k * Step)
  BY DEF Take!Nearest, n
<1>3. n * Step \in Nat /\ k * Step \in Nat
  BY <1>1, <1>2
<1>4. CASE k = n
  BY <1>4, <1>3
<1>5. CASE k < n
  <2>1. k * Step + Step <= n * Step
    <3>1. Step * (k + 1) <= Step * n
      BY <1>1, <1>2, <1>5, ProductsGrow
    <3>2. Step * (k + 1) = k * Step + Step /\ Step * n = n * Step
      BY <1>1, <1>2
    <3> QED BY <3>1, <3>2
  <2> DEFINE ns == n * Step
             ks == k * Step
  <2> HIDE DEF ns, ks
  <2> QED BY <1>1, <1>2, <1>3, <2>1 DEF ns, ks
<1>6. CASE k > n
  <2>1. n * Step + Step <= k * Step
    <3>1. k = n + 1
      BY <1>2, <1>6
    <3> QED BY <1>1, <1>2, <3>1
  <2> QED BY <1>1, <1>2, <1>3, <2>1
<1> QED BY <1>2, <1>4, <1>5, <1>6

\* A place in the take comes before its end by more than debouncing may take.
LEMMA TakeRunsOn ==
  ASSUME TakeAssumption, TakeInv, NEW at \in Nat, NEW age \in Nat, Take!InTake(at), mode = "OneShot",
         position = at + rate * age, age < Debounce + MaxDelay \/ age = 0
  PROVE  /\ position >= epoch /\ ((position - epoch) \div Step) < Length
         /\ (at - epoch + (Step \div 2)) \div Step < Length
<1>1. /\ at \in Nat /\ epoch \in Nat /\ at >= epoch /\ Step \in Nat \ {0} /\ Length \in Nat \ {0}
      /\ rate \in Nat /\ Debounce + MaxDelay \in Nat
      /\ 2 * (at - epoch) < (2 * Length - 1) * Step
      /\ 2 * rate * (Debounce + MaxDelay) <= Step
  BY DEF TakeAssumption, TakeInv, Take!InTake
<1>2. rate * age <= rate * (Debounce + MaxDelay) /\ rate * age \in Nat
  <2>1. age <= Debounce + MaxDelay
    BY <1>1
  <2> QED BY <1>1, <2>1, ProductsGrow
<1>3. 2 * (rate * age) <= Step
  BY <1>1, <1>2
<1>4. (2 * Length - 1) * Step = 2 * (Length * Step) - Step /\ Length * Step \in Nat
  BY <1>1
<1>5. position - epoch \in Nat /\ position - epoch < Length * Step
  BY <1>1, <1>2, <1>3, <1>4 
<1>6. at - epoch + (Step \div 2) \in Nat /\ at - epoch + (Step \div 2) < Length * Step
  BY <1>1, <1>4
<1>7. position >= epoch
  BY <1>1, <1>2
<1> DEFINE x == position - epoch
           y == at - epoch + (Step \div 2)
<1>8. x \in Nat /\ y \in Nat /\ x < Length * Step /\ y < Length * Step
  BY <1>5, <1>6
<1> HIDE DEF x, y
<1>9. x \div Step < Length /\ y \div Step < Length
  BY <1>1, <1>8, FewerSteps
<1> QED BY <1>7, <1>9 DEF x, y

\* A tap that belongs to the take and is heard where the clock stood is written there.
LEMMA TapIsTaken ==
  ASSUME TakeAssumption, TakeInv, NEW at \in Nat, NEW age \in Nat, Take!InTake(at),
         position = at + rate * age, age < Debounce + MaxDelay \/ age = 0,
         NEW rec, rec.state = "Recording", rec.epoch = epoch
  PROVE  Take!Accepted(rec, at) /\ Take!Nearest(Take!Serial(at), at)
<1>1. at >= epoch /\ epoch \in Nat
  BY DEF Take!InTake, TakeInv
<1>2. mode = "OneShot" => (at - epoch + (Step \div 2)) \div Step < Length
  BY TakeRunsOn
<1>3. Take!Accepted(rec, at)
  BY <1>1, <1>2 DEF Take!Accepted
<1> QED BY <1>1, <1>3, NearestStep

\* While the place of a tap lies in the take, its service does not end the recording.
LEMMA ServiceKeepsTake ==
  ASSUME TakeAssumption, TakeInv, NEW at \in Nat, NEW age \in Nat, Take!InTake(at),
         position = at + rate * age, age < Debounce + MaxDelay \/ age = 0,
         NEW there, NEW rec, rec = [state |-> "Recording", epoch |-> epoch, playhead |-> there]
  PROVE  Take!Serviced(rec).state = "Recording" /\ Take!Serviced(rec).epoch = epoch
<1>1. mode = "OneShot" => position >= epoch /\ ((position - epoch) \div Step) < Length
  BY TakeRunsOn
<1>2. Step \in Nat \ {0} /\ Length \in Nat \ {0} /\ position \in Nat /\ epoch \in Nat
  BY DEF TakeAssumption, TakeInv
<1>3. rec.state = "Recording" /\ rec.epoch = epoch
  OBVIOUS
<1>4. CASE position < epoch
  <2>1. Take!Serviced(rec) = [rec EXCEPT !.playhead = 0]
    BY <1>2, <1>3, <1>4 DEF Take!Serviced
  <2> QED BY <2>1
<1>5. CASE ~(position < epoch)
  <2> DEFINE serial == (position - epoch) \div Step
  <2>1. serial \in Int /\ position >= epoch
    BY <1>2, <1>5
  <2>2. ~(mode = "OneShot" /\ serial >= Length)
    BY <1>1, <1>2, <2>1
  <2>3. Take!Serviced(rec) = [rec EXCEPT !.playhead = serial % Length]
    BY <1>2, <1>3, <1>5, <2>1, <2>2 DEF Take!Serviced
  <2> HIDE DEF serial
  <2> QED BY <2>3
<1> QED BY <1>4, <1>5

\* Starting, stopping and servicing a take leave a recorder in one of its states.
LEMMA ServiceKeepsTypes ==
  ASSUME TakeAssumption, TakeInv, NEW rec, NEW there, NEW s \in {"Ready", "PreCount", "Recording"},
         NEW e \in Nat, rec = [state |-> s, epoch |-> e, playhead |-> there]
  PROVE  /\ Take!Serviced(rec).state \in {"Ready", "PreCount", "Recording"}
         /\ Take!Serviced(rec).epoch = e
<1> DEFINE begun == rec.state = "PreCount" /\ position >= rec.epoch
           at == IF begun THEN [rec EXCEPT !.state = "Recording", !.playhead = 0] ELSE rec
           done == Take!Serviced(rec)
<1>1. at.state \in {"Ready", "PreCount", "Recording"} /\ at.epoch = e /\ DOMAIN at = DOMAIN rec
  OBVIOUS
<1>2. \A x : /\ [at EXCEPT !.playhead = x].state = at.state
             /\ [at EXCEPT !.playhead = x].epoch = e
  BY <1>1
<1>3. Take!StopTake(at).state = "Ready" /\ Take!StopTake(at).epoch = e
  BY <1>1 DEF Take!StopTake
<1> DEFINE serial == (position - at.epoch) \div Step
           begin == at.epoch - countIn * Beat
<1>4. done = CASE at.state = "Recording" /\ position < at.epoch -> [at EXCEPT !.playhead = 0]
               [] at.state = "Recording" /\ position >= at.epoch ->
                    IF mode = "OneShot" /\ serial >= Length THEN Take!StopTake(at)
                    ELSE [at EXCEPT !.playhead = serial % Length]
               [] at.state = "PreCount" ->
                    IF position >= begin
                    THEN [at EXCEPT !.playhead = ((position - begin) \div Step) % Length] ELSE at
               [] OTHER -> at
  BY DEF Take!Serviced
<1>5. position < at.epoch \/ position >= at.epoch
  BY <1>1 DEF TakeInv
<1> SUFFICES done.state \in {"Ready", "PreCount", "Recording"} /\ done.epoch = e
  OBVIOUS
<1> HIDE DEF at, done, serial, begin
<1>6. CASE at.state = "Recording" /\ position < at.epoch
  <2>1. ~(position >= at.epoch)
    BY <1>1, <1>6 DEF TakeInv
  <2>2. done = [at EXCEPT !.playhead = 0]
    BY <1>4, <1>6, <2>1
  <2> QED BY <1>1, <1>2, <2>2
<1>7. CASE at.state = "Recording" /\ position >= at.epoch /\ ~(position < at.epoch)
  <2>1. CASE mode = "OneShot" /\ serial >= Length
    <3>1. done = Take!StopTake(at)
      BY <1>4, <1>7, <2>1
    <3> QED BY <1>3, <3>1
  <2>2. CASE ~(mode = "OneShot" /\ serial >= Length)
    <3>1. done = [at EXCEPT !.playhead = serial % Length]
      BY <1>4, <1>7, <2>2
    <3> QED BY <1>1, <1>2, <3>1
  <2> QED BY <2>1, <2>2
<1>8. CASE at.state = "PreCount"
  BY <1>1, <1>2, <1>4, <1>8
<1>9. CASE at.state = "Ready"
  BY <1>1, <1>4, <1>9
<1> QED BY <1>1, <1>5, <1>6, <1>7, <1>8, <1>9

\* A pass in which a press is recognised hears it where the clock stood.
LEMMA PressIsHeard ==
  ASSUME TakeAssumption, TakeInv, NEW beats \in CountIns, Take!Pass(FALSE, beats), heard' # None,
         \/ contact # raw
         \/ contact = raw /\ raw # stable
  PROVE  /\ moving /\ heard' \in Nat /\ Take!Sample.age \in Nat
         /\ position = heard' + rate * Take!Sample.age
         /\ Take!Sample.age < Debounce + MaxDelay \/ Take!Sample.age = 0
         /\ Take!PositionBefore(Take!Sample.age) = heard'
         /\ Take!InTake(heard') => state = "Recording"
<1>1. position \in Nat /\ rate \in Nat /\ RewindCap \in Nat /\ Debounce \in Nat /\ MaxDelay \in Nat
      /\ rawAge \in Nat /\ wait \in 0..MaxDelay /\ Debounce + MaxDelay <= RewindCap + 1
  BY DEF TakeInv, TakeAssumption
<1>2. CASE contact # raw
  <2>1. Take!Sample.age = 0
    BY <1>2 DEF Take!Sample
  <2>2. heard' = position /\ state = "Recording" /\ moving
    BY <1>2 DEF Take!Pass
  <2>3. rate * 0 = 0
    BY <1>1
  <2>4. Take!PositionBefore(0) = position
    BY <1>1, <2>3 DEF Take!PositionBefore, Take!Smaller
  <2> QED BY <1>1, <2>1, <2>2, <2>3, <2>4
<1>3. CASE contact = raw /\ raw # stable
  <2>1. Take!Sample.age = rawAge
    BY <1>3 DEF Take!Sample
  <2>2. heard' = heard
    BY <1>3 DEF Take!Pass
  <2>3. /\ rawAge < Debounce + wait /\ moving /\ heard \in Nat
        /\ position = heard + rate * rawAge /\ (Take!InTake(heard) => state = "Recording")
    BY <1>3, <2>2 DEF TakeInv, ChangeIsFound
  <2>4. rawAge <= RewindCap /\ rawAge < Debounce + MaxDelay
    BY <1>1, <2>3
  <2>5. rate * rawAge \in Nat
    BY <1>1
  <2>6. Take!PositionBefore(rawAge) = heard
    BY <1>1, <2>3, <2>4, <2>5 DEF Take!PositionBefore, Take!Smaller
  <2> QED BY <1>1, <2>1, <2>2, <2>3, <2>4, <2>6
<1> QED BY <1>2, <1>3

\* A pass of the foreground loses no tap.
LEMMA PassKeepsTake ==
  ASSUME TakeAssumption, TakeInv, NEW play \in BOOLEAN, NEW beats \in CountIns,
         Take!Pass(play, beats)
  PROVE  TakeInv'
<1> DEFINE tap == Take!Sample
           pressed == tap.stable /\ ~stable
           old == [state |-> state, epoch |-> epoch, playhead |-> playhead]
           rec == IF play THEN Take!Toggled(old, beats) ELSE old
           at == Take!PositionBefore(tap.age)
           taken == pressed /\ Take!Accepted(rec, at)
           served == IF taken THEN [rec EXCEPT !.playhead = Take!StepOf(at)] ELSE rec
           done == Take!Serviced(served)
<1>0. /\ moving \in BOOLEAN /\ position \in Nat /\ rate \in Nat /\ contact \in BOOLEAN
      /\ raw \in BOOLEAN /\ stable \in BOOLEAN /\ rawAge \in Nat /\ epoch \in Nat
      /\ Debounce \in Nat /\ MaxDelay \in Nat /\ wait \in 0..MaxDelay
      /\ state \in {"Ready", "PreCount", "Recording"} /\ astray = FALSE
  BY DEF TakeInv, TakeAssumption
<1>1. /\ wait' = 0 /\ raw' = tap.raw /\ stable' = tap.stable /\ rawAge' = tap.age
      /\ moving' = (moving \/ (play /\ state = "Ready"))
      /\ state' = done.state /\ epoch' = done.epoch
      /\ position' = position /\ rate' = rate /\ mode' = mode /\ contact' = contact
      /\ play => contact = raw
  BY DEF Take!Pass
<1>2. /\ tap.raw = contact /\ tap.age = (IF contact # raw THEN 0 ELSE rawAge)
      /\ tap.stable = (IF contact # stable /\ tap.age >= Debounce THEN contact ELSE stable)
  BY DEF Take!Sample
<1>3. \E s \in {"Ready", "PreCount", "Recording"}, e \in Nat :
        /\ served = [state |-> s, epoch |-> e, playhead |-> served.playhead]
        /\ ~play => e = epoch
  <2>1. \E s \in {"Ready", "PreCount", "Recording"}, e \in Nat :
          /\ rec = [state |-> s, epoch |-> e, playhead |-> rec.playhead]
          /\ ~play => e = epoch
    <3>1. beats \in Nat /\ Beat \in Nat /\ position + beats * Beat \in Nat
      BY <1>0 DEF TakeAssumption
    <3> QED BY <1>0, <3>1 DEF Take!Toggled, Take!StartTake, Take!StopTake
  <2> HIDE DEF rec
  <2> QED BY <2>1
<1>4. state' \in {"Ready", "PreCount", "Recording"} /\ epoch' \in Nat /\ (~play => epoch' = epoch)
  <2>1. PICK s \in {"Ready", "PreCount", "Recording"}, e \in Nat :
          /\ served = [state |-> s, epoch |-> e, playhead |-> served.playhead]
          /\ ~play => e = epoch
    BY <1>3
  <2> HIDE DEF served
  <2> QED BY <1>1, <2>1, ServiceKeepsTypes
<1>5. raw' # stable' => rawAge' < Debounce + wait'
  BY <1>0, <1>1, <1>2
<1>6. play => heard' = None
  BY DEF Take!Pass
<1>7. ASSUME raw' # stable', heard' # None
      PROVE  /\ moving' /\ heard' \in Nat /\ position' = heard' + rate' * rawAge'
             /\ Take!InTake(heard)' => state' = "Recording"
  <2>1. ~play /\ (contact # raw \/ (contact = raw /\ raw # stable))
    BY <1>0, <1>1, <1>2, <1>6, <1>7
  <2>2. Take!Pass(FALSE, beats)
    BY <2>1
  <2>3. /\ moving /\ heard' \in Nat /\ tap.age \in Nat /\ position = heard' + rate * tap.age
        /\ tap.age < Debounce + MaxDelay \/ tap.age = 0
        /\ Take!InTake(heard') => state = "Recording"
    BY <1>7, <2>1, <2>2, PressIsHeard
  <2>4. ~pressed
    BY <1>0, <1>1, <1>2, <1>7
  <2>5. served = [state |-> state, epoch |-> epoch, playhead |-> playhead]
    BY <2>1, <2>4
  <2>6. ASSUME Take!InTake(heard') PROVE state' = "Recording"
    <3>1. served = [state |-> "Recording", epoch |-> epoch, playhead |-> playhead]
      BY <2>3, <2>5, <2>6
    <3> HIDE DEF served, tap
    <3> QED BY <1>1, <2>3, <2>6, <3>1, ServiceKeepsTake
  <2>7. Take!InTake(heard)' => Take!InTake(heard')
    BY <1>1, <1>4, <2>1 DEF Take!InTake
  <2> QED BY <1>1, <2>3, <2>6, <2>7
<1>8. astray' = FALSE
  <2>1. SUFFICES ASSUME pressed, heard' # None, Take!InTake(heard')
                 PROVE  /\ taken /\ Take!Nearest(Take!Serial(at), heard')
                        /\ Take!OffsetOf(at) = Take!OffsetOf(heard')
    BY <1>0 DEF Take!Pass
  <2>2. ~play /\ (contact # raw \/ (contact = raw /\ raw # stable))
    BY <1>0, <1>1, <1>2, <1>6, <2>1
  <2>3. Take!Pass(FALSE, beats)
    BY <2>2
  <2>4. /\ heard' \in Nat /\ tap.age \in Nat /\ position = heard' + rate * tap.age
        /\ tap.age < Debounce + MaxDelay \/ tap.age = 0
        /\ at = heard' /\ state = "Recording"
    BY <2>1, <2>2, <2>3, PressIsHeard
  <2>5. rec.state = "Recording" /\ rec.epoch = epoch
    BY <2>2, <2>4
  <2> HIDE DEF tap, rec, at
  <2>6. Take!Accepted(rec, heard') /\ Take!Nearest(Take!Serial(heard'), heard')
    BY <2>1, <2>4, <2>5, TapIsTaken
  <2> QED BY <2>1, <2>4, <2>6
<1> QED BY <1>0, <1>1, <1>2, <1>4, <1>5, <1>7, <1>8 DEF TakeInv, ChangeIsFound

\* So do time, the finger and the inputs that are not the panel's.
LEMMA TakeInvStep == ASSUME TakeAssumption, TakeInv, [Take!Next]_Take!vars PROVE TakeInv'
<1>0. /\ position \in Nat /\ rate \in Nat /\ rawAge \in Nat /\ wait \in 0..MaxDelay
      /\ MaxDelay \in Nat /\ Debounce \in Nat /\ RewindCap \in Nat
      /\ Debounce + MaxDelay <= RewindCap + 1
  BY DEF TakeInv, TakeAssumption
<1>1. CASE Take!Tick
  <2>1. /\ wait' = wait + 1 /\ wait' \in 0..MaxDelay
        /\ rawAge' = Take!Smaller(rawAge + 1, RewindCap + 1)
        /\ position' = (IF moving THEN position + rate ELSE position)
        /\ UNCHANGED <<moving, rate, contact, raw, stable, mode, state, epoch, heard, astray>>
    BY <1>0, <1>1 DEF Take!Tick, Take!recorder
  <2>2. rawAge' \in Nat /\ rawAge' <= rawAge + 1 /\ position' \in Nat
    BY <1>0, <2>1 DEF Take!Smaller
  <2>3. ASSUME raw # stable, heard # None
        PROVE  position' = heard + rate * rawAge' /\ (Take!InTake(heard)' => Take!InTake(heard))
    <3>1. rawAge < Debounce + wait /\ moving /\ heard \in Nat /\ position = heard + rate * rawAge
      BY <2>3 DEF TakeInv, ChangeIsFound
    <3>2. rawAge' = rawAge + 1
      BY <1>0, <2>1, <3>1 DEF Take!Smaller
    <3>3. rate * (rawAge + 1) = rate * rawAge + rate
      BY <1>0
    <3>4. position' = heard + rate * rawAge'
      <4>1. rate * rawAge \in Nat /\ rate * rawAge' = rate * rawAge + rate
        BY <1>0, <3>2, <3>3
      <4>2. position' = position + rate
        BY <2>1, <3>1
      <4> QED BY <1>0, <3>1, <4>1, <4>2
    <3>5. Take!InTake(heard)' => Take!InTake(heard)
      BY <2>1 DEF Take!InTake
    <3> QED BY <3>4, <3>5
  <2> QED BY <1>0, <2>1, <2>2, <2>3 DEF TakeInv, ChangeIsFound
<1>2. CASE Take!Contact
  BY <1>2 DEF Take!Contact, Take!clock, Take!button, Take!recorder, TakeInv, ChangeIsFound,
              Take!InTake
<1>3. ASSUME NEW on \in BOOLEAN, NEW r \in Rates, Take!Elsewhere(on, r) PROVE TakeInv'
  BY <1>3 DEF Take!Elsewhere, Take!button, Take!recorder, TakeInv, ChangeIsFound
<1>4. CASE Take!Clear
  BY <1>4 DEF Take!Clear, Take!clock, Take!button, TakeInv, ChangeIsFound, Take!InTake
<1>5. ASSUME NEW play \in BOOLEAN, NEW beats \in CountIns, Take!Pass(play, beats) PROVE TakeInv'
  BY <1>5, PassKeepsTake
<1>6. CASE UNCHANGED Take!vars
  BY <1>6 DEF Take!vars, Take!clock, Take!button, Take!recorder, TakeInv, ChangeIsFound,
              Take!InTake
<1> QED BY <1>1, <1>2, <1>3, <1>4, <1>5, <1>6 DEF Take!Next

\* GrooveRecorder!TapsLandWhereTheyWereHeard, for every step length, tempo, count-in and
\* length of a take, as long as the foreground is not away for longer than the engine looks
\* back: debouncing, delay, count-in and the end of a take cost no tap and misplace none.
THEOREM TapsAlwaysLand == TakeAssumption => (Take!Spec => []Take!TapsLandWhereTheyWereHeard)
<1> SUFFICES ASSUME TakeAssumption PROVE Take!Spec => []Take!TapsLandWhereTheyWereHeard
  OBVIOUS
<1>1. Take!Init => TakeInv
  <2> SUFFICES ASSUME Take!Init PROVE TakeInv
    OBVIOUS
  <2>1. /\ moving \in BOOLEAN /\ position \in Nat /\ rate \in Rates /\ wait \in 0..MaxDelay
        /\ contact \in BOOLEAN /\ raw \in BOOLEAN /\ stable \in BOOLEAN /\ rawAge \in Nat
        /\ state \in {"Ready", "PreCount", "Recording"} /\ mode \in {"OneShot", "Endless"}
        /\ epoch \in Nat
    <3>1. 0 \in Nat /\ 0 \in 0..MaxDelay
      BY DEF TakeAssumption
    <3> QED BY <3>1 DEF Take!Init
  <2>2. raw = stable /\ astray = FALSE
    BY DEF Take!Init
  <2> QED BY <2>1, <2>2 DEF TakeInv, ChangeIsFound
<1>2. TakeInv /\ [Take!Next]_Take!vars => TakeInv'
  BY TakeInvStep
<1>3. TakeInv => Take!TapsLandWhereTheyWereHeard
  BY DEF TakeInv, Take!TapsLandWhereTheyWereHeard
<1> QED BY <1>1, <1>2, <1>3, PTL DEF Take!Spec

-----------------------------------------------------------------------------
(* The TAP estimator. *)

\* Stamps of the jacks are milliseconds as long as the microsecond counter has not wrapped.
TappingAssumption ==
  /\ MinGap \in Nat /\ MaxGap \in Nat /\ Window \in Nat \ {0} /\ MaxTime \in Nat
  /\ MicrosWrap \in Nat /\ MaxTime < MicrosWrap /\ None \notin Nat

HeardTaps == [at : Nat, from : {"jack", "button"}]
Apart(h, k) == h[k + 1].at - h[k].at
InTime(gap) == gap \in MinGap..MaxGap
Latest(h) == h[Len(h)].at

\* These are the gaps of taps h since the last one that was out of time.
Series(h, gaps) ==
  \E from \in 0..Len(h) - 1 :
    /\ from = 0 \/ ~InTime(Apart(h, from))
    /\ \A k \in from + 1..Len(h) - 1 : InTime(Apart(h, k))
    /\ Len(gaps) = Len(h) - 1 - from /\ \A k \in 1..Len(gaps) : gaps[k] = Apart(h, from + k)

\* The estimator, when the foreground has come as far as `time', holds the gaps of the series
\* that is under way, and forgets it only when no tap can continue it.
EstimatorInv(est, time) ==
  /\ est = [previous |-> est.previous, intervals |-> est.intervals,
            sequenceAt |-> est.sequenceAt, bpm |-> est.bpm, heard |-> est.heard]
  /\ est.heard \in Seq(HeardTaps) /\ Len(est.heard) <= Window + 1
  /\ est.sequenceAt = est.previous
  /\ est.heard = <<>> => est.previous = None
  /\ est.heard # <<>> =>
       /\ Latest(est.heard) <= time
       /\ \E gaps \in Seq(Int) :
            /\ Series(est.heard, gaps)
            /\ gaps # <<>> => est.bpm = Tapping!Tempo(gaps)
            /\ IF est.previous = None THEN time - Latest(est.heard) > MaxGap
               ELSE est.previous = Latest(est.heard) /\ est.intervals = gaps

Estimator ==
  [previous |-> previous, intervals |-> intervals, sequenceAt |-> sequenceAt, bpm |-> bpm,
   heard |-> heard]

TappingInv ==
  /\ now \in 0..MaxTime /\ passAt \in 0..now /\ (slot = None \/ slot \in passAt..now)
  /\ EstimatorInv(Estimator, passAt)

\* The newest n of a sequence that has grown by one.
LEMMA NewestOfGrown ==
  ASSUME NEW S, NEW s, s \in Seq(S), NEW x, x \in S, NEW n, n \in Nat \ {0}, Len(s) <= n
  PROVE  /\ Tapping!Newest(Append(s, x), n) \in Seq(S)
         /\ Tapping!Newest(Append(s, x), n) =
              IF Len(s) < n THEN Append(s, x) ELSE Tail(Append(s, x))
<1> DEFINE g == Append(s, x)
           r == Tapping!Newest(g, n)
<1>1. g \in Seq(S) /\ Len(g) = Len(s) + 1 /\ Len(s) \in Nat
  BY AppendProperties
<1>2. CASE Len(s) < n
  <2>1. Tapping!Min({n, Len(g)}) = Len(g)
    BY <1>1, <1>2 DEF Tapping!Min
  <2>2. Len(g) - Len(g) + 1 = 1
    BY <1>1
  <2>3. r = g
    BY <1>1, <2>1, <2>2, SubSeqFull DEF Tapping!Newest
  <2> QED BY <1>1, <1>2, <2>3
<1>3. CASE Len(s) = n
  <2>1. Tapping!Min({n, Len(g)}) = n
    BY <1>1, <1>3 DEF Tapping!Min
  <2>2. Len(g) - n + 1 = 2 /\ Len(g) = n + 1
    BY <1>1, <1>3
  <2>3. r = SubSeq(g, 2, n + 1)
    BY <2>1, <2>2 DEF Tapping!Newest
  <2>4. Tail(g) = SubSeq(g, 2, n + 1)
    BY <1>1, <2>2
  <2>5. Tail(g) \in Seq(S)
    BY <1>1, <2>2
  <2> QED BY <1>3, <2>3, <2>4, <2>5
<1> QED BY <1>1, <1>2, <1>3

\* A tap in time continues the series, one that is not begins it.
LEMMA SeriesGoesOn ==
  ASSUME TappingAssumption, NEW h \in Seq(HeardTaps), h # <<>>, Len(h) <= Window + 1,
         NEW gaps \in Seq(Int), Series(h, gaps), NEW tap \in HeardTaps,
         NEW gap, gap = tap.at - Latest(h),
         NEW more, more = Tapping!Newest(Append(h, tap), Window + 1),
         NEW longer, longer = Tapping!Newest(Append(gaps, gap), Window)
  PROVE  /\ more \in Seq(HeardTaps) /\ more # <<>> /\ Len(more) <= Window + 1
         /\ Latest(more) = tap.at
         /\ InTime(gap) => longer \in Seq(Int) /\ longer # <<>> /\ Series(more, longer)
         /\ ~InTime(gap) => Series(more, <<>>)
<1> DEFINE grown == Append(h, tap)
           W == Window
<1>0. W \in Nat \ {0} /\ W + 1 \in Nat \ {0} /\ Len(h) \in Nat \ {0}
  BY DEF TappingAssumption
<1>1. /\ grown \in Seq(HeardTaps) /\ Len(grown) = Len(h) + 1 /\ grown[Len(h) + 1] = tap
      /\ \A i \in 1..Len(h) : grown[i] = h[i]
  OBVIOUS
<1>2. /\ more \in Seq(HeardTaps)
      /\ Len(h) < W + 1 => more = grown
      /\ Len(h) = W + 1 => more = Tail(grown)
  <2>1. /\ more \in Seq(HeardTaps)
        /\ more = IF Len(h) < Window + 1 THEN Append(h, tap) ELSE Tail(Append(h, tap))
    BY <1>0, NewestOfGrown
  <2> QED BY <1>0, <2>1
<1>3. gap \in Int /\ Apart(grown, Len(h)) = gap
  <2>1. h[Len(h)] \in HeardTaps
    BY <1>0
  <2> QED BY <1>0, <1>1, <2>1 DEF Latest, Apart, HeardTaps
<1>4. \A k \in 1..Len(h) - 1 : Apart(grown, k) = Apart(h, k)
  BY <1>0, <1>1 DEF Apart
<1>5. PICK from \in 0..Len(h) - 1 :
        /\ from = 0 \/ ~InTime(Apart(h, from))
        /\ \A k \in from + 1..Len(h) - 1 : InTime(Apart(h, k))
        /\ Len(gaps) = Len(h) - 1 - from /\ \A k \in 1..Len(gaps) : gaps[k] = Apart(h, from + k)
  BY DEF Series
<1> HIDE DEF grown
<1>6. Len(gaps) \in Nat /\ Len(gaps) <= Window
  BY <1>0, <1>5
<1>7. /\ longer \in Seq(Int)
      /\ Len(gaps) < Window => longer = Append(gaps, gap)
      /\ Len(gaps) = Window => longer = Tail(Append(gaps, gap))
  <2>1. /\ longer \in Seq(Int)
        /\ longer = IF Len(gaps) < Window THEN Append(gaps, gap) ELSE Tail(Append(gaps, gap))
    BY <1>0, <1>3, <1>6, NewestOfGrown
  <2>2. Len(gaps) < Window => longer = Append(gaps, gap)
    BY <2>1
  <2>3. Len(gaps) = Window => longer = Tail(Append(gaps, gap))
    <3>1. Len(gaps) = Window => ~(Len(gaps) < Window)
      BY <1>0
    <3> QED BY <2>1, <3>1
  <2> QED BY <2>1, <2>2, <2>3
<1>8. /\ Append(gaps, gap) \in Seq(Int) /\ Len(Append(gaps, gap)) = Len(gaps) + 1
      /\ \A k \in 1..Len(gaps) + 1 : Append(gaps, gap)[k] = Apart(grown, from + k)
  <2>1. /\ Append(gaps, gap) \in Seq(Int) /\ Len(Append(gaps, gap)) = Len(gaps) + 1
        /\ Append(gaps, gap)[Len(gaps) + 1] = gap
        /\ \A k \in 1..Len(gaps) : Append(gaps, gap)[k] = gaps[k]
    BY <1>3, AppendProperties
  <2>2. ASSUME NEW k \in 1..Len(gaps) PROVE Append(gaps, gap)[k] = Apart(grown, from + k)
    <3>1. from + k \in 1..Len(h) - 1
      BY <1>0, <1>5, <1>6
    <3>2. Append(gaps, gap)[k] = Apart(h, from + k)
      BY <1>5, <2>1
    <3> QED BY <1>4, <3>1, <3>2
  <2>3. from + (Len(gaps) + 1) = Len(h)
    BY <1>0, <1>5, <1>6
  <2>4. Append(gaps, gap)[Len(gaps) + 1] = Apart(grown, from + (Len(gaps) + 1))
    BY <1>3, <2>1, <2>3
  <2>5. \A k \in 1..Len(gaps) + 1 : k \in 1..Len(gaps) \/ k = Len(gaps) + 1
    BY <1>6
  <2> QED BY <2>1, <2>2, <2>4, <2>5
\* The history has room for the tap.
<1>9. CASE Len(h) < W + 1
  <2>1. more = grown /\ Len(more) = Len(h) + 1 /\ Latest(more) = tap.at /\ more # <<>>
    BY <1>0, <1>1, <1>2, <1>9 DEF Latest, grown
  <2>2. ASSUME InTime(gap)
        PROVE  longer # <<>> /\ Series(more, longer)
    <3>1. Len(gaps) < Window
      BY <1>0, <1>5, <1>6, <1>9
    <3>2. longer = Append(gaps, gap) /\ Len(longer) = Len(more) - 1 - from /\ Len(longer) = Len(gaps) + 1
      <4>1. longer = Append(gaps, gap)
        BY <1>7, <3>1
      <4>2. Len(longer) = Len(gaps) + 1
        BY <1>8, <4>1
      <4>3. Len(more) - 1 - from = Len(gaps) + 1
        BY <1>0, <1>5, <1>6, <2>1
      <4> QED BY <4>1, <4>2, <4>3
    <3>3. \A k \in 1..Len(longer) : longer[k] = Apart(more, from + k)
      BY <1>8, <2>1, <3>2
    <3>4. ASSUME NEW k \in from + 1..Len(more) - 1 PROVE InTime(Apart(more, k))
      <4>1. CASE k = Len(h)
        BY <1>3, <2>1, <2>2, <4>1
      <4>2. CASE k # Len(h)
        <5>0. k \in Int /\ from + 1 <= k /\ k <= Len(h) /\ from \in Nat /\ k # Len(h)
          BY <1>0, <1>5, <2>1, <4>2
        <5>1. k \in from + 1..Len(h) - 1 /\ k \in 1..Len(h) - 1
          BY <1>0, <5>0
        <5> QED BY <1>4, <1>5, <2>1, <5>1
      <4> QED BY <4>1, <4>2
    <3>5. from = 0 \/ ~InTime(Apart(more, from))
      BY <1>0, <1>4, <1>5, <2>1
    <3>6. from \in 0..Len(more) - 1
      BY <1>0, <1>5, <2>1
    <3>7. longer # <<>>
      BY <1>6, <3>2
    <3> QED BY <3>2, <3>3, <3>4, <3>5, <3>6, <3>7 DEF Series
  <2>3. ASSUME ~InTime(gap) PROVE Series(more, <<>>)
    <3>1. Len(h) \in 0..Len(more) - 1 /\ ~InTime(Apart(more, Len(h)))
      BY <1>0, <1>3, <2>1, <2>3
    <3>2. Len(<<>>) = Len(more) - 1 - Len(h) /\ \A k \in 1..Len(<<>>) : <<>>[k] = Apart(more, Len(h) + k)
      BY <1>0, <2>1
    <3>3. \A k \in Len(h) + 1..Len(more) - 1 : InTime(Apart(more, k))
      BY <1>0, <2>1
    <3> QED BY <3>1, <3>2, <3>3 DEF Series
  <2>4. Len(more) <= Window + 1
    BY <1>0, <1>9, <2>1
  <2> QED BY <1>2, <1>7, <2>1, <2>2, <2>3, <2>4 DEF grown
\* It has not: the oldest tap is forgotten.
<1>10. CASE Len(h) = W + 1
  <2>1. Len(more) = W + 1 /\ \A i \in 1..W + 1 : more[i] = grown[i + 1]
    <3>1. grown # <<>> /\ Len(grown) = W + 1 + 1
      BY <1>0, <1>1, <1>10
    <3>2. /\ Len(Tail(grown)) = Len(grown) - 1
          /\ \A i \in 1..Len(Tail(grown)) : Tail(grown)[i] = grown[i + 1]
      BY <1>1, <3>1, HeadTailProperties
    <3>3. more = Tail(grown)
      BY <1>2, <1>10
    <3> HIDE DEF grown
    <3>4. Len(more) = W + 1
      BY <1>0, <3>1, <3>2, <3>3
    <3> QED BY <3>2, <3>3, <3>4
  <2>2. Latest(more) = tap.at /\ more # <<>>
    BY <1>0, <1>1, <1>10, <2>1 DEF Latest
  <2>3. ASSUME NEW k \in 1..W PROVE Apart(more, k) = Apart(grown, k + 1)
    <3>1. k \in 1..W + 1 /\ k + 1 \in 1..W + 1
      BY <1>0
    <3> QED BY <2>1, <3>1 DEF Apart
  <2>4. ASSUME InTime(gap)
        PROVE  longer # <<>> /\ Series(more, longer)
    <3> DEFINE f == IF from = 0 THEN 0 ELSE from - 1
    <3>0. f \in 0..Len(more) - 1 /\ Len(more) - 1 = W
      BY <1>0, <1>5, <1>10, <2>1
    <3>1. f = 0 \/ ~InTime(Apart(more, f))
      <4> SUFFICES ASSUME from # 0, from # 1 PROVE ~InTime(Apart(more, from - 1))
        BY <1>5
      <4>1. from - 1 \in 1..W /\ from \in 1..Len(h) - 1 /\ from - 1 + 1 = from
        BY <1>0, <1>5, <1>10
      <4>2. Apart(more, from - 1) = Apart(h, from)
        BY <1>4, <2>3, <4>1
      <4> QED BY <1>5, <4>2
    <3>2. ASSUME NEW k \in f + 1..Len(more) - 1 PROVE InTime(Apart(more, k))
      <4>0. k \in 1..W
        BY <1>0, <3>0
      <4>1. CASE k + 1 = Len(h)
        BY <1>3, <2>3, <2>4, <4>0, <4>1
      <4>2. CASE k + 1 # Len(h)
        <5>1. k + 1 \in from + 1..Len(h) - 1 /\ k + 1 \in 1..Len(h) - 1
          BY <1>0, <1>5, <1>10, <3>0, <4>0, <4>2
        <5> QED BY <1>4, <1>5, <2>3, <4>0, <5>1
      <4> QED BY <4>1, <4>2
    <3>3. CASE from = 0
      <4>1. Len(gaps) = Window /\ f = 0
        BY <1>0, <1>5, <1>10, <3>3
      <4>0. /\ Len(longer) = Len(Append(gaps, gap)) - 1
            /\ \A k \in 1..Len(longer) : longer[k] = Append(gaps, gap)[k + 1]
        <5>1. Append(gaps, gap) # <<>> /\ longer = Tail(Append(gaps, gap))
          BY <1>0, <1>7, <1>8, <4>1
        <5> DEFINE all == Append(gaps, gap)
        <5>2. all \in Seq(Int) /\ all # <<>> /\ longer = Tail(all)
          BY <1>8, <5>1
        <5> HIDE DEF all
        <5>3. Len(Tail(all)) = Len(all) - 1 /\ \A k \in 1..Len(Tail(all)) : Tail(all)[k] = all[k + 1]
          BY <5>2, HeadTailProperties
        <5> QED BY <5>2, <5>3 DEF all
      <4>2. Len(longer) = Window /\ Len(longer) = Len(more) - 1 - f /\ longer # <<>>
        <5>1. Len(longer) = Window
          BY <1>0, <1>7, <1>8, <4>0, <4>1
        <5>2. Len(more) - 1 - f = Window
          BY <1>0, <2>1, <4>1
        <5>3. longer # <<>>
          BY <1>0, <5>1
        <5> QED BY <5>1, <5>2, <5>3
      <4>3. ASSUME NEW k \in 1..Len(longer) PROVE longer[k] = Apart(more, f + k)
        <5>1. k \in 1..W /\ k + 1 \in 1..Len(gaps) + 1 /\ f + k = k /\ from + (k + 1) = k + 1
          BY <1>0, <3>3, <4>1, <4>2
        <5>2. longer[k] = Append(gaps, gap)[k + 1]
          BY <1>0, <1>7, <1>8, <4>0, <4>1, <5>1
        <5> QED BY <1>8, <2>3, <5>1, <5>2
      <4> HIDE DEF f
      <4> QED BY <3>0, <3>1, <3>2, <4>2, <4>3 DEF Series
    <3>4. CASE from # 0
      <4>1. Len(gaps) < Window /\ f = from - 1
        BY <1>0, <1>5, <1>6, <1>10, <3>4
      <4>2. /\ longer = Append(gaps, gap) /\ Len(longer) = Len(gaps) + 1
            /\ Len(longer) = Len(more) - 1 - f /\ longer # <<>>
        <5>1. longer = Append(gaps, gap)
          BY <1>7, <4>1
        <5>2. Len(longer) = Len(gaps) + 1
          BY <1>8, <5>1
        <5>3. Len(more) - 1 - f = Len(gaps) + 1
          <6>1. Len(gaps) = Len(h) - 1 - from /\ Len(more) = Len(h) /\ from \in Int /\ Len(h) \in Int
            BY <1>0, <1>5, <1>10, <2>1
          <6> QED BY <4>1, <6>1
        <5>4. longer # <<>>
          BY <1>6, <5>2
        <5> QED BY <5>1, <5>2, <5>3, <5>4
      <4>3. ASSUME NEW k \in 1..Len(longer) PROVE longer[k] = Apart(more, f + k)
        <5>1. f + k \in 1..W /\ f + k + 1 = from + k /\ k \in 1..Len(gaps) + 1
          BY <1>0, <1>5, <1>6, <1>10, <4>1, <4>2
        <5> QED BY <1>8, <2>3, <4>2, <5>1
      <4> HIDE DEF f
      <4> QED BY <3>0, <3>1, <3>2, <4>2, <4>3 DEF Series
    <3> QED BY <3>3, <3>4
  <2>5. ASSUME ~InTime(gap) PROVE Series(more, <<>>)
    <3>1. W \in 1..W /\ W + 1 = Len(h) /\ W \in 0..Len(more) - 1
      BY <1>0, <1>10, <2>1
    <3>2. ~InTime(Apart(more, W))
      BY <1>3, <2>3, <2>5, <3>1
    <3>3. Len(<<>>) = Len(more) - 1 - W /\ \A k \in 1..Len(<<>>) : <<>>[k] = Apart(more, W + k)
      BY <1>0, <2>1
    <3>4. \A k \in W + 1..Len(more) - 1 : InTime(Apart(more, k))
      BY <1>0, <2>1
    <3> QED BY <3>1, <3>2, <3>3, <3>4 DEF Series
  <2>6. Len(more) <= Window + 1
    BY <1>0, <2>1
  <2> QED BY <1>2, <1>7, <2>2, <2>4, <2>5, <2>6 DEF grown
<1> QED BY <1>0, <1>9, <1>10

\* No more gaps are known than the estimator keeps, and it keeps all of these.
LEMMA SeriesIsShort ==
  ASSUME TappingAssumption, NEW h, h \in Seq(HeardTaps), Len(h) <= Window + 1,
         NEW gaps, gaps \in Seq(Int), Series(h, gaps)
  PROVE  Len(gaps) <= Window /\ Tapping!Newest(gaps, Window) = gaps
<1>1. Window \in Nat /\ Len(gaps) \in Nat /\ Len(h) \in Nat
  BY DEF TappingAssumption
<1>2. Len(gaps) <= Window
  BY <1>1 DEF Series
<1>3. Tapping!Min({Window, Len(gaps)}) = Len(gaps)
  BY <1>1, <1>2 DEF Tapping!Min
<1>4. Len(gaps) - Len(gaps) + 1 = 1
  BY <1>1
<1> QED BY <1>1, <1>2, <1>3, <1>4, SubSeqFull DEF Tapping!Newest

\* The unbroken series of the taps heard is unique.
LEMMA UnbrokenIs ==
  ASSUME TappingAssumption, heard \in Seq(HeardTaps), heard # <<>>,
         NEW gaps, gaps \in Seq(Int), Series(heard, gaps)
  PROVE  Tapping!Unbroken = gaps
<1> DEFINE broken == {0} \cup {k \in 1..(Len(heard) - 1) : ~Tapping!Playable(k)}
<1>1. PICK from \in 0..Len(heard) - 1 :
        /\ from = 0 \/ ~InTime(Apart(heard, from))
        /\ \A k \in from + 1..Len(heard) - 1 : InTime(Apart(heard, k))
        /\ Len(gaps) = Len(heard) - 1 - from
        /\ \A k \in 1..Len(gaps) : gaps[k] = Apart(heard, from + k)
  BY DEF Series
<1>2. Len(heard) \in Nat /\ Len(gaps) \in Nat
  OBVIOUS
<1>3. ASSUME NEW k \in 1..Len(heard) - 1
      PROVE  (Tapping!Playable(k) <=> InTime(Apart(heard, k))) /\ Tapping!Gap(k) = Apart(heard, k)
  <2>1. heard[k] \in HeardTaps /\ heard[k + 1] \in HeardTaps
    BY <1>2
  <2>2. Apart(heard, k) \in Int /\ MinGap \in Int /\ MaxGap \in Int
    BY <2>1 DEF Apart, HeardTaps, TappingAssumption
  <2>3. Tapping!Gap(k) = Apart(heard, k)
    BY DEF Tapping!Gap, Apart
  <2> HIDE DEF Tapping!Gap
  <2> QED BY <2>2, <2>3 DEF Tapping!Playable, InTime
<1>4. from \in broken
  <2>1. CASE from = 0
    BY <2>1
  <2>2. CASE from # 0
    <3>1. from \in 1..Len(heard) - 1
      BY <1>1, <1>2, <2>2
    <3> QED BY <1>1, <1>3, <2>2, <3>1
  <2> QED BY <2>1, <2>2
<1>5. ASSUME NEW k \in broken PROVE k \in Int /\ from >= k
  <2>1. CASE k = 0
    BY <1>1, <2>1
  <2>2. CASE k # 0
    <3>1. k \in 1..Len(heard) - 1 /\ ~InTime(Apart(heard, k))
      BY <1>3, <2>2
    <3>2. ~(k \in from + 1..Len(heard) - 1)
      BY <1>1, <3>1
    <3> QED BY <1>1, <1>2, <3>1, <3>2
  <2> QED BY <2>1, <2>2
<1> HIDE DEF broken
<1>6. \A x \in broken : (\A y \in broken : x >= y) => x = from
  BY <1>1, <1>4, <1>5
<1>7. Tapping!Max(broken) = from
  BY <1>4, <1>5, <1>6 DEF Tapping!Max
<1>8. Tapping!Unbroken = [k \in 1..(Len(heard) - 1 - from) |-> Tapping!Gap(from + k)]
  BY <1>7 DEF Tapping!Unbroken, broken
<1>9. gaps = [k \in 1..Len(gaps) |-> gaps[k]]
  OBVIOUS
<1>10. ASSUME NEW k \in 1..Len(gaps) PROVE gaps[k] = Tapping!Gap(from + k)
  <2>1. from + k \in 1..Len(heard) - 1
    BY <1>1, <1>2
  <2> QED BY <1>1, <1>3, <2>1
<1> QED BY <1>1, <1>8, <1>9, <1>10

\* The last of the taps heard.
LEMMA LatestIsTime ==
  ASSUME NEW h, h \in Seq(HeardTaps), h # <<>>
  PROVE  Latest(h) \in Nat
<1>1. Len(h) \in 1..Len(h)
  OBVIOUS
<1>2. h[Len(h)] \in HeardTaps
  BY <1>1
<1> QED BY <1>2 DEF Latest, HeardTaps

\* A tap leaves the estimator with the gaps of the series it continues or begins.
LEMMA HeardKeeps ==
  ASSUME TappingAssumption, NEW est, NEW time, time \in Nat, EstimatorInv(est, time),
         NEW stamp, stamp \in Nat, time <= stamp, NEW from, from \in {"jack", "button"}
  PROVE  EstimatorInv(Tapping!Heard(est, stamp, [at |-> stamp, from |-> from]), stamp)
<1> DEFINE tap == [at |-> stamp, from |-> from]
           after == Tapping!Heard(est, stamp, tap)
           more == Tapping!Newest(Append(est.heard, tap), Window + 1)
           longer == Tapping!Newest(Append(est.intervals, stamp - est.previous), Window)
           counts == est.previous # None /\ stamp - est.previous \in MinGap..MaxGap
<1>0. tap \in HeardTaps /\ tap.at = stamp /\ None # stamp /\ est.heard \in Seq(HeardTaps)
  BY DEF HeardTaps, TappingAssumption, EstimatorInv
<1>1. CASE counts
  <2>1. after = [previous |-> stamp, intervals |-> longer, sequenceAt |-> stamp,
                 bpm |-> Tapping!Tempo(longer), heard |-> more]
    <3>1. est = [previous |-> est.previous, intervals |-> est.intervals,
                 sequenceAt |-> est.sequenceAt, bpm |-> est.bpm, heard |-> est.heard]
      BY DEF EstimatorInv
    <3>2. Tapping!Register(est, stamp) = Tapping!Counted(est, stamp)
      BY <1>1 DEF Tapping!Register
    <3>3. Tapping!Counted(est, stamp) =
            [previous |-> stamp, intervals |-> longer, sequenceAt |-> est.sequenceAt,
             bpm |-> Tapping!Tempo(longer), heard |-> est.heard]
      <4> DEFINE p == est.previous
                 i == est.intervals
                 s == est.sequenceAt
                 b == est.bpm
                 h == est.heard
      <4>1. est = [previous |-> p, intervals |-> i, sequenceAt |-> s, bpm |-> b, heard |-> h]
        BY <3>1
      <4>2. Tapping!Counted(est, stamp) =
              [est EXCEPT !.previous = stamp, !.intervals = longer, !.bpm = Tapping!Tempo(longer)]
        BY DEF Tapping!Counted
      <4> HIDE DEF p, i, s, b, h, longer
      <4> QED BY <4>1, <4>2
    <3> DEFINE reg == Tapping!Register(est, stamp)
               s == est.sequenceAt
               b == Tapping!Tempo(longer)
               h == est.heard
    <3>4. after = [reg EXCEPT !.sequenceAt = stamp, !.heard = more]
      BY DEF Tapping!Heard
    <3>5. reg = [previous |-> stamp, intervals |-> longer, sequenceAt |-> s, bpm |-> b, heard |-> h]
      BY <3>2, <3>3
    <3>6. b = Tapping!Tempo(longer)
      OBVIOUS
    <3> HIDE DEF reg, s, b, h, longer, more, after
    <3>7. after = [previous |-> stamp, intervals |-> longer, sequenceAt |-> stamp, bpm |-> b, heard |-> more]
      BY <3>4, <3>5
    <3> QED BY <3>6, <3>7
  <2>2. est.heard # <<>> /\ est.previous = Latest(est.heard)
    BY <1>1 DEF EstimatorInv
  <2>3. PICK gaps \in Seq(Int) : Series(est.heard, gaps) /\ est.intervals = gaps
    BY <1>1, <2>2 DEF EstimatorInv
  <2> DEFINE gap == stamp - Latest(est.heard)
  <2>4. InTime(gap) /\ longer = Tapping!Newest(Append(gaps, gap), Window)
    BY <1>1, <2>2, <2>3 DEF InTime
  <2>5. Len(est.heard) <= Window + 1
    BY DEF EstimatorInv
  <2> HIDE DEF tap, longer, more, after
  <2>6. /\ more \in Seq(HeardTaps) /\ more # <<>> /\ Len(more) <= Window + 1
        /\ Latest(more) = stamp
        /\ longer \in Seq(Int) /\ longer # <<>> /\ Series(more, longer)
    BY <1>0, <2>2, <2>3, <2>4, <2>5, SeriesGoesOn DEF more
  <2>7. /\ after.previous = stamp /\ after.sequenceAt = stamp /\ after.intervals = longer
        /\ after.bpm = Tapping!Tempo(longer) /\ after.heard = more
    BY <2>1
  <2>8. after = [previous |-> after.previous, intervals |-> after.intervals,
                 sequenceAt |-> after.sequenceAt, bpm |-> after.bpm, heard |-> after.heard]
    BY <2>1
  <2>9. EstimatorInv(after, stamp)
    BY <1>0, <2>6, <2>7, <2>8 DEF EstimatorInv
  <2> QED BY <2>9 DEF after, tap
<1>2. CASE ~counts
  <2>1. after = [previous |-> stamp, intervals |-> <<>>, sequenceAt |-> stamp,
                 bpm |-> est.bpm, heard |-> more]
    <3>1. est = [previous |-> est.previous, intervals |-> est.intervals,
                 sequenceAt |-> est.sequenceAt, bpm |-> est.bpm, heard |-> est.heard]
      BY DEF EstimatorInv
    <3>2. Tapping!Register(est, stamp) = Tapping!Restarted(est, stamp)
      BY <1>2 DEF Tapping!Register
    <3>3. Tapping!Restarted(est, stamp) =
            [previous |-> stamp, intervals |-> <<>>, sequenceAt |-> est.sequenceAt,
             bpm |-> est.bpm, heard |-> est.heard]
      <4> DEFINE p == est.previous
                 i == est.intervals
                 s == est.sequenceAt
                 b == est.bpm
                 h == est.heard
      <4>1. est = [previous |-> p, intervals |-> i, sequenceAt |-> s, bpm |-> b, heard |-> h]
        BY <3>1
      <4>2. Tapping!Restarted(est, stamp) = [est EXCEPT !.previous = stamp, !.intervals = <<>>]
        BY DEF Tapping!Restarted
      <4> HIDE DEF p, i, s, b, h
      <4> QED BY <4>1, <4>2
    <3> DEFINE reg == Tapping!Register(est, stamp)
               s == est.sequenceAt
               b == est.bpm
               h == est.heard
    <3>4. after = [reg EXCEPT !.sequenceAt = stamp, !.heard = more]
      BY DEF Tapping!Heard
    <3>5. reg = [previous |-> stamp, intervals |-> <<>>, sequenceAt |-> s, bpm |-> b, heard |-> h]
      BY <3>2, <3>3
    <3>6. b = est.bpm
      OBVIOUS
    <3> HIDE DEF reg, s, b, h, more, after
    <3>7. after = [previous |-> stamp, intervals |-> <<>>, sequenceAt |-> stamp, bpm |-> b, heard |-> more]
      BY <3>4, <3>5
    <3> QED BY <3>6, <3>7
  <2>2. /\ more \in Seq(HeardTaps) /\ more # <<>> /\ Len(more) <= Window + 1
        /\ Latest(more) = stamp /\ Series(more, <<>>)
    <3>1. CASE est.heard = <<>>
      <4>1. Len(est.heard) = 0 /\ Window + 1 \in Nat \ {0} /\ Append(est.heard, tap) = <<tap>>
        BY <3>1 DEF TappingAssumption
      <4>2. more = <<tap>>
        <5> DEFINE h == est.heard
        <5>1. 0 < Window + 1 /\ Len(h) <= Window + 1 /\ h \in Seq(HeardTaps)
          BY <1>0, <4>1
        <5> HIDE DEF tap, h
        <5>2. Tapping!Newest(Append(h, tap), Window + 1) =
                IF Len(h) < Window + 1 THEN Append(h, tap) ELSE Tail(Append(h, tap))
          BY <1>0, <4>1, <5>1, NewestOfGrown
        <5> QED BY <4>1, <5>1, <5>2 DEF h
      <4>3. Len(<<tap>>) = 1 /\ <<tap>>[1] = tap
        OBVIOUS
      <4>4. Series(more, <<>>)
        <5>1. 0 \in 0..Len(<<tap>>) - 1 /\ Len(<<>>) = Len(<<tap>>) - 1 - 0
          BY <4>3
        <5>2. \A k \in 0 + 1..Len(<<tap>>) - 1 : InTime(Apart(<<tap>>, k))
          BY <4>3
        <5>3. \A k \in 1..Len(<<>>) : <<>>[k] = Apart(<<tap>>, 0 + k)
          OBVIOUS
        <5> HIDE DEF tap
        <5>4. Series(<<tap>>, <<>>)
          BY <5>1, <5>2, <5>3 DEF Series
        <5> QED BY <4>2, <5>4
      <4>5. Latest(<<tap>>) = tap.at /\ <<tap>> # <<>> /\ <<tap>> \in Seq(HeardTaps)
        <5>1. tap \in HeardTaps
          BY <1>0
        <5> HIDE DEF tap
        <5> QED BY <4>3, <5>1 DEF Latest
      <4>6. tap.at = stamp /\ 1 <= Window + 1
        BY <4>1
      <4> HIDE DEF more, tap
      <4> QED BY <4>2, <4>3, <4>4, <4>5, <4>6
    <3>2. CASE est.heard # <<>>
      <4>1. PICK gaps \in Seq(Int) :
              /\ Series(est.heard, gaps)
              /\ IF est.previous = None THEN time - Latest(est.heard) > MaxGap
                 ELSE est.previous = Latest(est.heard) /\ est.intervals = gaps
        BY <3>2 DEF EstimatorInv
      <4> DEFINE gap == stamp - Latest(est.heard)
      <4>2. ~InTime(gap)
        <5>1. Latest(est.heard) \in Nat /\ MaxGap \in Nat
          BY <1>0, <3>2, LatestIsTime DEF TappingAssumption
        <5>2. CASE est.previous = None
          BY <4>1, <5>1, <5>2 DEF InTime
        <5>3. CASE est.previous # None
          BY <1>2, <4>1, <5>3 DEF InTime
        <5> QED BY <5>2, <5>3
      <4>3. Len(est.heard) <= Window + 1
        BY DEF EstimatorInv
      <4>4. gap = tap.at - Latest(est.heard)
        BY <1>0
      <4> HIDE DEF tap, more, after, counts, gap
      <4>5. /\ more \in Seq(HeardTaps) /\ more # <<>> /\ Len(more) <= Window + 1
            /\ Latest(more) = tap.at
            /\ ~InTime(gap) => Series(more, <<>>)
        BY <1>0, <3>2, <4>1, <4>3, <4>4, SeriesGoesOn DEF more
      <4> QED BY <1>0, <4>2, <4>5
    <3> QED BY <3>1, <3>2
  <2> HIDE DEF tap, more, after, counts
  <2>3. /\ after.previous = stamp /\ after.sequenceAt = stamp /\ after.intervals = <<>>
        /\ after.bpm = est.bpm /\ after.heard = more
    BY <2>1
  <2>4. after = [previous |-> after.previous, intervals |-> after.intervals,
                 sequenceAt |-> after.sequenceAt, bpm |-> after.bpm, heard |-> after.heard]
    BY <2>1
  <2>5. EstimatorInv(after, stamp)
    <3>1. <<>> \in Seq(Int) /\ Latest(after.heard) <= stamp /\ after.heard # <<>>
      BY <2>2, <2>3
    <3>2. after.previous # None /\ after.previous = Latest(after.heard)
      BY <1>0, <2>2, <2>3
    <3>3. \E gaps \in Seq(Int) :
            /\ Series(after.heard, gaps)
            /\ gaps # <<>> => after.bpm = Tapping!Tempo(gaps)
            /\ after.previous = Latest(after.heard) /\ after.intervals = gaps
      BY <2>2, <2>3, <3>1, <3>2
    <3> QED BY <2>2, <2>3, <2>4, <3>1, <3>2, <3>3 DEF EstimatorInv
  <2> QED BY <2>5 DEF after, tap
<1> QED BY <1>1, <1>2

\* Time passing changes nothing the estimator holds.
LEMMA EstimatorWaits ==
  ASSUME NEW est, NEW time \in Nat, EstimatorInv(est, time), NEW later \in Nat, time <= later,
         TappingAssumption
  PROVE  EstimatorInv(est, later)
<1>1. CASE est.heard = <<>>
  BY <1>1 DEF EstimatorInv
<1>2. CASE est.heard # <<>>
  <2>1. Latest(est.heard) \in Nat /\ MaxGap \in Nat
    BY <1>2, LatestIsTime DEF EstimatorInv, TappingAssumption
  <2>2. time - Latest(est.heard) > MaxGap => later - Latest(est.heard) > MaxGap
    BY <2>1
  <2>3. Latest(est.heard) <= later
    BY <1>2, <2>1 DEF EstimatorInv
  <2> QED BY <1>2, <2>2, <2>3 DEF EstimatorInv
<1> QED BY <1>1, <1>2

\* The timeout forgets a series only when no tap can continue it.
LEMMA ExpiredKeeps ==
  ASSUME TappingAssumption, now \in Nat, NEW est, EstimatorInv(est, now)
  PROVE  EstimatorInv(Tapping!Expired(est), now)
<1> DEFINE out == est.sequenceAt # None /\ (now < est.sequenceAt \/ now - est.sequenceAt > MaxGap)
           after == Tapping!Expired(est)
<1>1. CASE ~out
  BY <1>1 DEF Tapping!Expired
<1>2. CASE out
  <2>1. after = [previous |-> None, intervals |-> <<>>, sequenceAt |-> None,
                 bpm |-> est.bpm, heard |-> est.heard]
    <3> DEFINE p == est.previous
               i == est.intervals
               s == est.sequenceAt
               b == est.bpm
               h == est.heard
    <3>1. est = [previous |-> p, intervals |-> i, sequenceAt |-> s, bpm |-> b, heard |-> h]
      BY DEF EstimatorInv
    <3>2. after = [est EXCEPT !.previous = None, !.intervals = <<>>, !.sequenceAt = None]
      BY <1>2 DEF Tapping!Expired
    <3>3. b = est.bpm /\ h = est.heard
      OBVIOUS
    <3> HIDE DEF p, i, s, b, h, after
    <3>4. after = [previous |-> None, intervals |-> <<>>, sequenceAt |-> None, bpm |-> b, heard |-> h]
      BY <3>1, <3>2
    <3> QED BY <3>3, <3>4
  <2>2. /\ est.heard \in Seq(HeardTaps) /\ est.heard # <<>> /\ Len(est.heard) <= Window + 1
        /\ Latest(est.heard) <= now /\ est.sequenceAt = Latest(est.heard)
    BY <1>2 DEF EstimatorInv
  <2>3. now - Latest(est.heard) > MaxGap
    <3>1. Latest(est.heard) \in Nat
      BY <2>2, LatestIsTime
    <3> QED BY <1>2, <2>2, <3>1
  <2>4. \E gaps \in Seq(Int) :
          Series(est.heard, gaps) /\ (gaps # <<>> => est.bpm = Tapping!Tempo(gaps))
    BY <2>2 DEF EstimatorInv
  <2> HIDE DEF after, out
  <2>5. /\ after.previous = None /\ after.sequenceAt = None /\ after.intervals = <<>>
        /\ after.bpm = est.bpm /\ after.heard = est.heard
    BY <2>1
  <2>6. after = [previous |-> after.previous, intervals |-> after.intervals,
                 sequenceAt |-> after.sequenceAt, bpm |-> after.bpm, heard |-> after.heard]
    BY <2>1
  <2>7. EstimatorInv(after, now)
    BY <2>2, <2>3, <2>4, <2>5, <2>6 DEF EstimatorInv
  <2> QED BY <2>7 DEF after
<1> QED BY <1>1, <1>2

\* The waiting stamp is the time of its edge.
LEMMA SlotIsItsTime ==
  ASSUME TappingAssumption, TappingInv, slot # None
  PROVE  slot \in passAt..now /\ slot \in Nat /\ Tapping!SlotTime = slot
<1>1. slot \in passAt..now /\ now \in 0..MaxTime /\ passAt \in 0..now /\ MaxTime \in Nat
      /\ MicrosWrap \in Nat /\ MaxTime < MicrosWrap
  BY DEF TappingInv, TappingAssumption
<1>2. ASSUME NEW t \in passAt..now PROVE t % MicrosWrap = t
  BY <1>1
<1>3. \A t \in passAt..now : (t % MicrosWrap = slot) <=> (t = slot)
  BY <1>2
<1>4. slot \in passAt..now /\ slot % MicrosWrap = slot
  BY <1>1, <1>2
<1>5. Tapping!SlotTime = slot
  BY <1>3, <1>4 DEF Tapping!SlotTime
<1> QED BY <1>1, <1>5

\* The invariant is inductive: time, edges of the jack and passes of the foreground keep it.
LEMMA TappingInvStep ==
  ASSUME TappingAssumption, TappingInv, [Tapping!Next]_(Tapping!vars)
  PROVE  TappingInv'
<1>0. now \in 0..MaxTime /\ passAt \in 0..now /\ now \in Nat /\ passAt \in Nat
      /\ MaxTime \in Nat /\ None \notin Nat
  BY DEF TappingInv, TappingAssumption
<1>1. CASE Tapping!Advance
  <2>1. now' = now + 1 /\ now < MaxTime /\ passAt' = passAt /\ slot' = slot /\ Estimator' = Estimator
    BY <1>1 DEF Tapping!Advance, Estimator
  <2>2. EstimatorInv(Estimator, passAt)'
    BY <2>1 DEF TappingInv, EstimatorInv
  <2>3. now' \in 0..MaxTime /\ passAt' \in 0..now' /\ (slot' = None \/ slot' \in passAt'..now')
    BY <1>0, <2>1 DEF TappingInv
  <2> QED BY <2>2, <2>3 DEF TappingInv
<1>2. CASE Tapping!JackTap
  <2>1. now' = now /\ passAt' = passAt /\ Estimator' = Estimator /\ slot' = now % MicrosWrap
    BY <1>2 DEF Tapping!JackTap, Estimator
  <2>2. slot' = now
    BY <1>0, <2>1 DEF TappingAssumption
  <2>3. EstimatorInv(Estimator, passAt)'
    BY <2>1 DEF TappingInv, EstimatorInv
  <2>4. now' \in 0..MaxTime /\ passAt' \in 0..now' /\ (slot' = None \/ slot' \in passAt'..now')
    BY <1>0, <2>1, <2>2
  <2> QED BY <2>3, <2>4 DEF TappingInv
<1>3. ASSUME NEW pressed \in BOOLEAN, Tapping!Pass(pressed) PROVE TappingInv'
  <2> DEFINE est == Estimator
             jackTap == [at |-> Tapping!SlotTime, from |-> "jack"]
             jack == IF slot = None THEN est ELSE Tapping!Heard(est, slot, jackTap)
             buttonTap == [at |-> now, from |-> "button"]
             both == IF pressed THEN Tapping!Heard(jack, now, buttonTap) ELSE jack
             done == Tapping!Expired(both)
  <2>1. EstimatorInv(jack, now)
    <3>1. EstimatorInv(est, passAt)
      BY DEF TappingInv
    <3>2. CASE slot = None
      BY <1>0, <3>1, <3>2, EstimatorWaits
    <3>3. CASE slot # None
      <4>1. slot \in passAt..now /\ slot \in Nat /\ Tapping!SlotTime = slot
        BY <3>3, SlotIsItsTime
      <4>2. EstimatorInv(Tapping!Heard(est, slot, [at |-> slot, from |-> "jack"]), slot)
        <5>1. passAt <= slot /\ "jack" \in {"jack", "button"}
          BY <1>0, <4>1
        <5> HIDE DEF est
        <5> QED BY <1>0, <3>1, <4>1, <5>1, HeardKeeps
      <4>3. jack = Tapping!Heard(est, slot, [at |-> slot, from |-> "jack"])
        BY <3>3, <4>1
      <4> HIDE DEF jack, est
      <4>4. EstimatorInv(jack, slot)
        BY <4>2, <4>3
      <4> QED BY <1>0, <4>1, <4>4, EstimatorWaits
    <3> QED BY <3>2, <3>3
  <2> HIDE DEF jack
  <2>2. EstimatorInv(both, now)
    <3>1. CASE pressed
      <4>1. EstimatorInv(Tapping!Heard(jack, now, [at |-> now, from |-> "button"]), now)
        <5>1. now <= now /\ "button" \in {"jack", "button"}
          BY <1>0
        <5> QED BY <1>0, <2>1, <5>1, HeardKeeps
      <4> QED BY <3>1, <4>1
    <3>2. CASE ~pressed
      BY <2>1, <3>2
    <3> QED BY <3>1, <3>2
  <2> HIDE DEF both
  <2>3. EstimatorInv(done, now)
    BY <1>0, <2>2, ExpiredKeeps
  <2>4. /\ passAt' = now /\ now' = now /\ slot' = None
        /\ previous' = done.previous /\ intervals' = done.intervals
        /\ sequenceAt' = done.sequenceAt /\ bpm' = done.bpm /\ heard' = done.heard
    BY <1>3 DEF Tapping!Pass, jack, both, Estimator
  <2>5. Estimator' = done
    <3>1. Estimator' = [previous |-> previous', intervals |-> intervals', sequenceAt |-> sequenceAt',
                        bpm |-> bpm', heard |-> heard']
      BY DEF Estimator
    <3>2. done = [previous |-> done.previous, intervals |-> done.intervals,
                  sequenceAt |-> done.sequenceAt, bpm |-> done.bpm, heard |-> done.heard]
      BY <2>3 DEF EstimatorInv
    <3> HIDE DEF done
    <3> QED BY <2>4, <3>1, <3>2
  <2>6. EstimatorInv(Estimator', passAt')
    BY <2>3, <2>4, <2>5
  <2>7. EstimatorInv(Estimator, passAt)'
    BY <2>6 DEF EstimatorInv
  <2> QED BY <1>0, <2>4, <2>7 DEF TappingInv
<1>4. CASE UNCHANGED Tapping!vars
  <2>1. now' = now /\ passAt' = passAt /\ slot' = slot /\ Estimator' = Estimator
    BY <1>4 DEF Tapping!vars, Estimator
  <2> QED BY <2>1 DEF TappingInv, EstimatorInv
<1> QED BY <1>1, <1>2, <1>3, <1>4 DEF Tapping!Next

\* However the taps of the button and the jack are mixed, and however late the foreground comes
\* to them, the tempo is the average of the newest taps in time with each other, as long as the
\* microsecond counter of the stamps has not started over (tap_tempo.cpp:34-81,
\* clock_application.cpp): MCExternalTap shows what happens then.
THEOREM AverageAlwaysOfRecentTaps ==
  TappingAssumption => (Tapping!Spec => []Tapping!AverageOfRecentTaps)
<1> SUFFICES ASSUME TappingAssumption PROVE Tapping!Spec => []Tapping!AverageOfRecentTaps
  OBVIOUS
<1>1. Tapping!Init => TappingInv
  <2> SUFFICES ASSUME Tapping!Init PROVE TappingInv
    OBVIOUS
  <2>1. /\ now = 0 /\ passAt = 0 /\ slot = None /\ previous = None /\ sequenceAt = None
        /\ heard = <<>>
    BY DEF Tapping!Init
  <2>2. /\ Estimator.heard = <<>> /\ Estimator.previous = None /\ Estimator.sequenceAt = None
        /\ Estimator = [previous |-> Estimator.previous, intervals |-> Estimator.intervals,
                        sequenceAt |-> Estimator.sequenceAt, bpm |-> Estimator.bpm,
                        heard |-> Estimator.heard]
    BY <2>1 DEF Estimator
  <2>3. Window \in Nat /\ MaxTime \in Nat
    BY DEF TappingAssumption
  <2>4. EstimatorInv(Estimator, passAt)
    BY <2>2, <2>3 DEF EstimatorInv
  <2> QED BY <2>1, <2>3, <2>4 DEF TappingInv
<1>2. TappingInv /\ [Tapping!Next]_(Tapping!vars) => TappingInv'
  BY TappingInvStep
<1>3. TappingInv => Tapping!AverageOfRecentTaps
  <2> SUFFICES ASSUME TappingInv, Len(heard) > 1, Tapping!Unbroken # <<>>
               PROVE  bpm = Tapping!Tempo(Tapping!Newest(Tapping!Unbroken, Window))
    BY DEF Tapping!AverageOfRecentTaps
  <2>1. Estimator.heard = heard /\ Estimator.bpm = bpm
    BY DEF Estimator
  <2>2. heard \in Seq(HeardTaps) /\ Len(heard) <= Window + 1
    BY <2>1 DEF TappingInv, EstimatorInv
  <2>3. heard # <<>>
    BY <2>2
  <2>4. PICK gaps \in Seq(Int) : Series(heard, gaps) /\ (gaps # <<>> => bpm = Tapping!Tempo(gaps))
    BY <2>1, <2>3 DEF TappingInv, EstimatorInv
  <2>5. Tapping!Unbroken = gaps
    BY <2>2, <2>3, <2>4, UnbrokenIs
  <2>6. Tapping!Newest(gaps, Window) = gaps
    BY <2>2, <2>4, SeriesIsShort
  <2> HIDE DEF Tapping!AverageOfRecentTaps
  <2> QED BY <2>4, <2>5, <2>6
<1> QED BY <1>1, <1>2, <1>3, PTL DEF Tapping!Spec

-----------------------------------------------------------------------------
(* The board of a boot game. *)

Entry == [score : Nat, name : Scores!Names]

\* That there is no record is neither a board nor an entry.
BoardAssumption == Scores!ArcadeAssumption /\ NoRecord \notin Seq(Entry) \cup Entry

\* `order' lists the entries as they rank, each once.
IsRanking(order, entries) ==
  /\ order \in [1..Len(entries) -> 1..Len(entries)]
  /\ \A i, j \in 1..Len(entries) : i < j => Scores!Ahead(entries, order[i], order[j])
  /\ \A i \in 1..Len(entries) : \E k \in 1..Len(entries) : order[k] = i

\* The board is the head of the list.
IsHead(board, order, entries) ==
  /\ Len(board) = IF Len(entries) <= MaxEntries THEN Len(entries) ELSE MaxEntries
  /\ \A k \in 1..Len(board) : board[k] = entries[order[k]]

Ranked(board, entries) == \E order : IsRanking(order, entries) /\ IsHead(board, order, entries)

BoardInv ==
  /\ record \in Seq(Entry) \cup {NoRecord}
  /\ legacy \in Entry \cup {NoRecord}
  /\ history \in Seq(Entry)
  /\ pending \in Nat /\ initials \in Scores!Names /\ letter \in 0..Letters - 1
  /\ Ranked(Scores!Load, history)

\* A set of numbers has a least one.
LEMMA LeastOf ==
  ASSUME NEW T \in SUBSET Nat, T # {}
  PROVE  \E m \in T : \A k \in T : m <= k
<1> DEFINE R == StrictSubsetOrdering(Nat)
           Below == {1..n : n \in T}
<1>1. Below \subseteq FiniteSubsetsOf(Nat)
  <2> SUFFICES ASSUME NEW n \in T PROVE 1..n \in FiniteSubsetsOf(Nat)
    OBVIOUS
  <2>1. IsFiniteSet(1..n) BY FS_Interval
  <2> QED BY <2>1 DEF FiniteSubsetsOf
<1>2. IsWellFoundedOn(R, FiniteSubsetsOf(Nat))
  BY FS_StrictSubsetOrderingWellFounded
<1>3. PICK x \in Below : \A y \in Below : ~ (<<y, x>> \in R)
  <2>1. Below # {} OBVIOUS
  <2> HIDE DEF R, Below
  <2> QED BY <1>1, <1>2, <2>1, WFMin
<1>4. PICK m \in T : x = 1..m
  BY <1>3
<1>5. ASSUME NEW k \in T PROVE m <= k
  <2> SUFFICES ASSUME k < m PROVE FALSE OBVIOUS
  <2>1. 1..k \in SUBSET Nat /\ 1..m \in SUBSET Nat OBVIOUS
  <2>2. 1..k \subseteq 1..m /\ m \in 1..m /\ m \notin 1..k OBVIOUS
  <2>3. <<1..k, 1..m>> \in R BY <2>1, <2>2 DEF StrictSubsetOrdering
  <2> QED BY <1>3, <1>4, <2>3
<1> QED BY <1>5

\* The place of a new entry: behind everything that is as good, ahead of what is not.
LEMMA RankOf ==
  ASSUME NEW b \in Seq(Entry), NEW s \in Nat, NEW r, r = Scores!QualifyingRank(s, b), r # 0,
         BoardAssumption
  PROVE  /\ r \in 1..Len(b) + 1
         /\ \A k \in 1..Len(b) : k < r => b[k].score >= s
         /\ r <= Len(b) => s > b[r].score
         /\ r > Len(b) => Len(b) < MaxEntries
<1> DEFINE lower == {i \in DOMAIN b : s > b[i].score}
<1>0. s # 0 BY DEF Scores!QualifyingRank
<1>1. CASE lower = {}
  <2>1. r = Len(b) + 1 /\ Len(b) < MaxEntries
    BY <1>0, <1>1 DEF Scores!QualifyingRank
  <2>2. ASSUME NEW k \in 1..Len(b) PROVE b[k].score >= s
    <3>1. b[k] \in Entry BY ElementOfSeq
    <3> QED BY <1>1, <3>1 DEF Entry
  <2> QED BY <2>1, <2>2
<1>2. CASE lower # {}
  <2>1. lower \in SUBSET Nat OBVIOUS
  <2>2. \E i \in lower : \A j \in lower : i <= j
    <3> HIDE DEF lower
    <3> QED BY <1>2, <2>1, LeastOf
  <2>3. r = CHOOSE i \in lower : \A j \in lower : i <= j
    BY <1>0, <1>2 DEF Scores!QualifyingRank
  <2>4. r \in lower /\ \A j \in lower : r <= j
    <3> HIDE DEF lower
    <3> QED BY <2>2, <2>3
  <2>5. ASSUME NEW k \in 1..Len(b), k < r PROVE b[k].score >= s
    <3>1. b[k] \in Entry BY ElementOfSeq
    <3> QED BY <2>4, <2>5, <3>1 DEF Entry
  <2> QED BY <2>4, <2>5
<1> QED BY <1>1, <1>2

\* A board with one more entry at rank r, cut to its capacity.
LEMMA InsertedIs ==
  ASSUME NEW b \in Seq(Entry), NEW e \in Entry, NEW r \in 1..Len(b) + 1, BoardAssumption
  PROVE  /\ Scores!Inserted(b, r, e) \in Seq(Entry)
         /\ Len(Scores!Inserted(b, r, e)) =
              IF Len(b) + 1 <= MaxEntries THEN Len(b) + 1 ELSE MaxEntries
         /\ \A k \in 1..Len(Scores!Inserted(b, r, e)) :
              Scores!Inserted(b, r, e)[k] =
                IF k < r THEN b[k] ELSE IF k = r THEN e ELSE b[k - 1]
<1> DEFINE front == SubSeq(b, 1, r - 1)
           back == SubSeq(b, r, Len(b))
           longer == front \o <<e>> \o back
<1>1. front \in Seq(Entry) /\ Len(front) = r - 1 /\ \A k \in 1..r - 1 : front[k] = b[k]
  OBVIOUS
<1>2. back \in Seq(Entry) /\ Len(back) = Len(b) + 1 - r
      /\ \A k \in 1..Len(b) + 1 - r : back[k] = b[r + k - 1]
  OBVIOUS
<1>3. longer \in Seq(Entry) /\ Len(longer) = Len(b) + 1
      /\ \A k \in 1..Len(b) + 1 :
           longer[k] = IF k < r THEN b[k] ELSE IF k = r THEN e ELSE b[k - 1]
  <2> HIDE DEF front, back
  <2>1. <<e>> \in Seq(Entry) /\ Len(<<e>>) = 1 /\ <<e>>[1] = e OBVIOUS
  <2> DEFINE start == front \o <<e>>
  <2>2. start \in Seq(Entry) /\ Len(start) = r
        /\ \A k \in 1..r : start[k] = IF k < r THEN b[k] ELSE e
    BY <1>1, <2>1
  <2> HIDE DEF start
  <2>3. longer = start \o back BY DEF start
  <2> HIDE DEF longer
  <2>4. longer \in Seq(Entry) /\ Len(longer) = Len(b) + 1
    <3>1. longer \in Seq(Entry) /\ Len(longer) = Len(start) + Len(back)
      BY <2>2, <2>3, <1>2, ConcatProperties
    <3>2. Len(b) \in Nat OBVIOUS
    <3> QED BY <3>1, <3>2, <2>2, <1>2
  <2>5. ASSUME NEW k \in 1..Len(b) + 1
        PROVE  longer[k] = IF k < r THEN b[k] ELSE IF k = r THEN e ELSE b[k - 1]
    <3>1. longer[k] = IF k <= r THEN start[k] ELSE back[k - r]
      BY <2>2, <2>3, <1>2
    <3>2. CASE k <= r
      <4>1. longer[k] = start[k] BY <3>1, <3>2
      <4>2. start[k] = IF k < r THEN b[k] ELSE e BY <2>2, <3>2
      <4> QED BY <3>2, <4>1, <4>2
    <3>3. CASE k > r
      <4>1. k - r \in 1..Len(b) + 1 - r BY <3>3
      <4>2. back[k - r] = b[r + (k - r) - 1] BY <1>2, <4>1
      <4>3. r + (k - r) - 1 = k - 1 BY <3>3
      <4> QED BY <3>1, <3>3, <4>2, <4>3
    <3> QED BY <3>2, <3>3
  <2> QED BY <2>4, <2>5
<1>4. Scores!InsertAt(b, r, e) = longer
  BY DEF Scores!InsertAt
<1> HIDE DEF longer
<1> QED BY <1>3, <1>4 DEF Scores!Inserted, BoardAssumption, Scores!ArcadeAssumption

\* The board stays the head of the list when an entry that qualifies is inserted.
LEMMA RankedInsert ==
  ASSUME NEW b \in Seq(Entry), NEW h \in Seq(Entry), NEW e \in Entry, NEW r,
         r = Scores!QualifyingRank(e.score, b), r # 0, Ranked(b, h), BoardAssumption
  PROVE  Ranked(Scores!Inserted(b, r, e), Append(h, e))
<1> DEFINE n == Len(h)
           longer == Append(h, e)
           inserted == Scores!Inserted(b, r, e)
<1>0. MaxEntries \in Nat /\ MaxEntries > 0 BY DEF BoardAssumption, Scores!ArcadeAssumption
<1>1. PICK order : IsRanking(order, h) /\ IsHead(b, order, h)
  BY DEF Ranked
<1>2. e.score \in Nat BY DEF Entry
<1>3. /\ r \in 1..Len(b) + 1
      /\ \A k \in 1..Len(b) : k < r => b[k].score >= e.score
      /\ r <= Len(b) => e.score > b[r].score
      /\ r > Len(b) => Len(b) < MaxEntries
  BY <1>2, RankOf
<1>4. /\ longer \in Seq(Entry) /\ Len(longer) = n + 1 /\ n \in Nat
      /\ longer[n + 1] = e /\ \A i \in 1..n : longer[i] = h[i]
  OBVIOUS
<1>5. \A i \in 1..n : h[i].score \in Nat
  <2> SUFFICES ASSUME NEW i \in 1..n PROVE h[i].score \in Nat OBVIOUS
  <2>1. h[i] \in Entry BY ElementOfSeq
  <2> QED BY <2>1 DEF Entry
<1>6. r \in 1..n + 1 /\ Len(b) <= n /\ Len(b) \in Nat
  BY <1>0, <1>1, <1>3, <1>4 DEF IsHead
<1> DEFINE wider == [k \in 1..n + 1 |-> IF k < r THEN order[k] ELSE IF k = r THEN n + 1 ELSE order[k - 1]]
<1>7. order \in [1..n -> 1..n]
  BY <1>1 DEF IsRanking
<1>8. wider \in [1..n + 1 -> 1..n + 1]
  BY <1>4, <1>6, <1>7
<1>9. ASSUME NEW k \in 1..n, k < r PROVE h[order[k]].score >= e.score
  <2>1. k \in 1..Len(b) BY <1>3, <1>6, <1>9
  <2>2. b[k] = h[order[k]] BY <1>1, <2>1 DEF IsHead
  <2> QED BY <1>3, <1>9, <2>1, <2>2
<1>10. ASSUME NEW k \in 1..n, r <= k PROVE e.score > h[order[k]].score
  <2>1. r <= Len(b) BY <1>0, <1>1, <1>3, <1>4, <1>6, <1>10 DEF IsHead
  <2>2. b[r] = h[order[r]] BY <1>1, <1>3, <2>1 DEF IsHead
  <2>3. e.score > h[order[r]].score BY <1>3, <2>1, <2>2
  <2>4. r < k => Scores!Ahead(h, order[r], order[k])
    BY <1>1, <1>3, <1>10, <1>6 DEF IsRanking
  <2>5. order[r] \in 1..n /\ order[k] \in 1..n
    BY <1>6, <1>7, <1>10
  <2> QED BY <2>3, <2>4, <2>5, <1>5, <1>2, <1>6, <1>10 DEF Scores!Ahead
<1>11. ASSUME NEW i \in 1..n + 1, NEW j \in 1..n + 1, i < j
       PROVE  Scores!Ahead(longer, wider[i], wider[j])
  <2> DEFINE x == IF i < r THEN i ELSE i - 1
             y == IF j < r THEN j ELSE j - 1
  <2>1. CASE i # r /\ j # r
    <3>1. x \in 1..n /\ y \in 1..n /\ x < y BY <1>4, <1>6, <1>11, <2>1
    <3>2. wider[i] = order[x] /\ wider[j] = order[y] BY <2>1
    <3>3. order[x] \in 1..n /\ order[y] \in 1..n BY <1>7, <3>1
    <3>4. Scores!Ahead(h, order[x], order[y]) BY <1>1, <3>1 DEF IsRanking
    <3> QED BY <1>4, <3>2, <3>3, <3>4 DEF Scores!Ahead
  <2>2. CASE i = r
    <3>1. y \in 1..n /\ r <= y /\ wider[i] = n + 1 /\ wider[j] = order[y]
      BY <1>4, <1>6, <1>11, <2>2
    <3>2. order[y] \in 1..n BY <1>7, <3>1
    <3>3. e.score > h[order[y]].score BY <1>10, <3>1
    <3> QED BY <1>4, <3>1, <3>2, <3>3 DEF Scores!Ahead
  <2>3. CASE j = r
    <3>1. x \in 1..n /\ x < r /\ wider[i] = order[x] /\ wider[j] = n + 1
      BY <1>4, <1>6, <1>11, <2>3
    <3>2. order[x] \in 1..n /\ order[x] < n + 1 BY <1>7, <1>4, <3>1
    <3>3. h[order[x]].score >= e.score BY <1>9, <3>1
    <3> QED BY <1>2, <1>4, <1>5, <3>1, <3>2, <3>3 DEF Scores!Ahead
  <2> QED BY <2>1, <2>2, <2>3
<1>12. ASSUME NEW i \in 1..n + 1 PROVE \E k \in 1..n + 1 : wider[k] = i
  <2>1. CASE i = n + 1
    BY <1>6, <2>1
  <2>2. CASE i # n + 1
    <3>1. PICK k \in 1..n : order[k] = i BY <1>1, <1>4, <2>2 DEF IsRanking
    <3>2. CASE k < r
      <4>1. k \in 1..n + 1 /\ wider[k] = i BY <1>4, <3>1, <3>2
      <4> QED BY <4>1
    <3>3. CASE k >= r
      <4>1. k + 1 \in 1..n + 1 /\ wider[k + 1] = order[k] BY <1>4, <1>6, <3>1, <3>3
      <4> QED BY <3>1, <4>1
    <3> QED BY <3>2, <3>3, <1>6
  <2> QED BY <2>1, <2>2
<1>13. IsRanking(wider, longer)
  <2> HIDE DEF wider, longer
  <2> QED BY <1>4, <1>8, <1>11, <1>12 DEF IsRanking
<1>14. /\ inserted \in Seq(Entry)
       /\ Len(inserted) = IF Len(b) + 1 <= MaxEntries THEN Len(b) + 1 ELSE MaxEntries
       /\ \A k \in 1..Len(inserted) :
            inserted[k] = IF k < r THEN b[k] ELSE IF k = r THEN e ELSE b[k - 1]
  BY <1>3, InsertedIs
<1> HIDE DEF inserted
<1>15. Len(inserted) = IF n + 1 <= MaxEntries THEN n + 1 ELSE MaxEntries
  BY <1>0, <1>1, <1>4, <1>14 DEF IsHead
<1>16. ASSUME NEW k \in 1..Len(inserted) PROVE inserted[k] = longer[wider[k]]
  <2>1. k \in 1..n + 1 BY <1>0, <1>4, <1>15
  <2>2. CASE k = r
    BY <1>4, <1>14, <2>1, <2>2
  <2>3. CASE k < r
    <3>1. k \in 1..Len(b) /\ k \in 1..n BY <1>3, <1>6, <2>3
    <3>2. b[k] = h[order[k]] /\ order[k] \in 1..n BY <1>1, <1>7, <3>1 DEF IsHead
    <3> QED BY <1>4, <1>14, <2>1, <2>3, <3>2
  <2>4. CASE k > r
    <3>1. k - 1 \in 1..Len(b) /\ k - 1 \in 1..n BY <1>0, <1>3, <1>6, <1>14, <2>4
    <3>2. b[k - 1] = h[order[k - 1]] /\ order[k - 1] \in 1..n BY <1>1, <1>7, <3>1 DEF IsHead
    <3>3. inserted[k] = b[k - 1] BY <1>3, <1>14, <2>4
    <3>4. wider[k] = order[k - 1] BY <1>3, <2>1, <2>4
    <3>5. longer[order[k - 1]] = h[order[k - 1]] BY <1>4, <3>2
    <3> HIDE DEF wider, longer
    <3> QED BY <3>2, <3>3, <3>4, <3>5
  <2>5. k = r \/ k < r \/ k > r BY <2>1, <1>4, <1>6
  <2> QED BY <2>2, <2>3, <2>4, <2>5
<1>17. IsHead(inserted, wider, longer)
  <2> HIDE DEF wider, longer
  <2> QED BY <1>4, <1>15, <1>16 DEF IsHead
<1> QED BY <1>13, <1>17 DEF Ranked, inserted

\* The head of the list holds the entries whose place is on the board.
LEMMA RankedIsTop ==
  ASSUME NEW b \in Seq(Entry), NEW h \in Seq(Entry), Ranked(b, h), BoardAssumption
  PROVE  /\ Len(b) = IF Len(h) <= MaxEntries THEN Len(h) ELSE MaxEntries
         /\ \A i \in DOMAIN h : Scores!Place(h, i) <= MaxEntries => b[Scores!Place(h, i)] = h[i]
<1>1. PICK order : IsRanking(order, h) /\ IsHead(b, order, h)
  BY DEF Ranked
<1>2. Len(h) \in Nat /\ DOMAIN h = 1..Len(h) OBVIOUS
<1>3. order \in [1..Len(h) -> 1..Len(h)] BY <1>1 DEF IsRanking
<1>4. ASSUME NEW i \in 1..Len(h), NEW j \in 1..Len(h)
      PROVE  ~(Scores!Ahead(h, i, j) /\ Scores!Ahead(h, j, i)) /\ ~Scores!Ahead(h, i, i)
  <2>1. h[i] \in Entry /\ h[j] \in Entry BY ElementOfSeq
  <2> QED BY <2>1 DEF Scores!Ahead, Entry
<1>5. ASSUME NEW k \in 1..Len(h) PROVE Scores!Place(h, order[k]) = k
  <2> DEFINE better == {j \in DOMAIN h : Scores!Ahead(h, j, order[k])}
             first == [m \in 1..k - 1 |-> order[m]]
  <2>1. order[k] \in 1..Len(h) BY <1>3
  <2>2. \A m \in 1..Len(h) : Scores!Ahead(h, order[m], order[k]) <=> m < k
    <3> SUFFICES ASSUME NEW m \in 1..Len(h)
                 PROVE  Scores!Ahead(h, order[m], order[k]) <=> m < k
      OBVIOUS
    <3>1. order[m] \in 1..Len(h) BY <1>3
    <3>2. m < k => Scores!Ahead(h, order[m], order[k]) BY <1>1 DEF IsRanking
    <3>3. k < m => Scores!Ahead(h, order[k], order[m]) BY <1>1 DEF IsRanking
    <3> QED BY <1>4, <2>1, <3>1, <3>2, <3>3
  <2>3. first \in [1..k - 1 -> better]
    <3> SUFFICES ASSUME NEW m \in 1..k - 1 PROVE order[m] \in better OBVIOUS
    <3>1. m \in 1..Len(h) /\ m < k BY <1>2
    <3> QED BY <1>3, <2>2, <3>1
  <2>4. \A l, m \in 1..k - 1 : first[l] = first[m] => l = m
    <3> SUFFICES ASSUME NEW l \in 1..k - 1, NEW m \in 1..k - 1, l < m PROVE order[l] # order[m]
      OBVIOUS
    <3>1. l \in 1..Len(h) /\ m \in 1..Len(h) BY <1>2
    <3>2. Scores!Ahead(h, order[l], order[m]) BY <1>1, <3>1 DEF IsRanking
    <3> QED BY <1>3, <1>4, <3>1, <3>2
  <2>5. \A j \in better : \E m \in 1..k - 1 : first[m] = j
    <3> SUFFICES ASSUME NEW j \in better PROVE \E m \in 1..k - 1 : first[m] = j OBVIOUS
    <3>1. PICK m \in 1..Len(h) : order[m] = j BY <1>1, <1>2 DEF IsRanking
    <3>2. m < k BY <2>2, <3>1
    <3>3. m \in 1..k - 1 BY <3>2
    <3> QED BY <3>1, <3>3
  <2>6. ExistsBijection(1..k - 1, better)
    <3> HIDE DEF better, first
    <3>1. first \in Bijection(1..k - 1, better)
      BY <2>3, <2>4, <2>5 DEF Bijection, Injection, Surjection, IsInjective
    <3> QED BY <3>1 DEF ExistsBijection
  <2>7. Cardinality(better) = k - 1
    <3>1. k - 1 \in Nat BY <1>2
    <3> HIDE DEF better
    <3> QED BY <2>6, <3>1, FS_CountingElements
  <2>8. Scores!Place(h, order[k]) = 1 + Cardinality(better)
    <3>1. ASSUME NEW i PROVE Scores!Place(h, i) = 1 + Cardinality({j \in DOMAIN h : Scores!Ahead(h, j, i)})
      BY Zenon DEF Scores!Place, Cardinality, Scores!Cardinality
    <3> QED BY <3>1, Zenon
  <2> HIDE DEF better
  <2> QED BY <1>2, <2>7, <2>8
<1>6. ASSUME NEW i \in DOMAIN h, Scores!Place(h, i) <= MaxEntries
      PROVE  b[Scores!Place(h, i)] = h[i]
  <2>1. PICK k \in 1..Len(h) : order[k] = i BY <1>1, <1>2 DEF IsRanking
  <2>2. Scores!Place(h, i) = k BY <1>5, <2>1
  <2>3. k \in 1..Len(b)
    BY <1>1, <1>6, <2>2 DEF IsHead, BoardAssumption, Scores!ArcadeAssumption
  <2> QED BY <1>1, <2>1, <2>2, <2>3 DEF IsHead
<1> QED BY <1>1, <1>6 DEF IsHead

-----------------------------------------------------------------------------
\* The board is a sequence of entries; an empty one ranks an empty history.
LEMMA LoadIsBoard == ASSUME BoardAssumption, BoardInv PROVE Scores!Load \in Seq(Entry)
BY DEF BoardInv, BoardAssumption, Scores!Load, Scores!Fallback

LEMMA RankedFew ==
  ASSUME BoardAssumption, NEW b \in Seq(Entry), Len(b) <= 1 PROVE Ranked(b, b)
<1>1. Len(b) \in Nat /\ MaxEntries \in Nat /\ MaxEntries > 0
  BY DEF BoardAssumption, Scores!ArcadeAssumption
<1> DEFINE order == [k \in 1..Len(b) |-> k]
<1>2. IsRanking(order, b) BY <1>1 DEF IsRanking
<1>3. IsHead(b, order, b) BY <1>1 DEF IsHead
<1> QED BY <1>2, <1>3 DEF Ranked

LEMMA BoardInvInitially == ASSUME BoardAssumption, Scores!Init PROVE BoardInv
<1> USE DEF BoardAssumption, Scores!ArcadeAssumption
<1>1. Scores!FirstName \in Scores!Names
  BY DEF Scores!FirstName, Scores!Names
<1>2. legacy \in Entry \cup {NoRecord}
  BY <1>1 DEF Scores!Init, Entry
<1>3. Scores!Fallback \in Seq(Entry) /\ Len(Scores!Fallback) <= 1
  BY <1>2 DEF Scores!Fallback
<1>4. Ranked(Scores!Load, history)
  BY <1>3, RankedFew DEF Scores!Init, Scores!Load
<1> QED BY <1>1, <1>2, <1>3, <1>4 DEF BoardInv, Scores!Init, Scores!Rest

\* The inductive step.
LEMMA BoardInvPreserved ==
  ASSUME BoardAssumption, BoardInv, [Scores!Next]_Scores!vars PROVE BoardInv'
<1>0. /\ Letters \in Nat /\ Letters > 0 /\ MaxEntries \in Nat /\ MaxEntries > 0
      /\ Outcomes \subseteq {"ok", "failed", "late"} /\ NoRecord \notin Seq(Entry) \cup Entry
      /\ MaxScore \in Nat
  BY DEF BoardAssumption, Scores!ArcadeAssumption
<1>1. Scores!FirstName \in Scores!Names
  BY <1>0 DEF Scores!FirstName, Scores!Names
<1>2. Scores!Load \in Seq(Entry)
  BY LoadIsBoard
<1>3. CASE UNCHANGED <<record, legacy, history>> /\ pending' \in Nat
           /\ initials' \in Scores!Names /\ letter' \in 0..Letters - 1
  BY <1>3 DEF BoardInv, Scores!Load, Scores!Fallback
<1>4. CASE UNCHANGED Scores!vars
  BY <1>3, <1>4 DEF BoardInv, Scores!vars
<1>5. CASE Scores!BootClock \/ Scores!PowerLoss \/ Scores!StartRun \/ Scores!NextInitial
           \/ Scores!RestartRun
  BY <1>0, <1>1, <1>3, <1>5
     DEF BoardInv, Scores!BootClock, Scores!PowerLoss, Scores!StartRun, Scores!NextInitial,
         Scores!RestartRun, Scores!shell
<1>6. ASSUME NEW score \in 0..MaxScore, Scores!FinishRun(score) PROVE BoardInv'
  <2>1. initials' \in Scores!Names /\ letter' \in 0..Letters - 1
    BY <1>0, <1>1, <1>6 DEF BoardInv, Scores!FinishRun
  <2> QED BY <1>3, <1>6, <2>1 DEF BoardInv, Scores!FinishRun
<1>7. ASSUME NEW delta \in {-1, 1}, Scores!TurnLetter(delta) PROVE BoardInv'
  <2>1. letter' \in 0..Letters - 1
    BY <1>0, <1>7 DEF BoardInv, Scores!TurnLetter
  <2>2. initials' \in Scores!Names
    BY <2>1, <1>7 DEF BoardInv, Scores!TurnLetter, Scores!Names
  <2> QED BY <1>3, <1>7, <2>1, <2>2 DEF BoardInv, Scores!TurnLetter
<1>8. ASSUME NEW delta \in {-1, 1}, Scores!Scroll(delta) PROVE BoardInv'
  BY <1>3, <1>8 DEF BoardInv, Scores!Scroll
<1>9. ASSUME NEW o \in Outcomes, Scores!BootGame(o) PROVE BoardInv'
  <2>1. record' \in Seq(Entry) \cup {NoRecord} /\ Scores!Load' = Scores!Load
    BY <1>0, <1>2, <1>9
       DEF BoardInv, Scores!BootGame, Scores!Saved, Scores!Load, Scores!Fallback
  <2>2. legacy' = legacy /\ history' = history /\ pending' = 0 /\ letter' = 0
        /\ initials' = Scores!FirstName
    BY <1>9 DEF Scores!BootGame, Scores!Begin
  <2> QED BY <1>0, <1>1, <2>1, <2>2 DEF BoardInv
<1>10. ASSUME NEW o \in Outcomes, Scores!EnterName(o) PROVE BoardInv'
  <2> DEFINE entry == [score |-> pending, name |-> initials]
             r == Scores!QualifyingRank(pending, Scores!Load)
             board == Scores!Inserted(Scores!Load, r, entry)
  <2>1. entry \in Entry /\ entry.score = pending BY DEF BoardInv, Entry
  <2>2. /\ record' = IF r = 0 THEN record ELSE Scores!Saved(o, board)
        /\ history' = IF r = 0 \/ o = "failed" THEN history ELSE Append(history, entry)
        /\ legacy' = legacy /\ pending' = pending /\ initials' = initials /\ letter' = 0
    BY <1>10 DEF Scores!EnterName
  <2>3. CASE r = 0 \/ o = "failed"
    BY <1>0, <1>3, <2>2, <2>3 DEF BoardInv, Scores!Saved
  <2>4. CASE r # 0 /\ o # "failed"
    <3>1. record' = board /\ history' = Append(history, entry)
      BY <2>2, <2>4 DEF Scores!Saved
    <3>2. r = Scores!QualifyingRank(entry.score, Scores!Load) BY <2>1
    <3>3. Ranked(board, Append(history, entry))
      <4>1. history \in Seq(Entry) /\ Ranked(Scores!Load, history) BY DEF BoardInv
      <4> HIDE DEF r, entry
      <4> QED BY <1>2, <2>1, <2>4, <3>2, <4>1, RankedInsert
    <3>4. board \in Seq(Entry)
      <4>1. r \in 1..Len(Scores!Load) + 1
        <5> HIDE DEF r, entry
        <5> QED BY <1>2, <2>1, <2>4, <3>2, RankOf DEF Entry
      <4> HIDE DEF r, entry
      <4> QED BY <1>2, <2>1, <4>1, InsertedIs
    <3>5. history' \in Seq(Entry) BY <2>1, <3>1 DEF BoardInv
    <3>6. Scores!Load' = board
      BY <1>0, <3>1, <3>4 DEF Scores!Load
    <3> HIDE DEF board, entry, r
    <3> QED BY <1>0, <2>2, <3>1, <3>3, <3>4, <3>5, <3>6 DEF BoardInv
  <2> QED BY <2>3, <2>4
<1>11. ASSUME NEW o \in Outcomes, Scores!Clear(o) PROVE BoardInv'
  <2>1. UNCHANGED <<legacy, pending, initials, letter>>
    BY <1>11 DEF Scores!Clear, Scores!shell
  <2>2. CASE o = "failed"
    BY <1>3, <1>11, <2>1, <2>2 DEF BoardInv, Scores!Clear, Scores!Saved
  <2>3. CASE o # "failed"
    <3>1. record' = <<>> /\ history' = <<>> /\ <<>> \in Seq(Entry)
      BY <1>11, <2>3 DEF Scores!Clear, Scores!Saved
    <3>2. Scores!Load' = <<>> BY <1>0, <3>1 DEF Scores!Load
    <3>3. Ranked(<<>>, <<>>)
      <4>1. Len(<<>>) <= 1 OBVIOUS
      <4> QED BY RankedFew, <3>1, <4>1
    <3> QED BY <2>1, <3>1, <3>2, <3>3 DEF BoardInv
  <2> QED BY <2>2, <2>3
<1>12. ASSUME NEW o \in Outcomes, Scores!FactoryReset(o) PROVE BoardInv'
  <2>1. record' = NoRecord /\ legacy' = NoRecord /\ history' = <<>> /\ <<>> \in Seq(Entry)
        /\ UNCHANGED <<pending, initials, letter>>
    BY <1>12 DEF Scores!FactoryReset, Scores!shell
  <2>2. Scores!Load' = <<>> BY <2>1 DEF Scores!Load, Scores!Fallback
  <2>3. Ranked(<<>>, <<>>)
    <3>1. Len(<<>>) <= 1 OBVIOUS
    <3> QED BY RankedFew, <2>1, <3>1
  <2> QED BY <2>1, <2>2, <2>3 DEF BoardInv
<1> QED
  BY <1>4, <1>5, <1>6, <1>7, <1>8, <1>9, <1>10, <1>11, <1>12 DEF Scores!Next

\* The Top-100 board is the best of all scores entered since it was cleared, for every
\* capacity, every order of scores and every outcome of the commits in between
\* (arcade_leaderboard_store.cpp).
THEOREM BoardAlwaysTopOfHistory ==
  BoardAssumption => (Scores!Spec => []Scores!BoardIsTopOfHistory)
<1> SUFFICES ASSUME BoardAssumption PROVE Scores!Spec => []Scores!BoardIsTopOfHistory
  OBVIOUS
<1>1. Scores!Init => BoardInv BY BoardInvInitially
<1>2. BoardInv /\ [Scores!Next]_Scores!vars => BoardInv' BY BoardInvPreserved
<1>3. BoardInv => Scores!BoardIsTopOfHistory
  BY LoadIsBoard, RankedIsTop DEF BoardInv, Scores!BoardIsTopOfHistory
<1> QED BY <1>1, <1>2, <1>3, PTL DEF Scores!Spec

=============================================================================
