------------------------------ MODULE EdgeQueue ------------------------------
(***************************************************************************)
(* One comparator input's edge queue (src/hal/external_input_capture.cpp). *)
(*                                                                         *)
(* The EXTI handler (NVIC priority 4) is the only producer and the TIM3    *)
(* scheduler tick (priority 0) the only consumer.  TIM3 may preempt the    *)
(* handler between any two of its memory accesses; the handler never runs  *)
(* while a tick is active.  The producer is therefore split into the steps *)
(* a tick can separate, a pop is one step, and no producer step is enabled *)
(* during a tick.  Accesses take effect in program order.                  *)
(*                                                                         *)
(* An edge is identified by its capture number, which stands for its       *)
(* timestamp; `high' is the comparator level read with it.  When the ring  *)
(* is full the first dropped edge becomes a continuity-loss marker.        *)
(***************************************************************************)
EXTENDS Integers, Sequences

CONSTANTS
  Capacity,   \* kQueueCapacity: slots of the ring, one of which stays free
  MaxEdges    \* bound on the edges captured in one behaviour

ASSUME CapacityAssumption == Capacity \in Nat /\ Capacity >= 2
ASSUME MaxEdgesAssumption == MaxEdges \in Nat

VARIABLES
  edges,            \* the ring's slots
  head,             \* next slot the producer fills
  tail,             \* next slot the consumer reads
  overflowPending,  \* a loss marker is published and not yet consumed
  overflow,         \* overflowTimestampUs and overflowLevelHigh
  overflowCount,    \* edges dropped since boot
  pc,               \* where the EXTI handler stands
  edge,             \* the edge the handler is pushing
  inTick,           \* a TIM3 tick is draining this queue
  published,        \* history: what the producer made visible, in order
  delivered         \* history: what pop returned, in order

producerVars == <<pc, edge>>
ringVars     == <<edges, head, tail>>
lossVars     == <<overflowPending, overflow, overflowCount>>
historyVars  == <<published, delivered>>
vars == <<producerVars, ringVars, lossVars, inTick, historyVars>>

Slots == 0 .. Capacity - 1

PC == {"idle", "checkPending", "checkFull", "storeEdge", "publishEdge",
       "markTimestamp", "markLevel", "publishMarker"}

Edge   == [id : 0 .. MaxEdges, high : BOOLEAN]
Item   == [id : 0 .. MaxEdges, high : BOOLEAN, lost : BOOLEAN]

\* What pop hands out: a queued edge, or the marker of the first dropped one.
Plain(e)  == [id |-> e.id, high |-> e.high, lost |-> FALSE]
Marker(e) == [id |-> e.id, high |-> e.high, lost |-> TRUE]

NextIndex(i) == (i + 1) % Capacity

Init ==
  /\ edges = [s \in Slots |-> [id |-> 0, high |-> FALSE]]
  /\ head = 0 /\ tail = 0
  /\ overflowPending = FALSE
  /\ overflow = [id |-> 0, high |-> FALSE]
  /\ overflowCount = 0
  /\ pc = "idle"
  /\ edge = [id |-> 0, high |-> FALSE]
  /\ inTick = FALSE
  /\ published = <<>>
  /\ delivered = <<>>

-----------------------------------------------------------------------------
(* The EXTI handler: captureSyncFromIsr / captureResetFromIsr, pushFromIsr. *)

\* At is the program counter's move; no handler step runs during a tick.
At(from, to) == ~inTick /\ pc = from /\ pc' = to

\* The pin is sampled and time-stamped.  Two physical edges may be seen as
\* one interrupt, so consecutive captures may carry equal levels.
Capture ==
  /\ At("idle", "checkPending")
  /\ edge.id < MaxEdges
  /\ \E high \in BOOLEAN : edge' = [id |-> edge.id + 1, high |-> high]
  /\ UNCHANGED <<ringVars, lossVars, inTick, historyVars>>

\* While a marker waits, newer edges are dropped so none can overtake it.
DropBehindMarker ==
  /\ overflowPending
  /\ At("checkPending", "idle")
  /\ overflowCount' = overflowCount + 1
  /\ UNCHANGED <<edge, ringVars, overflowPending, overflow, inTick, historyVars>>

SeeNoMarker ==
  /\ ~overflowPending
  /\ At("checkPending", "checkFull")
  /\ UNCHANGED <<edge, ringVars, lossVars, inTick, historyVars>>

\* Fault: an edge that finds the ring full is dropped without a marker.
SeeFullSilently ==
  /\ NextIndex(head) = tail
  /\ At("checkFull", "idle")
  /\ overflowCount' = overflowCount + 1
  /\ UNCHANGED <<edge, ringVars, overflowPending, overflow, inTick, historyVars>>

SeeFull ==
  /\ NextIndex(head) = tail
  /\ At("checkFull", "markTimestamp")
  /\ overflowCount' = overflowCount + 1
  /\ UNCHANGED <<edge, ringVars, overflowPending, overflow, inTick, historyVars>>

SeeRoom ==
  /\ NextIndex(head) # tail
  /\ At("checkFull", "storeEdge")
  /\ UNCHANGED <<edge, ringVars, lossVars, inTick, historyVars>>

StoreEdge ==
  /\ At("storeEdge", "publishEdge")
  /\ edges' = [edges EXCEPT ![head] = edge]
  /\ UNCHANGED <<edge, head, tail, lossVars, inTick, historyVars>>

PublishEdge ==
  /\ At("publishEdge", "idle")
  /\ head' = NextIndex(head)
  /\ published' = Append(published, Plain(edge))
  /\ UNCHANGED <<edge, edges, tail, lossVars, inTick, delivered>>

MarkTimestamp ==
  /\ At("markTimestamp", "markLevel")
  /\ overflow' = [overflow EXCEPT !.id = edge.id]
  /\ UNCHANGED <<edge, ringVars, overflowPending, overflowCount, inTick, historyVars>>

MarkLevel ==
  /\ At("markLevel", "publishMarker")
  /\ overflow' = [overflow EXCEPT !.high = edge.high]
  /\ UNCHANGED <<edge, ringVars, overflowPending, overflowCount, inTick, historyVars>>

\* Fault: the marker is prepared and never raised.
PublishMarkerUnraised ==
  /\ At("publishMarker", "idle")
  /\ published' = Append(published, Marker(edge))
  /\ UNCHANGED <<edge, ringVars, lossVars, inTick, delivered>>

PublishMarker ==
  /\ At("publishMarker", "idle")
  /\ overflowPending' = TRUE
  /\ published' = Append(published, Marker(edge))
  /\ UNCHANGED <<edge, ringVars, overflow, overflowCount, inTick, delivered>>

Push == \/ DropBehindMarker \/ SeeNoMarker \/ SeeFull \/ SeeRoom
        \/ StoreEdge \/ PublishEdge \/ MarkTimestamp \/ MarkLevel \/ PublishMarker

-----------------------------------------------------------------------------
(* The scheduler tick: it pops until pop returns false. *)

TickBegin ==
  /\ ~inTick
  /\ inTick' = TRUE
  /\ UNCHANGED <<producerVars, ringVars, lossVars, historyVars>>

\* pop, first branch: the oldest queued edge.
PopEdge ==
  /\ inTick
  /\ tail # head
  /\ delivered' = Append(delivered, Plain(edges[tail]))
  /\ tail' = NextIndex(tail)
  /\ UNCHANGED <<producerVars, edges, head, lossVars, inTick, published>>

\* Fault: a waiting marker is handed out before the edges queued ahead of it.
PopMarkerFirst ==
  /\ inTick
  /\ overflowPending
  /\ delivered' = Append(delivered, Marker(overflow))
  /\ overflowPending' = FALSE
  /\ UNCHANGED <<producerVars, ringVars, overflow, overflowCount, inTick, published>>

\* pop, last branch: the ring is empty and a marker waits.
PopMarker ==
  /\ inTick
  /\ tail = head
  /\ overflowPending
  /\ delivered' = Append(delivered, Marker(overflow))
  /\ overflowPending' = FALSE
  /\ UNCHANGED <<producerVars, ringVars, overflow, overflowCount, inTick, published>>

\* pop returns false: the drain loop ends.
TickEnd ==
  /\ inTick
  /\ tail = head
  /\ ~overflowPending
  /\ inTick' = FALSE
  /\ UNCHANGED <<producerVars, ringVars, lossVars, historyVars>>

Pop == PopEdge \/ PopMarker
Next == Capture \/ Push \/ TickBegin \/ Pop \/ TickEnd

\* TIM3 fires periodically and its handler returns; the EXTI handler, once
\* entered, runs to its end between ticks.  Nothing makes edges arrive.
\* A tick may begin before every handler step, so the handler needs strong
\* fairness: it resumes whenever the tick returns.
Fairness == /\ WF_vars(TickBegin) /\ WF_vars(Pop) /\ WF_vars(TickEnd)
            /\ SF_vars(Push)

Spec     == Init /\ [][Next]_vars
FairSpec == Spec /\ Fairness

-----------------------------------------------------------------------------
(* Properties. *)

\* How far a slot lies behind the oldest queued edge, and how many are queued.
Distance(t, s) == IF s >= t THEN s - t ELSE s + Capacity - t
Offset(s)      == Distance(tail, s)
Count          == Offset(head)

\* Every variable holds a value of its type.
TypeOK ==
  /\ edges \in [Slots -> Edge]
  /\ head \in Slots /\ tail \in Slots
  /\ overflowPending \in BOOLEAN
  /\ overflow \in Edge
  /\ overflowCount \in Nat
  /\ pc \in PC
  /\ edge \in Edge
  /\ inTick \in BOOLEAN
  /\ published \in Seq(Item)
  /\ delivered \in Seq(Item)

\* What the tick receives is exactly what the handler published, in order:
\* no torn edge, no torn marker, nothing delivered twice, and no edge
\* delivered ahead of an older marker, wherever the tick preempts the handler.
DeliveredAsPublished ==
  /\ Len(delivered) <= Len(published)
  /\ \A i \in 1 .. Len(delivered) : delivered[i] = published[i]

\* Item i of a stream may stand behind its predecessor: it is the very next
\* captured edge (or the marker of that edge), unless the predecessor is a
\* marker, which stands for itself and any number of further losses.
Follows(s, i) ==
  /\ i = 1 => s[i].id = 1
  /\ i > 1 => IF s[i - 1].lost THEN s[i].id > s[i - 1].id
                               ELSE s[i].id = s[i - 1].id + 1

\* The tick never measures a period across a dropped edge: between two edges
\* it receives back to back none was lost, and a marker names the first edge
\* that was.  The clock acquisition of processSyncEdges relies on it, and it
\* has to hold for edges dropped behind a marker that the tick consumes
\* while the handler is still running.
GapsAreMarked == \A i \in 1 .. Len(delivered) : Follows(delivered, i)

\* The drop counter shown by droppedSyncEdges / collapsedResetEdges accounts
\* for every captured edge that was not queued.
PlainCount(s) == Len(SelectSeq(s, LAMBDA x : ~x.lost))

\* Every captured edge is eventually settled: the tick has received it, or a
\* marker for a loss at or before it, with nothing left in the queue.
EverythingSettles ==
  \A n \in 1 .. MaxEdges :
    (edge.id = n) ~>
      \E i \in 1 .. Len(delivered) :
        \/ delivered[i].id = n
        \/ delivered[i].lost /\ delivered[i].id < n
-----------------------------------------------------------------------------
(* The inductive invariant behind the safety properties. *)

\* The captured edges whose fate the handler has settled.
Settled == IF pc = "idle" THEN edge.id ELSE edge.id - 1

\* The ring and the marker hold what was published and not yet delivered.
ContentsInv ==
  /\ Len(published) = Len(delivered) + Count + IF overflowPending THEN 1 ELSE 0
  /\ \A s \in Slots : Offset(s) < Count =>
       Plain(edges[s]) = published[Len(delivered) + 1 + Offset(s)]
  /\ overflowPending => published[Len(published)] = Marker(overflow)

\* What the handler has learnt and prepared stays true while ticks preempt it.
HandlerInv ==
  /\ pc # "idle" => edge.id > 0
  /\ pc \notin {"idle", "checkPending"} => ~overflowPending
  /\ pc \in {"storeEdge", "publishEdge"} => NextIndex(head) # tail
  /\ pc = "publishEdge" => edges[head] = edge
  /\ pc = "markLevel" => overflow.id = edge.id
  /\ pc = "publishMarker" => overflow = edge

\* The published stream is gap-free up to its markers and up to the handler.
StreamInv ==
  /\ \A i \in 1 .. Len(published) : Follows(published, i)
  /\ published = <<>> => Settled = 0
  /\ published # <<>> =>
       LET last == published[Len(published)] IN
         IF last.lost THEN last.id <= Settled ELSE last.id = Settled

IInv == TypeOK /\ DeliveredAsPublished /\ ContentsInv /\ HandlerInv /\ StreamInv
=============================================================================
