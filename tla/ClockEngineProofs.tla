-------------------------- MODULE ClockEngineProofs --------------------------
(***************************************************************************)
(* Proofs about the scheduler, for any channels, rates, patterns, tempos   *)
(* and pulse distances that satisfy the assumptions of ClockEngine, and    *)
(* about the grid its events fall on, for any configurations of EventGrid. *)
(***************************************************************************)
EXTENDS ClockEngine, WellFoundedInduction, TLAPS

-----------------------------------------------------------------------------
(* Arithmetic of the event grid.                                              *)

\* Quotient and remainder of natural numbers, as every operator of the grid uses them.
LEMMA DivMod ==
  ASSUME NEW a \in Nat, NEW b \in Nat \ {0}
  PROVE  a \div b \in Nat /\ a % b \in 0..(b - 1) /\ a = b * (a \div b) + (a % b)
OBVIOUS

\* A quotient is at least as large as a factor of its divisor.
LEMMA DivAtLeast ==
  ASSUME NEW a \in Nat, NEW b \in Nat \ {0}, NEW k \in Nat, a >= k * b
  PROVE  a \div b >= k
OBVIOUS

LEMMA ProductNat ==
  ASSUME NEW a \in Nat, NEW b \in Nat
  PROVE  a * b \in Nat
OBVIOUS

\* A share in percent.
LEMMA Hundredths ==
  ASSUME NEW a \in Nat
  PROVE  a = 100 * (a \div 100) + (a % 100) /\ a % 100 \in 0..99 /\ a \div 100 \in Nat
OBVIOUS

\* Quotient and remainder are unique.
LEMMA RemainderUnique ==
  ASSUME NEW n \in Nat, NEW k \in Nat \ {0}, NEW q \in Nat, NEW r \in 0..(k - 1), n = k * q + r
  PROVE  n % k = r
<1> DEFINE d == q - (n \div k)
<1>1. /\ n \div k \in Nat /\ n % k \in 0..(k - 1) /\ n = k * (n \div k) + (n % k)
  BY DivMod
<1>2. k * d = (n % k) - r
  BY <1>1
<1>3. ~(d >= 1)
  BY <1>1, <1>2
<1>4. ~(d <= -1)
  BY <1>1, <1>2
<1> QED
  BY <1>1, <1>2, <1>3, <1>4

\* Counting on by one in a cycle of k.
LEMMA NextInCycle ==
  ASSUME NEW n \in Nat, NEW k \in Nat \ {0}
  PROVE  ((n % k) + 1) % k = (n + 1) % k
<1>1. PICK q \in Nat, r \in 0..(k - 1) : n = k * q + r /\ n % k = r
  BY DivMod
<1>2. CASE r + 1 < k
  <2>1. n + 1 = k * q + (r + 1) /\ n + 1 \in Nat /\ r + 1 \in 0..(k - 1)
    BY <1>1, <1>2
  <2>2. (n + 1) % k = r + 1
    BY <2>1, RemainderUnique
  <2>3. r + 1 = k * 0 + (r + 1) /\ r + 1 \in Nat
    BY <1>1
  <2>4. (r + 1) % k = r + 1
    BY <2>1, <2>3, RemainderUnique
  <2> QED
    BY <1>1, <2>2, <2>4
<1>3. CASE r + 1 = k
  <2>1. n + 1 = k * (q + 1) + 0 /\ n + 1 \in Nat /\ q + 1 \in Nat /\ 0 \in 0..(k - 1)
    BY <1>1, <1>3
  <2>2. (n + 1) % k = 0
    BY <2>1, RemainderUnique
  <2>3. r + 1 = k * 1 + 0 /\ r + 1 \in Nat
    BY <1>1, <1>3
  <2>4. (r + 1) % k = 0
    BY <2>1, <2>3, RemainderUnique
  <2> QED
    BY <1>1, <2>2, <2>4
<1> QED
  BY <1>1, <1>2, <1>3

\* A set of natural numbers has a least one.
LEMMA LeastNat ==
  ASSUME NEW S \in SUBSET Nat, S # {}
  PROVE  \E n \in S : \A m \in S : n <= m
<1>1. PICK R : IsWellFoundedOn(R, Nat) /\ \A x, y \in Nat : x < y => <<x, y>> \in R
  <2> DEFINE R == OpToRel(<, Nat)
  <2>1. IsWellFoundedOn(R, Nat)
    BY NatLessThanWellFounded
  <2>2. \A x, y \in Nat : x < y => <<x, y>> \in R
    BY DEF OpToRel
  <2> HIDE DEF R
  <2> QED
    BY <2>1, <2>2, Zenon
<1>2. IsWellFoundedOn(R, Nat) /\ S \subseteq Nat
  BY <1>1
<1>3. \A x, y \in Nat : x < y => <<x, y>> \in R
  BY <1>1
<1>4. PICK n \in S : \A m \in S : ~(<<m, n>> \in R)
  BY <1>2, WFMin, Zenon
<1>5. ASSUME NEW m \in S PROVE n <= m
  <2>1. ~(<<m, n>> \in R) /\ m \in Nat /\ n \in Nat
    BY <1>4
  <2> QED
    BY <1>3, <2>1
<1> QED
  BY <1>5

\* The parts of a position are natural numbers, and events are a unit apart at least.
LEMMA OffsetType ==
  ASSUME NEW ch \in Channel, NEW q \in Nat \ {0}, NEW n \in Nat
  PROVE  /\ Nominal(ch, q) \in Nat
         /\ BaseOffset(ch, q, n) \in Nat /\ BaseOffset(ch, q, n) >= n
         /\ SwingDelta(ch, q) \in Nat
<1> DEFINE span == ch.den * Beat
<1>1. ch.num \in Nat \ {0} /\ ch.den \in Nat \ {0} /\ ch.swing \in 0..50 /\ Beat \in Nat \ {0}
  BY ScaleAssumption DEF Channel
<1>2. span \in Nat
  BY <1>1, ProductNat
<1>3. span \div ch.num \in Nat
  BY <1>1, <1>2, DivMod
<1>4. Nominal(ch, q) \in Nat
  BY <1>3 DEF Nominal, Upper
<1>5. BaseOffset(ch, q, n) \in Nat /\ BaseOffset(ch, q, n) >= n
  <2>1. CASE span \div ch.num < q
    <3>1. n * q \in Nat /\ n * q >= n
      OBVIOUS
    <3> QED
      BY <2>1, <3>1 DEF BaseOffset
  <2>2. CASE ~(span \div ch.num < q)
    <3>1. span >= ch.num
      <4>1. span \div ch.num >= 1
        BY <1>3, <2>2
      <4>2. span = ch.num * (span \div ch.num) + (span % ch.num) /\ span % ch.num \in 0..(ch.num - 1)
        BY <1>1, <1>2, DivMod
      <4>3. ch.num * (span \div ch.num) >= ch.num
        BY <1>1, <1>3, <4>1
      <4> HIDE DEF span
      <4> QED
        BY <1>1, <1>2, <1>3, <4>2, <4>3
    <3>2. n * span \in Nat /\ n * span >= n * ch.num
      <4> HIDE DEF span
      <4> QED
        BY <1>1, <1>2, <3>1
    <3>3. n * ch.den * Beat = n * span
      BY <1>1
    <3>4. (n * span) \div ch.num \in Nat /\ (n * span) \div ch.num >= n
      BY <1>1, <3>2, DivMod, DivAtLeast
    <3> QED
      BY <2>2, <3>3, <3>4 DEF BaseOffset
  <2> QED
    BY <2>1, <2>2
<1>6. SwingDelta(ch, q) \in Nat
  <2>1. Nominal(ch, q) * ch.swing \in Nat
    BY <1>1, <1>4, ProductNat
  <2>2. (Nominal(ch, q) * ch.swing) \div 100 \in Nat
    BY <2>1, DivMod
  <2> QED
    BY <1>4, <2>2 DEF SwingDelta, Lower
<1> QED
  BY <1>4, <1>5, <1>6

\* An event lies beyond its epoch by a distance that does not depend on the epoch.
LEMMA PositionType ==
  ASSUME NEW ch \in Channel, NEW q \in Nat \ {0}, NEW from \in Nat, NEW n \in Nat
  PROVE  /\ Position(ch, q, from, n) \in Nat
         /\ Position(ch, q, from, n) >= from + n
         /\ \A to \in Nat : Position(ch, q, to, n) - to = Position(ch, q, from, n) - from
<1>1. ch.phase \in Nat
  BY DEF Channel
<1>2. (Nominal(ch, q) * ch.phase) \div 100 \in Nat
  <2>1. Nominal(ch, q) \in Nat
    BY OffsetType
  <2>2. Nominal(ch, q) * ch.phase \in Nat
    BY <1>1, <2>1, ProductNat
  <2> QED
    BY <2>2, DivMod
<1>3. BaseOffset(ch, q, n) \in Nat /\ BaseOffset(ch, q, n) >= n /\ SwingDelta(ch, q) \in Nat
  BY OffsetType
<1> DEFINE lag == (Nominal(ch, q) * ch.phase) \div 100
           swing == IF n % 2 = 1 THEN SwingDelta(ch, q) ELSE 0
<1>4. lag \in Nat /\ swing \in Nat
  BY <1>2, <1>3
<1>5. \A to \in Nat : Position(ch, q, to, n) = to + lag + BaseOffset(ch, q, n) + swing
  BY DEF Position
<1> HIDE DEF lag, swing
<1> QED
  BY <1>3, <1>4, <1>5

\* FirstDue is the first event that is due, and there is one.
Due(ch, q, from, at, boundary, n) ==
  IF boundary THEN Position(ch, q, from, n) >= at ELSE Position(ch, q, from, n) > at

LEMMA FirstDueType ==
  ASSUME NEW ch \in Channel, NEW q \in Nat \ {0}, NEW from \in Nat, NEW at \in Nat, NEW boundary
  PROVE  /\ FirstDue(ch, q, from, at, boundary) \in Nat
         /\ Due(ch, q, from, at, boundary, FirstDue(ch, q, from, at, boundary))
         /\ \A m \in 0..(FirstDue(ch, q, from, at, boundary) - 1) : ~Due(ch, q, from, at, boundary, m)
<1> DEFINE last == Upper(at - from + 1, 0)
           S == {n \in 0..last : Due(ch, q, from, at, boundary, n)}
           P(n) == Due(ch, q, from, at, boundary, n) /\ \A m \in 0..(n - 1) : ~Due(ch, q, from, at, boundary, m)
<1>1. last \in Nat /\ last >= at - from + 1
  BY DEF Upper
<1>2. last \in S
  <2>1. Position(ch, q, from, last) >= from + last /\ Position(ch, q, from, last) \in Nat
    BY <1>1, PositionType
  <2> HIDE DEF last
  <2> QED
    BY <1>1, <2>1 DEF Due
<1>3. PICK n \in S : \A m \in S : n <= m
  <2> HIDE DEF last
  <2>1. S \in SUBSET Nat
    BY <1>1
  <2> HIDE DEF S
  <2> QED
    BY <1>2, <2>1, LeastNat
<1>4. n \in 0..last /\ P(n)
  <2> HIDE DEF last
  <2> QED
    BY <1>1, <1>3
<1>5. FirstDue(ch, q, from, at, boundary) = CHOOSE k \in 0..last : P(k)
  BY Zenon DEF FirstDue, Due
<1> HIDE DEF last, P
<1>6. FirstDue(ch, q, from, at, boundary) \in 0..last /\ P(FirstDue(ch, q, from, at, boundary))
  BY <1>4, <1>5, Zenon
<1> QED
  BY <1>1, <1>6 DEF P
-----------------------------------------------------------------------------
(* What the operators on a channel's runtime do to it.                        *)

LEMMA PatternFacts ==
  ASSUME NEW p \in Pattern, NEW n \in Nat
  PROVE  StepAt(p, n) \in Step
<1>1. PICK k \in 1..4 : p.order \in [1..k -> Step]
  BY DEF Pattern
<1>2. Len(p.order) = k
  BY <1>1
<1>3. n % k \in 0..(k - 1)
  BY <1>1
<1> QED
  BY <1>1, <1>2, <1>3 DEF StepAt

\* SyncStep changes the step and nothing else; on the shared grid of a CLOCK or
\* EUCLID channel it is the serial's.
LEMMA SyncStepType ==
  ASSUME NEW ch \in Channel, NEW p \in Pattern, NEW r \in Runtime
  PROVE  \E k \in Nat : /\ SyncStep(ch, p, r) = [r EXCEPT !.step = k]
                        /\ ch.global /\ ch.mode \in {"Clock", "Euclid"} => k = r.serial % ch.cycle
<1> DEFINE k == IF ch.mode = "Sequencer" THEN (IF Runs(p, r.serial) THEN StepAt(p, r.serial) ELSE 0)
                ELSE IF ch.global THEN r.serial % ch.cycle ELSE r.step % ch.cycle
<1>1. SyncStep(ch, p, r) = [r EXCEPT !.step = k]
  BY DEF SyncStep
<1>2. r.serial \in Nat /\ r.step \in Nat /\ ch.cycle \in Nat \ {0}
  BY DEF Runtime, Channel
<1>3. k \in Nat
  <2>1. StepAt(p, r.serial) \in Nat
    BY <1>2, PatternFacts DEF Step
  <2>2. r.serial % ch.cycle \in Nat /\ r.step % ch.cycle \in Nat
    BY <1>2
  <2> QED
    BY <2>1, <2>2
<1> QED
  BY <1>1, <1>3

Rescheduled(ch, q, e, at, r, s, from, n, k) ==
  /\ s = [r EXCEPT !.epoch = from, !.serial = n, !.next = Position(ch, q, from, n), !.step = k]
  /\ from = IF ch.global THEN e ELSE r.epoch
  /\ Position(ch, q, from, n) >= at
  /\ \A m \in 0..(n - 1) : Position(ch, q, from, m) <= at
  /\ ch.global /\ ch.mode \in {"Clock", "Euclid"} => k = n % ch.cycle

\* Reschedule moves a channel to the first event due on its epoch, the shared one if it
\* is GLOBAL; the gate is left alone.
LEMMA RescheduleType ==
  ASSUME NEW ch \in Channel, NEW p \in Pattern, NEW q \in Nat \ {0}, NEW e \in Nat,
         NEW at \in Nat, NEW boundary, NEW r \in Runtime
  PROVE  \E from \in Nat, n \in Nat, k \in Nat :
           Rescheduled(ch, q, e, at, r, Reschedule(ch, p, q, e, at, boundary, r), from, n, k)
<1> DEFINE from == IF ch.global THEN e ELSE r.epoch
           n == FirstDue(ch, q, from, at, boundary)
           moved == [r EXCEPT !.epoch = from, !.serial = n, !.next = Position(ch, q, from, n)]
<1>1. from \in Nat
  BY DEF Runtime
<1> HIDE DEF from
<1>2. /\ n \in Nat /\ Due(ch, q, from, at, boundary, n)
      /\ \A m \in 0..(n - 1) : ~Due(ch, q, from, at, boundary, m)
  BY <1>1, FirstDueType
<1> HIDE DEF n
<1>3. Position(ch, q, from, n) \in Nat /\ Position(ch, q, from, n) >= at
  <2>1. Position(ch, q, from, n) \in Nat
    BY <1>1, <1>2, PositionType
  <2> QED
    BY <1>2, <2>1 DEF Due
<1>4. \A m \in 0..(n - 1) : Position(ch, q, from, m) <= at
  <2> SUFFICES ASSUME NEW m \in 0..(n - 1) PROVE Position(ch, q, from, m) <= at
    OBVIOUS
  <2>1. ~Due(ch, q, from, at, boundary, m) /\ m \in Nat
    BY <1>2
  <2>2. Position(ch, q, from, m) \in Nat
    BY <1>1, <2>1, PositionType
  <2> QED
    BY <2>1, <2>2 DEF Due
<1>5. moved \in Runtime /\ moved.serial = n
  BY <1>1, <1>2, <1>3 DEF Runtime
<1>6. Reschedule(ch, p, q, e, at, boundary, r) = IF ch.global THEN SyncStep(ch, p, moved) ELSE moved
  BY DEF Reschedule, n, from
<1>7. CASE ch.global
  <2>1. PICK k \in Nat : /\ SyncStep(ch, p, moved) = [moved EXCEPT !.step = k]
                         /\ ch.mode \in {"Clock", "Euclid"} => k = n % ch.cycle
    <3>1. moved \in Runtime
      BY <1>5
    <3>2. \E k \in Nat : /\ SyncStep(ch, p, moved) = [moved EXCEPT !.step = k]
                         /\ ch.global /\ ch.mode \in {"Clock", "Euclid"} => k = moved.serial % ch.cycle
      <4> HIDE DEF moved
      <4> QED
        BY <3>1, SyncStepType
    <3> QED
      BY <1>5, <1>7, <3>2
  <2>2. [moved EXCEPT !.step = k]
          = [r EXCEPT !.epoch = from, !.serial = n, !.next = Position(ch, q, from, n), !.step = k]
    OBVIOUS
  <2> QED
    BY <1>1, <1>2, <1>3, <1>4, <1>6, <1>7, <2>1, <2>2 DEF from, Rescheduled
<1>8. CASE ~ch.global
  <2>1. r.step \in Nat
    BY DEF Runtime
  <2>2. moved = [r EXCEPT !.epoch = from, !.serial = n, !.next = Position(ch, q, from, n), !.step = r.step]
    BY DEF Runtime
  <2> QED
    BY <1>1, <1>2, <1>3, <1>4, <1>6, <1>8, <2>1, <2>2 DEF from, Rescheduled
<1> QED
  BY <1>7, <1>8

\* What two runtimes may have in common, and what a runtime may be known for.
SameGrid(a, b) == a.next = b.next /\ a.epoch = b.epoch /\ a.serial = b.serial /\ a.step = b.step
SameGate(a, b) == a.high = b.high /\ a.off = b.off /\ a.tie = b.tie
HasEnd(ch, r)  == r.high => r.off > 0 \/ (r.tie /\ ch.mode # "Off")

\* A runtime with one field replaced is a runtime.
LEMMA FieldType ==
  ASSUME NEW r \in Runtime
  PROVE  /\ \A v \in Nat : /\ [r EXCEPT !.next = v] \in Runtime /\ [r EXCEPT !.epoch = v] \in Runtime
                          /\ [r EXCEPT !.serial = v] \in Runtime /\ [r EXCEPT !.step = v] \in Runtime
                          /\ [r EXCEPT !.off = v] \in Runtime /\ [r EXCEPT !.spacing = v] \in Runtime
                          /\ [r EXCEPT !.nextRatchet = v] \in Runtime
         /\ \A v \in BOOLEAN : /\ [r EXCEPT !.high = v] \in Runtime /\ [r EXCEPT !.tie = v] \in Runtime
                              /\ [r EXCEPT !.steady = v] \in Runtime /\ [r EXCEPT !.lost = v] \in Runtime
         /\ \A v \in 0..7 : [r EXCEPT !.ratchets = v] \in Runtime
         /\ \A v \in Nat \ {0} : [r EXCEPT !.ratchetGate = v] \in Runtime
<1>1. \A v \in Nat : [r EXCEPT !.next = v] \in Runtime BY DEF Runtime
<1>2. \A v \in Nat : [r EXCEPT !.epoch = v] \in Runtime BY DEF Runtime
<1>3. \A v \in Nat : [r EXCEPT !.serial = v] \in Runtime BY DEF Runtime
<1>4. \A v \in Nat : [r EXCEPT !.step = v] \in Runtime BY DEF Runtime
<1>5. \A v \in Nat : [r EXCEPT !.off = v] \in Runtime BY DEF Runtime
<1>6. \A v \in Nat : [r EXCEPT !.spacing = v] \in Runtime BY DEF Runtime
<1>7. \A v \in Nat : [r EXCEPT !.nextRatchet = v] \in Runtime BY DEF Runtime
<1>8. \A v \in BOOLEAN : [r EXCEPT !.high = v] \in Runtime BY DEF Runtime
<1>9. \A v \in BOOLEAN : [r EXCEPT !.tie = v] \in Runtime BY DEF Runtime
<1>10. \A v \in BOOLEAN : [r EXCEPT !.steady = v] \in Runtime BY DEF Runtime
<1>11. \A v \in BOOLEAN : [r EXCEPT !.lost = v] \in Runtime BY DEF Runtime
<1>12. \A v \in 0..7 : [r EXCEPT !.ratchets = v] \in Runtime BY DEF Runtime
<1>13. \A v \in Nat \ {0} : [r EXCEPT !.ratchetGate = v] \in Runtime BY DEF Runtime
<1> QED
  BY <1>1, <1>2, <1>3, <1>4, <1>5, <1>6, <1>7, <1>8, <1>9, <1>10, <1>11, <1>12, <1>13

NoTie(r)           == [r EXCEPT !.tie = FALSE, !.ratchets = 0]
NextRatchet(r)     == [r EXCEPT !.off = r.ratchetGate, !.ratchets = @ - 1,
                         !.nextRatchet = IF r.ratchets > 1 THEN @ + r.spacing ELSE @]

LEMMA NoTieType ==
  ASSUME NEW r \in Runtime
  PROVE  /\ NoTie(r) \in Runtime /\ SameGrid(NoTie(r), r)
         /\ NoTie(r).high = r.high /\ NoTie(r).off = r.off
<1> DEFINE a == [r EXCEPT !.tie = FALSE]
<1>1. a \in Runtime
  BY FieldType
<1>2. NoTie(r) = [a EXCEPT !.ratchets = 0]
  BY DEF NoTie, Runtime
<1> HIDE DEF a
<1>3. [a EXCEPT !.ratchets = 0] \in Runtime
  <2>1. 0 \in 0..7
    OBVIOUS
  <2> QED
    BY <1>1, <2>1, FieldType
<1>4. NoTie(r) \in Runtime
  BY <1>2, <1>3
<1>5. SameGrid(NoTie(r), r) /\ NoTie(r).high = r.high /\ NoTie(r).off = r.off
  BY DEF NoTie, Runtime, SameGrid
<1> QED
  BY <1>4, <1>5

LEMMA FallType ==
  ASSUME NEW r \in Runtime
  PROVE  Fall(r) \in Runtime /\ SameGrid(Fall(r), r) /\ ~Fall(r).high
BY DEF Fall, Runtime, SameGrid

LEMMA RiseType ==
  ASSUME NEW r \in Runtime
  PROVE  /\ Rise(r) \in Runtime /\ SameGrid(Rise(r), r)
         /\ Rise(r).ratchets = r.ratchets
BY DEF Rise, Runtime, SameGrid

LEMMA SameGridTransitive ==
  ASSUME NEW a, NEW b, NEW c, SameGrid(a, b), SameGrid(b, c)
  PROVE  SameGrid(a, c)
BY DEF SameGrid

\* The operators on gates leave the grid alone, and no gate without an end behind.
LEMMA GateOps ==
  ASSUME NEW ch \in Channel, NEW r \in Runtime
  PROVE  /\ Cut(r) \in Runtime /\ SameGrid(Cut(r), r) /\ ~Cut(r).high
         /\ Unsteady(r) \in Runtime /\ SameGrid(Unsteady(r), r) /\ SameGate(Unsteady(r), r)
         /\ Age(r) \in Runtime /\ SameGrid(Age(r), r) /\ (Age(r).high => r.high)
         /\ HasEnd(ch, r) => HasEnd(ch, Age(r))
         /\ EndTie(r) \in Runtime /\ SameGrid(EndTie(r), r) /\ (EndTie(r).high => r.high)
         /\ HasEnd(ch, r) => HasEnd(ch, EndTie(r))
         /\ Silence(ch, r) \in Runtime /\ SameGrid(Silence(ch, r), r) /\ (Silence(ch, r).high => r.high)
         /\ \A old \in Channel : HasEnd(old, r) => HasEnd(ch, Silence(ch, r))
<1>1. Fall(r) \in Runtime /\ SameGrid(Fall(r), r) /\ ~Fall(r).high /\ SameGrid(r, r)
  BY FallType DEF SameGrid
<1>2. Cut(r) \in Runtime /\ SameGrid(Cut(r), r) /\ ~Cut(r).high
  <2>1. Cut(r) = NoTie(Fall(r))
    BY DEF Cut, NoTie
  <2> QED
    BY <1>1, <2>1, NoTieType, SameGridTransitive
<1>3. Unsteady(r) \in Runtime /\ SameGrid(Unsteady(r), r) /\ SameGate(Unsteady(r), r)
  BY DEF Unsteady, Runtime, SameGrid, SameGate
<1>4. Age(r) \in Runtime /\ SameGrid(Age(r), r) /\ (Age(r).high => r.high) /\ (HasEnd(ch, r) => HasEnd(ch, Age(r)))
  <2>1. CASE r.high /\ r.off = 1
    BY <1>1, <2>1 DEF Age, HasEnd
  <2>2. CASE ~(r.high /\ r.off = 1)
    BY <2>2 DEF Age, Upper, Runtime, SameGrid, HasEnd
  <2> QED
    BY <2>1, <2>2
<1>5. EndTie(r) \in Runtime /\ SameGrid(EndTie(r), r) /\ (EndTie(r).high => r.high) /\ (HasEnd(ch, r) => HasEnd(ch, EndTie(r)))
  <2>1. CASE r.tie
    <3>1. EndTie(r) = NoTie(Fall(r))
      BY <2>1 DEF EndTie, NoTie
    <3>2. EndTie(r) \in Runtime /\ SameGrid(EndTie(r), r) /\ ~EndTie(r).high
      BY <1>1, <3>1, NoTieType, SameGridTransitive
    <3> QED
      BY <3>2 DEF HasEnd
  <2>2. CASE ~r.tie
    <3>1. EndTie(r) = NoTie(r)
      BY <2>2 DEF EndTie, NoTie
    <3> QED
      BY <2>2, <3>1, NoTieType DEF HasEnd
  <2> QED
    BY <2>1, <2>2
<1>6. Silence(ch, r) \in Runtime /\ SameGrid(Silence(ch, r), r) /\ (Silence(ch, r).high => r.high)
  BY <1>1 DEF Silence
<1>7. \A old \in Channel : HasEnd(old, r) => HasEnd(ch, Silence(ch, r))
  BY <1>1 DEF Silence, HasEnd
<1> QED
  BY <1>2, <1>3, <1>4, <1>5, <1>6, <1>7

\* One ratchet: the grid stays, and the gate it raises has an end.
LEMMA NextRatchetType ==
  ASSUME NEW r \in Runtime, r.ratchets # 0
  PROVE  NextRatchet(r) \in Runtime /\ SameGrid(NextRatchet(r), r) /\ NextRatchet(r).off > 0
<1>1. r.ratchets - 1 \in 0..7 /\ r.ratchetGate \in Nat \ {0} /\ r.nextRatchet + r.spacing \in Nat
  BY DEF Runtime
<1> DEFINE a == [r EXCEPT !.off = r.ratchetGate]
           b == [a EXCEPT !.ratchets = r.ratchets - 1]
           later == IF r.ratchets > 1 THEN r.nextRatchet + r.spacing ELSE r.nextRatchet
<1>2. NextRatchet(r) = [b EXCEPT !.nextRatchet = later]
  BY DEF NextRatchet, Runtime
<1>3. later \in Nat
  BY <1>1 DEF Runtime
<1>4. a \in Runtime
  BY <1>1, FieldType
<1> HIDE DEF a
<1>5. b \in Runtime
  BY <1>1, <1>4, FieldType
<1> HIDE DEF b, later
<1>6. NextRatchet(r) \in Runtime
  BY <1>2, <1>3, <1>5, FieldType
<1>7. SameGrid(NextRatchet(r), r) /\ NextRatchet(r).off > 0
  BY <1>1 DEF NextRatchet, Runtime, SameGrid
<1> QED
  BY <1>6, <1>7

LEMMA RatchetType ==
  ASSUME NEW ch \in Channel, NEW at \in Nat, NEW r \in Runtime
  PROVE  /\ Ratchet(at, r) \in Runtime /\ SameGrid(Ratchet(at, r), r)
         /\ HasEnd(ch, r) => HasEnd(ch, Ratchet(at, r))
<1>1. CASE r.ratchets = 0 \/ at < r.nextRatchet
  BY <1>1 DEF Ratchet, SameGrid
<1>2. CASE ~(r.ratchets = 0 \/ at < r.nextRatchet)
  <2> DEFINE up == Rise(Fall(r))
  <2>1. Ratchet(at, r) = NextRatchet(up)
    BY <1>2 DEF Ratchet, NextRatchet, Rise, Fall, Runtime
  <2>2. up \in Runtime /\ SameGrid(up, r)
    BY FallType, RiseType, SameGridTransitive
  <2>3. up.ratchets = r.ratchets
    BY FallType, RiseType DEF Fall, Runtime
  <2> HIDE DEF up
  <2>4. NextRatchet(up) \in Runtime /\ SameGrid(NextRatchet(up), up) /\ NextRatchet(up).off > 0
    BY <1>2, <2>2, <2>3, NextRatchetType
  <2> QED
    BY <2>1, <2>2, <2>4, SameGridTransitive DEF HasEnd
<1> QED
  BY <1>1, <1>2

LEMMA GateTicksType ==
  ASSUME NEW ch \in Channel, NEW meta \in StepMeta, NEW sub \in Nat \ {0}, NEW ratchets
  PROVE  GateTicks(ch, meta, sub, ratchets) \in Nat \ {0}
<1>1. ch.gate \in Nat \ {0} /\ meta.duty \in Nat
  BY DEF Channel, StepMeta
<1>2. sub \div 2 \in Nat /\ sub * meta.duty \in Nat
  BY <1>1
<1>3. (sub * meta.duty) \div 100 \in Nat
  BY <1>2
<1> QED
  BY <1>1, <1>2, <1>3 DEF GateTicks, Lower, Upper

LEMMA MetaOfType ==
  ASSUME NEW ch, NEW p \in Pattern, NEW x \in [Step -> StepMeta], NEW r \in Runtime
  PROVE  MetaOf(ch, p, x, r) \in StepMeta
<1>1. PlainStep \in StepMeta
  BY DEF PlainStep, StepMeta
<1>2. r.serial \in Nat
  BY DEF Runtime
<1>3. x[StepAt(p, r.serial)] \in StepMeta
  BY <1>2, PatternFacts
<1> QED
  BY <1>1, <1>3 DEF MetaOf

\* What an event leaves of the runtime before it raises its gate.
Moved(ch, r) == [r EXCEPT !.ratchets = 0, !.tie = FALSE,
                   !.step = IF ch.mode = "Sequencer" THEN @ ELSE (@ + 1) % ch.cycle]
Hit(r, up)   == [up EXCEPT !.steady = TRUE, !.lost = @ \/ (r.high /\ r.steady /\ ~r.tie)]
\* The step an event leaves, and the part of the grid it does not touch.
SameEvent(a, b) == a.next = b.next /\ a.epoch = b.epoch /\ a.serial = b.serial
NextStep(ch, r) == IF ch.mode = "Sequencer" THEN r.step ELSE (r.step + 1) % ch.cycle
Event(ch, r, s) == s \in Runtime /\ SameEvent(s, r) /\ s.step = NextStep(ch, r)

LEMMA MovedType ==
  ASSUME NEW ch \in Channel, NEW r \in Runtime
  PROVE  Event(ch, r, Moved(ch, r)) /\ Moved(ch, r).high = r.high /\ Moved(ch, r).off = r.off
<1> DEFINE a == NoTie(r)
<1>1. a \in Runtime /\ SameGrid(a, r)
  BY NoTieType
<1>2. NextStep(ch, r) \in Nat
  BY DEF NextStep, Runtime, Channel
<1>3. Moved(ch, r) = [a EXCEPT !.step = NextStep(ch, r)]
  BY DEF Moved, NoTie, NextStep, Runtime
<1> HIDE DEF a
<1>4. Moved(ch, r) \in Runtime
  <2>1. \A v \in Nat : [a EXCEPT !.step = v] \in Runtime
    BY <1>1, FieldType
  <2> QED
    BY <1>2, <1>3, <2>1
<1>5. SameEvent(Moved(ch, r), r) /\ Moved(ch, r).step = NextStep(ch, r)
      /\ Moved(ch, r).high = r.high /\ Moved(ch, r).off = r.off
  BY DEF Moved, SameEvent, NextStep, Runtime
<1> QED
  BY <1>4, <1>5 DEF Event

LEMMA HitType ==
  ASSUME NEW r \in Runtime, NEW up \in Runtime
  PROVE  Hit(r, up) \in Runtime /\ SameGrid(Hit(r, up), up)
<1> DEFINE a == [up EXCEPT !.steady = TRUE]
           v == up.lost \/ (r.high /\ r.steady /\ ~r.tie)
<1>1. v \in BOOLEAN
  OBVIOUS
<1>2. a \in Runtime
  BY FieldType
<1>3. Hit(r, up) = [a EXCEPT !.lost = v]
  BY DEF Hit, Runtime
<1> HIDE DEF a, v
<1>4. Hit(r, up) \in Runtime
  BY <1>1, <1>2, <1>3, FieldType
<1>5. SameGrid(Hit(r, up), up)
  BY DEF Hit, SameGrid, Runtime
<1> QED
  BY <1>4, <1>5

\* The gates an event may schedule: until a tie ends, for one hit, and for ratchets.
Tied(h)              == [h EXCEPT !.tie = TRUE, !.off = 0]
Single(h, g)         == [h EXCEPT !.off = g]
Several(h, g, k, sp, t) == [h EXCEPT !.off = g, !.ratchets = k, !.spacing = sp,
                                     !.nextRatchet = t, !.ratchetGate = g]

LEMMA ScheduledType ==
  ASSUME NEW h \in Runtime, NEW g \in Nat \ {0}, NEW k \in 0..7, NEW sp \in Nat, NEW t \in Nat
  PROVE  /\ Tied(h) \in Runtime /\ SameGrid(Tied(h), h) /\ Tied(h).tie
         /\ Single(h, g) \in Runtime /\ SameGrid(Single(h, g), h) /\ Single(h, g).off > 0
         /\ Several(h, g, k, sp, t) \in Runtime /\ SameGrid(Several(h, g, k, sp, t), h)
         /\ Several(h, g, k, sp, t).off > 0
<1>1. Tied(h) \in Runtime
  <2> DEFINE a == [h EXCEPT !.tie = TRUE]
  <2>1. a \in Runtime
    BY FieldType
  <2>2. Tied(h) = [a EXCEPT !.off = 0]
    BY DEF Tied, Runtime
  <2> HIDE DEF a
  <2> QED
    BY <2>1, <2>2, FieldType
<1>2. SameGrid(Tied(h), h) /\ Tied(h).tie
  BY DEF Tied, SameGrid, Runtime
<1>3. Single(h, g) \in Runtime
  BY FieldType DEF Single
<1>4. SameGrid(Single(h, g), h) /\ Single(h, g).off > 0
  BY DEF Single, SameGrid, Runtime
<1>5. Several(h, g, k, sp, t) \in Runtime
  <2> DEFINE a == [h EXCEPT !.off = g]
             b == [a EXCEPT !.ratchets = k]
             c == [b EXCEPT !.spacing = sp]
             d == [c EXCEPT !.nextRatchet = t]
  <2>1. a \in Runtime
    BY FieldType
  <2>2. Several(h, g, k, sp, t) = [d EXCEPT !.ratchetGate = g]
    BY DEF Several, Runtime
  <2> HIDE DEF a
  <2>3. b \in Runtime
    BY <2>1, FieldType
  <2> HIDE DEF b
  <2>4. c \in Runtime
    BY <2>3, FieldType
  <2> HIDE DEF c
  <2>5. d \in Runtime
    BY <2>4, FieldType
  <2> HIDE DEF d
  <2> QED
    BY <2>2, <2>5, FieldType
<1>6. SameGrid(Several(h, g, k, sp, t), h) /\ Several(h, g, k, sp, t).off > 0
  BY DEF Several, SameGrid, Runtime
<1> QED
  BY <1>1, <1>2, <1>3, <1>4, <1>5, <1>6

\* One event: it stays where it was on the grid, takes its step, and every gate it
\* raises or keeps has an end.
LEMMA FireType ==
  ASSUME NEW ch \in Channel, NEW p \in Pattern, NEW x \in [Step -> StepMeta],
         NEW q \in Nat \ {0}, NEW passes, NEW r \in Runtime
  PROVE  /\ Event(ch, r, Fire(ch, p, x, q, passes, r))
         /\ HasEnd(ch, r) => HasEnd(ch, Fire(ch, p, x, q, passes, r))
<1> DEFINE meta  == MetaOf(ch, p, x, r)
           moved == Moved(ch, r)
           hit   == Plays(ch, p, r) /\ ~ch.muted /\ (passes \/ Sure(ch, meta))
           after == Position(ch, q, r.epoch, r.serial + 1)
           span  == IF after > r.next THEN after - r.next ELSE q
           ticks == (span + q - 1) \div q
           ratchets == Lower(meta.ratchets, Upper(ticks \div 2, 1))
           sub   == Upper(ticks \div ratchets, 1)
           gate  == GateTicks(ch, meta, sub, ratchets)
           up    == Rise(IF r.tie /\ ratchets > 1 THEN Fall(moved) ELSE moved)
           hitOf == Hit(r, up)
           spacing == Upper(span \div ratchets, q)
           fired == Fire(ch, p, x, q, passes, r)
<1>1. fired = IF ~hit THEN (IF r.tie THEN Fall(moved) ELSE moved)
              ELSE IF TiesOn(ch, p, x, meta, ratchets, r.serial) THEN Tied(hitOf)
              ELSE IF ratchets = 1 THEN Single(hitOf, gate)
              ELSE Several(hitOf, gate, ratchets - 1, spacing, r.next + spacing)
  BY DEF Fire, Moved, Hit, Tied, Single, Several
<1>2. meta \in StepMeta
  BY MetaOfType
<1>3. after \in Nat /\ r.next \in Nat
  BY PositionType DEF Runtime
<1> HIDE DEF after
<1>4. span \in Nat
  BY <1>3
<1> HIDE DEF span
<1>5. ticks \in Nat
  BY <1>4
<1> HIDE DEF ticks, meta
<1>6. ratchets \in 1..8
  BY <1>2, <1>5 DEF Lower, Upper, StepMeta
<1> HIDE DEF ratchets
<1>7. sub \in Nat \ {0} /\ spacing \in Nat
  BY <1>4, <1>5, <1>6 DEF Upper
<1> HIDE DEF sub, spacing
<1>8. gate \in Nat \ {0}
  BY <1>2, <1>7, GateTicksType
<1> HIDE DEF gate
<1>9. Event(ch, r, moved) /\ moved.high = r.high /\ moved.off = r.off
  BY MovedType
<1> HIDE DEF moved
<1>10. up \in Runtime /\ SameGrid(up, moved)
  BY <1>9, FallType, RiseType, SameGridTransitive DEF Event
<1> HIDE DEF up
<1>11. hitOf \in Runtime /\ SameGrid(hitOf, moved)
  BY <1>10, HitType, SameGridTransitive
<1> HIDE DEF hitOf
<1>12. CASE ~hit
  <2>1. Fall(moved) \in Runtime /\ SameGrid(Fall(moved), moved) /\ ~Fall(moved).high
    BY <1>9, FallType DEF Event
  <2>2. fired = IF r.tie THEN Fall(moved) ELSE moved
    BY <1>1, <1>12
  <2> QED
    BY <1>9, <2>1, <2>2 DEF Event, SameEvent, SameGrid, HasEnd
<1>13. CASE hit
  <2>1. /\ Tied(hitOf) \in Runtime /\ SameGrid(Tied(hitOf), hitOf) /\ Tied(hitOf).tie
        /\ Single(hitOf, gate) \in Runtime /\ SameGrid(Single(hitOf, gate), hitOf) /\ Single(hitOf, gate).off > 0
        /\ ratchets # 1 => LET s == Several(hitOf, gate, ratchets - 1, spacing, r.next + spacing)
                           IN s \in Runtime /\ SameGrid(s, hitOf) /\ s.off > 0
    <3>1. ratchets - 1 \in 0..7 /\ r.next + spacing \in Nat
      BY <1>3, <1>6, <1>7
    <3> QED
      BY <1>7, <1>8, <1>11, <3>1, ScheduledType
  <2>2. TiesOn(ch, p, x, meta, ratchets, r.serial) => ch.mode # "Off"
    BY DEF TiesOn
  <2>3. fired \in Runtime /\ SameGrid(fired, moved)
    BY <1>1, <1>11, <1>13, <2>1, SameGridTransitive
  <2>4. HasEnd(ch, fired)
    BY <1>1, <1>13, <2>1, <2>2 DEF HasEnd
  <2> QED
    BY <1>9, <2>3, <2>4 DEF Event, SameEvent, SameGrid
<1> QED
  BY <1>12, <1>13
-----------------------------------------------------------------------------
(* Where a channel stands on the grid, and what one tick does to it.          *)

\* A GLOBAL channel is on the shared epoch, counts its steps by the serial, has its
\* next event where the serial says, and has no earlier event before it.
Joined(ch, e, r)       == ch.global => r.epoch = e
Counted(ch, r)         == ch.global /\ ch.mode \in {"Clock", "Euclid"} => r.step = r.serial % ch.cycle
Exact(ch, q, e, r)     == ch.global /\ ch.mode # "Off" => r.next = Position(ch, q, e, r.serial)
Past(ch, q, e, at, r)  == ch.global /\ ch.mode # "Off" =>
                            \A m \in 0..(r.serial - 1) : Position(ch, q, e, m) <= at

\* s, which was r, has lost nothing of that.
Keeps(ch, q, e, at, r, s) ==
  /\ s \in Runtime
  /\ HasEnd(ch, r) => HasEnd(ch, s)
  /\ Joined(ch, e, r) => /\ Joined(ch, e, s)
                         /\ Counted(ch, r) => Counted(ch, s)
                         /\ Exact(ch, q, e, r) => Exact(ch, q, e, s)
                         /\ Exact(ch, q, e, r) /\ Past(ch, q, e, at, r) => Past(ch, q, e, at, s)

LEMMA KeepsTransitive ==
  ASSUME NEW ch, NEW q, NEW e, NEW at, NEW a, NEW b, NEW c,
         Keeps(ch, q, e, at, a, b), Keeps(ch, q, e, at, b, c)
  PROVE  Keeps(ch, q, e, at, a, c)
BY Zenon DEF Keeps

\* An operator that leaves the grid alone loses nothing of it.
LEMMA KeepsGrid ==
  ASSUME NEW ch, NEW q, NEW e, NEW at, NEW r, NEW s \in Runtime, SameGrid(s, r),
         HasEnd(ch, r) => HasEnd(ch, s)
  PROVE  Keeps(ch, q, e, at, r, s)
BY DEF Keeps, SameGrid, Joined, Counted, Exact, Past

LEMMA FireDueType ==
  ASSUME NEW ch \in Channel, NEW p \in Pattern, NEW x \in [Step -> StepMeta],
         NEW q \in Nat \ {0}, NEW e \in Nat, NEW at \in Nat, NEW drops, NEW r \in Runtime
  PROVE  Keeps(ch, q, e, at, r, FireDue(ch, p, x, q, at, drops, r))
<1> DEFINE fired == Fire(ch, p, x, q, r.serial \notin drops, r)
           after == Position(ch, q, r.epoch, r.serial + 1)
           s == [fired EXCEPT !.serial = @ + 1, !.next = after]
<1>1. CASE at < r.next
  <2>1. FireDue(ch, p, x, q, at, drops, r) = r
    BY <1>1 DEF FireDue
  <2> QED
    BY <2>1, KeepsGrid DEF SameGrid
<1>2. CASE ~(at < r.next)
  <2>1. FireDue(ch, p, x, q, at, drops, r) = s
    BY <1>2 DEF FireDue
  <2>2. Event(ch, r, fired) /\ (HasEnd(ch, r) => HasEnd(ch, fired))
    BY FireType
  <2>3. r.serial \in Nat /\ r.serial + 1 \in Nat /\ r.next \in Nat /\ r.epoch \in Nat /\ ch.cycle \in Nat \ {0}
    BY DEF Runtime, Channel
  <2>4. after \in Nat
    BY <2>3, PositionType
  <2> HIDE DEF fired
  <2>5. /\ fired \in Runtime /\ fired.serial = r.serial /\ fired.epoch = r.epoch
        /\ fired.step = NextStep(ch, r)
    BY <2>2 DEF Event, SameEvent
  <2> DEFINE a == [fired EXCEPT !.serial = r.serial + 1]
  <2>6. s = [a EXCEPT !.next = after] /\ SameGate(s, fired)
    BY <2>5 DEF SameGate, Runtime
  <2>7. a \in Runtime
    BY <2>3, <2>5, FieldType
  <2>8. s \in Runtime
    <3> HIDE DEF a, s, after
    <3> QED
      BY <2>4, <2>6, <2>7, FieldType
  <2>9. s.serial = r.serial + 1 /\ s.next = after /\ s.epoch = r.epoch /\ s.step = NextStep(ch, r)
    BY <2>5 DEF Runtime
  <2> HIDE DEF s, a
  <2>10. HasEnd(ch, r) => HasEnd(ch, s)
    BY <2>2, <2>6 DEF HasEnd, SameGate
  <2>11. Joined(ch, e, r) => Joined(ch, e, s) /\ Exact(ch, q, e, s)
    BY <2>9 DEF Joined, Exact
  <2>12. Counted(ch, r) => Counted(ch, s)
    BY <2>3, <2>9, NextInCycle DEF Counted, NextStep
  <2>13. Joined(ch, e, r) /\ Exact(ch, q, e, r) /\ Past(ch, q, e, at, r) => Past(ch, q, e, at, s)
    <3> SUFFICES ASSUME Joined(ch, e, r), Exact(ch, q, e, r), Past(ch, q, e, at, r),
                        ch.global, ch.mode # "Off", NEW m \in 0..(s.serial - 1)
                 PROVE  Position(ch, q, e, m) <= at
      BY DEF Past
    <3>1. CASE m = r.serial
      BY <1>2, <2>3, <3>1 DEF Exact
    <3>2. CASE m # r.serial
      <4>1. m \in 0..(r.serial - 1)
        BY <2>3, <2>9, <3>2
      <4> QED
        BY <4>1 DEF Past
    <3> QED
      BY <3>1, <3>2
  <2> QED
    BY <2>1, <2>8, <2>10, <2>11, <2>12, <2>13 DEF Keeps
<1> QED
  BY <1>1, <1>2

\* The two loops of a tick.
LEMMA ServeType ==
  ASSUME NEW ch \in Channel, NEW p \in Pattern, NEW x \in [Step -> StepMeta],
         NEW q \in Nat \ {0}, NEW e \in Nat, NEW at \in Nat, NEW drops, NEW r \in Runtime
  PROVE  Keeps(ch, q, e, at, r, Serve(ch, p, x, q, at, drops, r))
<1> DEFINE K(s) == Keeps(ch, q, e, at, r, s)
           R(s) == Ratchet(at, s)
           F(s) == FireDue(ch, p, x, q, at, drops, s)
           ratcheted == R(R(R(R(R(R(R(r)))))))
<1>1. K(r)
  BY KeepsGrid DEF SameGrid
<1>2. ASSUME NEW s, K(s) PROVE K(R(s))
  <2>1. s \in Runtime
    BY <1>2 DEF Keeps
  <2>2. Keeps(ch, q, e, at, s, R(s))
    BY <2>1, RatchetType, KeepsGrid
  <2> QED
    BY <1>2, <2>2, KeepsTransitive
<1>3. ASSUME NEW s, K(s) PROVE K(F(s))
  <2>1. s \in Runtime
    BY <1>3 DEF Keeps
  <2>2. Keeps(ch, q, e, at, s, F(s))
    BY <2>1, FireDueType
  <2> QED
    BY <1>3, <2>2, KeepsTransitive
<1>4. ASSUME NEW s, K(s) PROVE K(Fall(s))
  <2>1. s \in Runtime
    BY <1>4 DEF Keeps
  <2>2. Fall(s) \in Runtime /\ SameGrid(Fall(s), s) /\ HasEnd(ch, Fall(s))
    BY <2>1, FallType DEF HasEnd
  <2>3. Keeps(ch, q, e, at, s, Fall(s))
    BY <2>2, KeepsGrid
  <2> QED
    BY <1>4, <2>3, KeepsTransitive
<1>5. Serve(ch, p, x, q, at, drops, r)
        = IF ch.mode = "Off" THEN Fall(ratcheted) ELSE F(F(F(F(F(F(F(F(ratcheted))))))))
  BY DEF Serve, SevenTimes, EightTimes
<1> HIDE DEF K, R, F
<1>6. K(ratcheted)
  BY <1>1, <1>2
<1> HIDE DEF ratcheted
<1>7. K(F(F(F(F(F(F(F(F(ratcheted)))))))))
  BY <1>3, <1>6
<1>8. K(Fall(ratcheted))
  BY <1>4, <1>6
<1> QED
  BY <1>5, <1>7, <1>8 DEF K
-----------------------------------------------------------------------------
(* What resets and edits do to a channel.                                     *)

Placed(ch, q, e, at, r) ==
  Joined(ch, e, r) /\ Counted(ch, r) /\ Exact(ch, q, e, r) /\ Past(ch, q, e, at, r)

\* A rescheduled channel has its place on the grid, and its gate as it was.
LEMMA ReschedulePlaces ==
  ASSUME NEW ch \in Channel, NEW p \in Pattern, NEW q \in Nat \ {0}, NEW e \in Nat,
         NEW at \in Nat, NEW boundary, NEW r \in Runtime
  PROVE  LET s == Reschedule(ch, p, q, e, at, boundary, r)
         IN s \in Runtime /\ SameGate(s, r) /\ Placed(ch, q, e, at, s)
<1>0. PICK from \in Nat, n \in Nat, k \in Nat :
           Rescheduled(ch, q, e, at, r, Reschedule(ch, p, q, e, at, boundary, r), from, n, k)
  BY RescheduleType
<1>1. /\ Reschedule(ch, p, q, e, at, boundary, r)
           = [r EXCEPT !.epoch = from, !.serial = n, !.next = Position(ch, q, from, n), !.step = k]
      /\ from = IF ch.global THEN e ELSE r.epoch
      /\ \A m \in 0..(n - 1) : Position(ch, q, from, m) <= at
      /\ ch.global /\ ch.mode \in {"Clock", "Euclid"} => k = n % ch.cycle
  BY <1>0 DEF Rescheduled
<1> DEFINE next == Position(ch, q, from, n)
           a == [r EXCEPT !.epoch = from]
           b == [a EXCEPT !.serial = n]
           c == [b EXCEPT !.next = next]
           s == [r EXCEPT !.epoch = from, !.serial = n, !.next = next, !.step = k]
<1>2. next \in Nat
  BY PositionType
<1>3. s = [c EXCEPT !.step = k]
  BY DEF Runtime
<1>4. a \in Runtime
  BY FieldType
<1>5. /\ SameGate(s, r)
      /\ s.epoch = from /\ s.serial = n /\ s.next = next /\ s.step = k
  BY DEF SameGate, Runtime
<1> HIDE DEF next, s, a
<1>6. b \in Runtime
  BY <1>4, FieldType
<1> HIDE DEF b
<1>7. c \in Runtime
  BY <1>2, <1>6, FieldType
<1> HIDE DEF c
<1>8. s \in Runtime
  BY <1>3, <1>7, FieldType
<1>9. Placed(ch, q, e, at, s)
  BY <1>1, <1>5 DEF Placed, Joined, Counted, Exact, Past, next
<1> QED
  BY <1>1, <1>5, <1>8, <1>9 DEF s, next

\* The step that follows the schedule disturbs neither the place nor the gate.
LEMMA SyncStepPlaces ==
  ASSUME NEW ch \in Channel, NEW p \in Pattern, NEW r \in Runtime
  PROVE  LET s == SyncStep(ch, p, r)
         IN s \in Runtime /\ SameGate(s, r) /\ SameEvent(s, r) /\ Counted(ch, s)
<1>1. PICK k \in Nat : /\ SyncStep(ch, p, r) = [r EXCEPT !.step = k]
                       /\ ch.global /\ ch.mode \in {"Clock", "Euclid"} => k = r.serial % ch.cycle
  BY SyncStepType
<1> DEFINE s == [r EXCEPT !.step = k]
<1>2. s \in Runtime
  BY FieldType
<1>3. SameGate(s, r) /\ SameEvent(s, r) /\ s.step = k /\ s.serial = r.serial
  BY DEF SameGate, SameEvent, Runtime
<1> HIDE DEF s
<1>4. Counted(ch, s)
  BY <1>1, <1>3 DEF Counted
<1> QED
  BY <1>1, <1>2, <1>3, <1>4 DEF s

LEMMA SameEventPlaces ==
  ASSUME NEW ch, NEW q, NEW e, NEW at, NEW r, NEW s, SameEvent(s, r)
  PROVE  /\ Joined(ch, e, r) => Joined(ch, e, s)
         /\ Exact(ch, q, e, r) => Exact(ch, q, e, s)
         /\ Past(ch, q, e, at, r) => Past(ch, q, e, at, s)
BY DEF SameEvent, Joined, Exact, Past

\* resetRuntime: every output is LOW, every GLOBAL channel at the start of the new grid.
LEMMA ResetChannelType ==
  ASSUME NEW ch \in Channel, NEW p \in Pattern, NEW q \in Nat \ {0}, NEW at \in Nat, NEW r \in Runtime
  PROVE  LET s == ResetChannel(ch, p, q, at, r)
         IN s \in Runtime /\ ~s.high /\ Placed(ch, q, at, at, s)
<1> DEFINE low == Fall(r)
           cutOff == Cut(low)
           a == [cutOff EXCEPT !.epoch = at]
           b == [a EXCEPT !.step = 0]
           zero == [cutOff EXCEPT !.epoch = at, !.step = 0, !.serial = 0]
<1>1. low \in Runtime /\ ~low.high
  BY FallType
<1> HIDE DEF low
<1>2. cutOff \in Runtime /\ ~cutOff.high
  BY <1>1, GateOps
<1> HIDE DEF cutOff
<1>3. zero = [b EXCEPT !.serial = 0] /\ ~zero.high
  BY <1>2 DEF Runtime
<1>4. a \in Runtime
  BY <1>2, FieldType
<1> HIDE DEF a
<1>5. b \in Runtime
  BY <1>4, FieldType
<1> HIDE DEF b
<1>6. zero \in Runtime
  <2> HIDE DEF zero
  <2> QED
    BY <1>3, <1>5, FieldType
<1>7. CASE ch.global
  <2>1. ResetChannel(ch, p, q, at, r) = Reschedule(ch, p, q, at, at, TRUE, zero)
    BY <1>7 DEF ResetChannel, low, cutOff
  <2> HIDE DEF zero
  <2> DEFINE s == Reschedule(ch, p, q, at, at, TRUE, zero)
  <2>2. s \in Runtime /\ SameGate(s, zero) /\ Placed(ch, q, at, at, s)
    BY <1>6, ReschedulePlaces, Zenon
  <2> QED
    BY <1>3, <2>1, <2>2 DEF SameGate
<1>8. CASE ~ch.global
  BY <1>1, <1>8 DEF ResetChannel, Placed, Joined, Counted, Exact, Past, low
<1> QED
  BY <1>7, <1>8

\* An edit followed by a reschedule, or one that leaves the timing alone.
LEMMA EditType ==
  ASSUME NEW ch \in Channel, NEW p \in Pattern, NEW q \in Nat \ {0}, NEW e \in Nat,
         NEW at \in Nat, NEW boundary, NEW resched, NEW r \in Runtime
  PROVE  LET s == SyncStep(ch, p, IF resched THEN Reschedule(ch, p, q, e, at, boundary, r) ELSE r)
         IN /\ s \in Runtime /\ SameGate(s, r) /\ Counted(ch, s)
            /\ resched => Placed(ch, q, e, at, s)
            /\ ~resched => SameEvent(s, r)
<1> DEFINE m == IF resched THEN Reschedule(ch, p, q, e, at, boundary, r) ELSE r
<1>1. m \in Runtime /\ SameGate(m, r) /\ (resched => Placed(ch, q, e, at, m)) /\ (~resched => m = r)
  BY ReschedulePlaces DEF SameGate
<1> HIDE DEF m
<1>2. LET s == SyncStep(ch, p, m)
      IN s \in Runtime /\ SameGate(s, m) /\ SameEvent(s, m) /\ Counted(ch, s)
  BY <1>1, SyncStepPlaces
<1>3. resched => Placed(ch, q, e, at, SyncStep(ch, p, m))
  BY <1>1, <1>2, SameEventPlaces DEF Placed
<1>4. SameGate(SyncStep(ch, p, m), r)
  BY <1>1, <1>2 DEF SameGate
<1> QED
  BY <1>1, <1>2, <1>3, <1>4 DEF m
-----------------------------------------------------------------------------
(* The inductive invariant.                                                   *)

\* What the user may install.
Offered(c) == {s.channel[c] : s \in Settings}
AllTempos  == Tempos \union {s.tempo : s \in Settings}

ConfInv ==
  /\ conf \in Setting /\ conf.tempo \in AllTempos
  /\ \A c \in Channels : conf.channel[c] \in Offered(c)
  /\ pattern \in [Channels -> Pattern] /\ expression \in [Channels -> [Step -> StepMeta]]
RunInv   == run \in [Channels -> Runtime]
TypesInv == TypeOK /\ ConfInv /\ RunInv

\* Every gate has an end, and none is HIGH outside of playing.
GateInv ==
  \A c \in Channels : /\ HasEnd(conf.channel[c], run[c])
                      /\ run[c].high => playing /\ ~count.on /\ ~held

\* Every GLOBAL channel has its place on the grid of the tempo in force; the histories
\* say when corrections have taken the exact place away.
GridInv ==
  \A c \in Channels :
    /\ Joined(conf.channel[c], epoch, run[c]) /\ Counted(conf.channel[c], run[c])
    /\ ~cut => Exact(conf.channel[c], Tempo, epoch, run[c])
    /\ ~cut /\ ~shifted => Past(conf.channel[c], Tempo, epoch, master, run[c])

\* The beat shown is the distance from the epoch, and so was the count of pulses at the
\* last of them.
BeatInv ==
  anchored /\ ~cut => /\ beats = master - epoch
                      /\ sync.phaseKnown => sync.musical = sync.ref - epoch
-----------------------------------------------------------------------------
(* What the variables are made of stays so.                                   *)

LEMMA TempoType ==
  ASSUME NEW t \in AllTempos
  PROVE  t \in 1..Beat /\ t \in Nat \ {0}
BY ScaleAssumption, SettingsAssumption DEF AllTempos

LEMMA OfferedType ==
  ASSUME NEW c \in Channels, NEW s \in Settings
  PROVE  /\ s \in Setting /\ s.channel[c] \in Offered(c) /\ s.channel[c] \in Channel
         /\ s.tempo \in AllTempos
BY SettingsAssumption DEF Offered, AllTempos, Setting

\* The tempo in force is one of those offered.
LEMMA TempoInForce ==
  ASSUME NEW s, s.tempo \in AllTempos, NEW y, y.tempo \in Tempos \union {0}
  PROVE  EffectiveTempo(s, y) \in AllTempos
BY DEF EffectiveTempo, AllTempos

\* What is in force in a state, and in the next one.
LEMMA InForce ==
  ASSUME TypesInv
  PROVE  /\ Tempo \in AllTempos /\ Tempo \in Nat \ {0}
         /\ \A c \in Channels : /\ conf.channel[c] \in Channel /\ pattern[c] \in Pattern
                                /\ expression[c] \in [Step -> StepMeta] /\ run[c] \in Runtime
         /\ master \in Nat /\ epoch \in Nat
<1>1. sync.tempo \in Tempos \union {0}
  BY DEF TypesInv, TypeOK
<1>2. Tempo \in AllTempos
  BY <1>1, TempoInForce DEF TypesInv, ConfInv, Tempo
<1>3. \A c \in Channels : conf.channel[c] \in Channel
  BY DEF TypesInv, ConfInv, Setting
<1>4. \A c \in Channels : pattern[c] \in Pattern /\ expression[c] \in [Step -> StepMeta] /\ run[c] \in Runtime
  BY DEF TypesInv, ConfInv, RunInv
<1>5. master \in Nat /\ epoch \in Nat
  BY ScaleAssumption DEF TypesInv, TypeOK
<1> QED
  BY <1>2, <1>3, <1>4, <1>5, TempoType

\* A reset puts every GLOBAL channel at the start of a grid that begins now.
LEMMA ResetRunsType ==
  ASSUME TypesInv, NEW runs \in [Channels -> Runtime], NEW y, y.tempo \in Tempos \union {0}
  PROVE  /\ ResetRuns(runs, y) \in [Channels -> Runtime]
         /\ \A c \in Channels :
              /\ ~ResetRuns(runs, y)[c].high
              /\ Placed(conf.channel[c], EffectiveTempo(conf, y), master, master, ResetRuns(runs, y)[c])
<1>1. EffectiveTempo(conf, y) \in Nat \ {0}
  BY TempoInForce, TempoType DEF TypesInv, ConfInv
<1>2. ASSUME NEW c \in Channels
      PROVE  LET s == ResetChannel(conf.channel[c], pattern[c], EffectiveTempo(conf, y), master, runs[c])
             IN s \in Runtime /\ ~s.high /\ Placed(conf.channel[c], EffectiveTempo(conf, y), master, master, s)
  BY <1>1, InForce, ResetChannelType
<1> QED
  BY <1>2 DEF ResetRuns

LEMMA InitTypes == Init => TypesInv
<1> SUFFICES ASSUME Init PROVE TypesInv
  OBVIOUS
<1>1. ConfInv
  <2>1. conf \in Settings /\ pattern \in [Channels -> Patterns] /\ expression \in [Channels -> Expressions]
    BY DEF Init
  <2>2. pattern \in [Channels -> Pattern] /\ expression \in [Channels -> [Step -> StepMeta]]
    BY <2>1, SettingsAssumption
  <2>3. conf \in Setting /\ conf.tempo \in AllTempos
    BY <2>1, SettingsAssumption DEF AllTempos
  <2>4. \A c \in Channels : conf.channel[c] \in Offered(c)
    BY <2>1 DEF Offered
  <2> QED
    BY <2>2, <2>3, <2>4 DEF ConfInv
<1>2. conf.tempo \in Nat \ {0} /\ \A c \in Channels : conf.channel[c] \in Channel /\ pattern[c] \in Pattern
  BY <1>1, TempoType DEF ConfInv, Setting
<1>3. ASSUME NEW ch \in Channel, NEW p \in Pattern PROVE Idle(ch, p) \in Runtime
  <2> DEFINE r == [next |-> Position(ch, conf.tempo, 0, 0), epoch |-> 0, serial |-> 0, step |-> 0,
                   off |-> 0, high |-> FALSE, tie |-> FALSE, ratchets |-> 0, nextRatchet |-> 0,
                   spacing |-> 0, ratchetGate |-> 1, steady |-> FALSE, lost |-> FALSE]
  <2>1. Position(ch, conf.tempo, 0, 0) \in Nat
    BY <1>2, PositionType
  <2>2. r \in Runtime
    BY <2>1 DEF Runtime
  <2>3. Idle(ch, p) = SyncStep(ch, p, r)
    BY DEF Idle
  <2> HIDE DEF r
  <2> QED
    BY <2>2, <2>3, SyncStepPlaces
<1>4. RunInv
  BY <1>2, <1>3 DEF Init, RunInv
<1>5. count \in [on : BOOLEAN, left : Nat, phase : 0..(Beat - 1)] /\ (count.on <=> count.left > 0)
  BY ScaleAssumption DEF Init, NoCount
<1>6. sync \in [locked : BOOLEAN, tempo : Tempos \union {0}, phaseKnown : BOOLEAN,
                ref : 0..master, musical : 0..MaxPosition]
  BY ScaleAssumption DEF Init
<1>7. TypeOK
  <2>1. gap \in 0..PulseGap /\ master \in 0..MaxPosition /\ beats \in Nat /\ epoch \in Nat
    BY ScaleAssumption DEF Init
  <2>2. /\ playing \in BOOLEAN /\ restart \in BOOLEAN /\ held \in BOOLEAN /\ ticking \in BOOLEAN
        /\ anchored \in BOOLEAN /\ cut \in BOOLEAN /\ shifted \in BOOLEAN
    BY DEF Init
  <2> QED
    BY <1>4, <1>5, <1>6, <2>1, <2>2, Zenon DEF TypeOK, RunInv
<1> QED
  BY <1>1, <1>4, <1>7 DEF TypesInv

\* An action keeps the types if it keeps those of the runtimes and of what it changes.
LEMMA PlayTypes ==
  ASSUME TypesInv, Play
  PROVE  TypesInv'
<1>1. ConfInv' /\ RunInv'
  BY DEF TypesInv, ConfInv, RunInv, Play, configVars
<1>2. conf.preCount \in Nat
  BY DEF TypesInv, ConfInv, Setting
<1>3. count' \in [on : BOOLEAN, left : Nat, phase : 0..(Beat - 1)] /\ (count'.on <=> count'.left > 0)
  BY <1>2, ScaleAssumption DEF Play, TypesInv, TypeOK
<1>4. TypeOK'
  BY <1>1, <1>3, ScaleAssumption DEF Play, TypesInv, TypeOK, RunInv, Anywhere, Foreground, FromIsr
<1> QED
  BY <1>1, <1>4 DEF TypesInv

LEMMA PauseTypes ==
  ASSUME TypesInv, Pause
  PROVE  TypesInv'
<1>1. ConfInv'
  BY DEF TypesInv, ConfInv, Pause, configVars
<1>2. RunInv'
  BY InForce, GateOps DEF Pause, RunInv
<1>3. TypeOK'
  BY <1>2, ScaleAssumption DEF Pause, TypesInv, TypeOK, RunInv, Foreground
<1> QED
  BY <1>1, <1>2, <1>3 DEF TypesInv

LEMMA CutRunsType ==
  ASSUME TypesInv
  PROVE  [c \in Channels |-> Cut(run[c])] \in [Channels -> Runtime]
BY InForce, GateOps

LEMMA ResetToTypes ==
  ASSUME TypesInv, NEW runs \in [Channels -> Runtime], NEW y, y.tempo \in Tempos \union {0},
         y.phaseKnown \in BOOLEAN, ResetTo(runs, y)
  PROVE  /\ RunInv' /\ restart' \in BOOLEAN /\ epoch' \in Nat /\ beats' \in Nat
         /\ anchored' \in BOOLEAN /\ cut' \in BOOLEAN /\ shifted' \in BOOLEAN
<1>1. RunInv'
  BY ResetRunsType DEF ResetTo, RunInv
<1>2. epoch' \in Nat /\ beats' \in Nat
  BY InForce DEF ResetTo
<1> QED
  BY <1>1, <1>2 DEF ResetTo

LEMMA StopTypes ==
  ASSUME TypesInv, Stop
  PROVE  TypesInv'
<1>1. ConfInv'
  BY DEF TypesInv, ConfInv, Stop, configVars
<1>2. /\ RunInv' /\ restart' \in BOOLEAN /\ epoch' \in Nat /\ beats' \in Nat
      /\ anchored' \in BOOLEAN /\ cut' \in BOOLEAN /\ shifted' \in BOOLEAN
  <2>1. sync.tempo \in Tempos \union {0} /\ sync.phaseKnown \in BOOLEAN
    BY DEF TypesInv, TypeOK
  <2> QED
    BY <2>1, CutRunsType, ResetToTypes DEF Stop
<1>3. count' \in [on : BOOLEAN, left : Nat, phase : 0..(Beat - 1)] /\ (count'.on <=> count'.left > 0)
  BY ScaleAssumption DEF Stop, NoCount
<1>4. TypeOK'
  BY <1>2, <1>3, ScaleAssumption DEF Stop, TypesInv, TypeOK, RunInv, Anywhere, Foreground, FromIsr
<1> QED
  BY <1>1, <1>2, <1>4 DEF TypesInv

LEMMA ResetTypes ==
  ASSUME TypesInv, ResetGlobalPhase \/ \E high \in BOOLEAN : SetExternalResetGate(high)
  PROVE  TypesInv'
<1>1. ResetTo(run, sync) /\ UNCHANGED <<configVars, playing, count, master, sync>> /\ held' \in BOOLEAN
      /\ Anywhere
  BY DEF ResetGlobalPhase, SetExternalResetGate, Anywhere, TypesInv, TypeOK
<1>2. ConfInv'
  BY <1>1 DEF TypesInv, ConfInv, configVars
<1>3. /\ RunInv' /\ restart' \in BOOLEAN /\ epoch' \in Nat /\ beats' \in Nat
      /\ anchored' \in BOOLEAN /\ cut' \in BOOLEAN /\ shifted' \in BOOLEAN
  <2>1. sync.tempo \in Tempos \union {0} /\ sync.phaseKnown \in BOOLEAN /\ run \in [Channels -> Runtime]
    BY DEF TypesInv, TypeOK, RunInv
  <2> QED
    BY <1>1, <2>1, ResetToTypes
<1>4. TypeOK'
  BY <1>1, <1>3, ScaleAssumption DEF TypesInv, TypeOK, RunInv, Anywhere, Foreground, FromIsr
<1> QED
  BY <1>2, <1>3, <1>4 DEF TypesInv

SyncType  == [locked : BOOLEAN, tempo : Tempos \union {0}, phaseKnown : BOOLEAN,
              ref : 0..master, musical : 0..MaxPosition]
CountType == [on : BOOLEAN, left : Nat, phase : 0..(Beat - 1)]

\* What a pulse makes of the lock.
LEMMA LockedType ==
  ASSUME TypesInv, NEW tempo \in Tempos
  PROVE  LET known == [sync EXCEPT !.locked = TRUE, !.tempo = tempo]
         IN /\ known \in SyncType /\ known.tempo = tempo /\ known.phaseKnown = sync.phaseKnown
            /\ [known EXCEPT !.phaseKnown = TRUE, !.ref = master, !.musical = 0] \in SyncType
            /\ [known EXCEPT !.phaseKnown = TRUE, !.ref = master, !.musical = 0].tempo = tempo
            /\ [known EXCEPT !.phaseKnown = TRUE, !.ref = master, !.musical = 0].phaseKnown
<1> DEFINE a == [sync EXCEPT !.locked = TRUE]
           known == [sync EXCEPT !.locked = TRUE, !.tempo = tempo]
           b == [known EXCEPT !.phaseKnown = TRUE]
           c == [b EXCEPT !.ref = master]
           first == [known EXCEPT !.phaseKnown = TRUE, !.ref = master, !.musical = 0]
<1>1. sync \in SyncType
  BY DEF TypesInv, TypeOK, SyncType
<1>2. known = [a EXCEPT !.tempo = tempo] /\ known.phaseKnown = sync.phaseKnown /\ known.tempo = tempo
  BY <1>1 DEF SyncType
<1>3. a \in SyncType
  BY <1>1 DEF SyncType
<1> HIDE DEF a
<1>4. known \in SyncType
  BY <1>2, <1>3 DEF SyncType
<1> HIDE DEF known
<1>5. first = [c EXCEPT !.musical = 0] /\ first.tempo = tempo /\ first.phaseKnown
  BY <1>2, <1>4 DEF SyncType
<1>6. b \in SyncType
  BY <1>4 DEF SyncType
<1> HIDE DEF b
<1>7. master \in 0..master /\ 0 \in 0..MaxPosition
  BY InForce, ScaleAssumption
<1>8. c \in SyncType
  BY <1>6, <1>7 DEF SyncType
<1> HIDE DEF c
<1>9. first \in SyncType
  BY <1>5, <1>7, <1>8 DEF SyncType
<1> QED
  BY <1>2, <1>4, <1>5, <1>9 DEF known, first

LEMMA IgnorePulseTypes ==
  ASSUME TypesInv, NEW tempo \in Tempos, IgnorePulse(tempo)
  PROVE  TypesInv'
<1>1. ConfInv' /\ RunInv'
  BY DEF TypesInv, ConfInv, RunInv, IgnorePulse, configVars
<1>2. sync' \in SyncType
  BY LockedType DEF IgnorePulse
<1>3. TypeOK'
  BY <1>1, <1>2, ScaleAssumption DEF IgnorePulse, FromPulse, TypesInv, TypeOK, RunInv, SyncType
<1> QED
  BY <1>1, <1>3 DEF TypesInv

\* A beat counted down, by the tick or by a pulse.
LEMMA CountType1 ==
  ASSUME TypesInv, count.on, NEW d \in Nat,
         NEW left, left = IF count.phase + d >= Beat THEN count.left - 1 ELSE count.left, left > 0
  PROVE  LET k == [count EXCEPT !.left = left, !.phase = (count.phase + d) % Beat]
         IN k \in CountType /\ (k.on <=> k.left > 0) /\ k.on
<1>1. (count.phase + d) % Beat \in 0..(Beat - 1)
  BY ScaleAssumption DEF TypesInv, TypeOK
<1>2. left \in Nat
  BY DEF TypesInv, TypeOK
<1> QED
  BY <1>1, <1>2 DEF TypesInv, TypeOK, CountType

LEMMA NoCountType == NoCount \in CountType /\ (NoCount.on <=> NoCount.left > 0) /\ ~NoCount.on
BY ScaleAssumption DEF NoCount, CountType

LEMMA CountPulseTypes ==
  ASSUME TypesInv, NEW tempo \in Tempos, CountPulse(tempo)
  PROVE  TypesInv'
<1> DEFINE left  == IF count.phase + PulseStep >= Beat THEN count.left - 1 ELSE count.left
           known == [sync EXCEPT !.locked = TRUE, !.tempo = tempo]
<1>1. ConfInv'
  BY DEF TypesInv, ConfInv, CountPulse, configVars
<1>2. CASE left > 0
  <2>1. RunInv'
    BY <1>2 DEF TypesInv, RunInv, CountPulse
  <2>2. sync' \in SyncType
    BY <1>2, LockedType DEF CountPulse
  <2>3. count' \in CountType /\ (count'.on <=> count'.left > 0)
    <3>1. PulseStep \in Nat /\ count.on
      BY ScaleAssumption DEF CountPulse
    <3>2. count' = [count EXCEPT !.left = left, !.phase = (count.phase + PulseStep) % Beat]
      BY <1>2 DEF CountPulse
    <3> HIDE DEF left
    <3>3. left = IF count.phase + PulseStep >= Beat THEN count.left - 1 ELSE count.left
      BY DEF left
    <3> QED
      BY <1>2, <3>1, <3>2, <3>3, CountType1
  <2>4. TypeOK'
    BY <1>2, <2>1, <2>2, <2>3, ScaleAssumption
       DEF CountPulse, FromPulse, TypesInv, TypeOK, RunInv, SyncType, CountType
  <2> QED
    BY <1>1, <2>1, <2>4 DEF TypesInv
<1>3. CASE ~(left > 0)
  <2>1. known.tempo \in Tempos \union {0}
    BY LockedType
  <2>2. run' = ResetRuns(run, known) /\ run \in [Channels -> Runtime]
    BY <1>3 DEF CountPulse, TypesInv, RunInv
  <2>3. RunInv'
    BY <2>1, <2>2, ResetRunsType DEF RunInv
  <2>4. sync' \in SyncType
    BY <1>3, LockedType DEF CountPulse
  <2>5. count' = NoCount /\ epoch' = master /\ beats' = 0 /\ restart' /\ anchored' /\ ~cut' /\ ~shifted'
    BY <1>3 DEF CountPulse
  <2>6. TypeOK'
    <3>1. count' \in CountType /\ (count'.on <=> count'.left > 0)
      BY <2>5, NoCountType
    <3>2. UNCHANGED <<playing, master, held>> /\ ticking' = TRUE /\ gap' = PulseGap
      BY DEF CountPulse, FromPulse
    <3>3. epoch' \in Nat /\ beats' \in Nat
      BY <2>5, InForce
    <3>4. /\ restart' \in BOOLEAN /\ anchored' \in BOOLEAN /\ cut' \in BOOLEAN /\ shifted' \in BOOLEAN
      BY <1>3 DEF CountPulse
    <3> QED
      BY <2>3, <2>4, <3>1, <3>2, <3>3, <3>4, ScaleAssumption DEF TypesInv, TypeOK, RunInv, SyncType, CountType
  <2> QED
    BY <1>1, <2>3, <2>6 DEF TypesInv
<1> QED
  BY <1>2, <1>3

LEMMA FirstPulseTypes ==
  ASSUME TypesInv, NEW tempo \in Tempos, FirstPulse(tempo)
  PROVE  TypesInv'
<1> DEFINE known == [sync EXCEPT !.locked = TRUE, !.tempo = tempo]
<1>1. ConfInv'
  BY DEF TypesInv, ConfInv, FirstPulse, configVars
<1>2. known.tempo \in Tempos \union {0}
  BY LockedType
<1>3. run' = ResetRuns(run, known) /\ run \in [Channels -> Runtime]
  BY DEF FirstPulse, TypesInv, RunInv
<1>4. RunInv'
  BY <1>2, <1>3, ResetRunsType DEF RunInv
<1>5. sync' \in SyncType
  BY LockedType DEF FirstPulse
<1>6. TypeOK'
  <2>1. epoch' \in Nat /\ beats' \in Nat
    BY InForce DEF FirstPulse
  <2>2. /\ restart' \in BOOLEAN /\ anchored' \in BOOLEAN /\ cut' \in BOOLEAN /\ shifted' \in BOOLEAN
    BY DEF FirstPulse
  <2>3. UNCHANGED <<playing, count, master, held>> /\ ticking' = TRUE /\ gap' = PulseGap
    BY DEF FirstPulse, FromPulse
  <2> QED
    BY <1>4, <1>5, <2>1, <2>2, <2>3, ScaleAssumption DEF TypesInv, TypeOK, RunInv, SyncType
<1> QED
  BY <1>1, <1>4, <1>6 DEF TypesInv

LEMMA LoseLockTypes ==
  ASSUME TypesInv, NEW tempo \in Tempos, LoseLock(tempo)
  PROVE  TypesInv'
<1>1. ConfInv'
  BY DEF TypesInv, ConfInv, LoseLock, configVars
<1>2. RunInv'
  BY InForce, GateOps DEF LoseLock, RunInv
<1>3. sync' \in SyncType
  <2>1. sync \in SyncType
    BY DEF TypesInv, TypeOK, SyncType
  <2>2. sync' = [locked |-> FALSE, tempo |-> tempo, phaseKnown |-> FALSE, ref |-> sync.ref, musical |-> 0]
    BY <2>1 DEF LoseLock, SyncType
  <2>3. sync.ref \in 0..master /\ 0 \in 0..MaxPosition
    BY <2>1, ScaleAssumption DEF SyncType
  <2> QED
    BY <2>2, <2>3 DEF SyncType
<1>4. TypeOK'
  BY <1>2, <1>3, ScaleAssumption DEF LoseLock, TypesInv, TypeOK, RunInv, SyncType, Anywhere, Foreground, FromIsr
<1> QED
  BY <1>1, <1>2, <1>4 DEF TypesInv

LEMMA ShiftType ==
  ASSUME NEW pos \in Nat, NEW expected \in Nat, NEW observed \in Nat
  PROVE  /\ Shift(pos, expected, observed) \in Nat
         /\ observed >= expected => Shift(pos, expected, observed) = pos + (observed - expected)
         /\ observed < expected /\ pos >= expected - observed
              => Shift(pos, expected, observed) = pos - (expected - observed)
BY DEF Shift, Upper

\* A GLOBAL channel moves with its epoch, a FREE one stays; the gate stays.
LEMMA ShiftChannelType ==
  ASSUME TypesInv, NEW ch \in Channel, NEW expected \in Nat, NEW r \in Runtime
  PROVE  LET s == ShiftChannel(ch, expected, r)
         IN /\ s \in Runtime /\ SameGate(s, r) /\ s.serial = r.serial /\ s.step = r.step
            /\ ~ch.global => s = r
            /\ ch.global => /\ s.epoch = Shift(r.epoch, expected, master)
                            /\ s.next = Shift(r.next, expected, master)
<1> DEFINE epoch2 == Shift(r.epoch, expected, master)
           next2  == Shift(r.next, expected, master)
           a == [r EXCEPT !.epoch = epoch2]
           moved == [r EXCEPT !.epoch = epoch2, !.next = next2]
<1>1. epoch2 \in Nat /\ next2 \in Nat
  BY InForce, ShiftType DEF Runtime
<1>2. ShiftChannel(ch, expected, r) = IF ~ch.global THEN r ELSE IF expected = master THEN moved ELSE Unsteady(moved)
  BY DEF ShiftChannel, Runtime
<1> HIDE DEF epoch2, next2
<1>3. moved = [a EXCEPT !.next = next2]
  BY DEF Runtime
<1>4. /\ SameGate(moved, r) /\ moved.serial = r.serial /\ moved.step = r.step
      /\ moved.epoch = epoch2 /\ moved.next = next2
  BY DEF SameGate, Runtime
<1>5. a \in Runtime
  BY <1>1, FieldType
<1> HIDE DEF a, moved
<1>6. moved \in Runtime
  BY <1>1, <1>3, <1>5, FieldType
<1>7. Unsteady(moved) \in Runtime /\ SameGrid(Unsteady(moved), moved) /\ SameGate(Unsteady(moved), moved)
  BY <1>6, GateOps
<1>8. CASE ~ch.global
  BY <1>2, <1>8 DEF SameGate
<1>9. CASE ch.global
  BY <1>2, <1>4, <1>6, <1>7, <1>9 DEF SameGrid, SameGate, epoch2, next2
<1> QED
  BY <1>8, <1>9

\* The same with the history of a changed tempo.
Shifted(ch, expected, r) ==
  IF EffectiveTempo(conf, sync') = Tempo THEN ShiftChannel(ch, expected, r)
  ELSE Unsteady(ShiftChannel(ch, expected, r))

LEMMA ShiftedType ==
  ASSUME TypesInv, NEW ch \in Channel, NEW expected \in Nat, NEW r \in Runtime
  PROVE  LET s == Shifted(ch, expected, r)
         IN /\ s \in Runtime /\ SameGate(s, r) /\ s.serial = r.serial /\ s.step = r.step
            /\ ch.global => /\ s.epoch = Shift(r.epoch, expected, master)
                            /\ s.next = Shift(r.next, expected, master)
<1> DEFINE m == ShiftChannel(ch, expected, r)
<1>1. /\ m \in Runtime /\ SameGate(m, r) /\ m.serial = r.serial /\ m.step = r.step
      /\ ch.global => m.epoch = Shift(r.epoch, expected, master) /\ m.next = Shift(r.next, expected, master)
  BY ShiftChannelType
<1> HIDE DEF m
<1>2. Unsteady(m) \in Runtime /\ SameGrid(Unsteady(m), m) /\ SameGate(Unsteady(m), m)
  BY <1>1, GateOps
<1>3. Shifted(ch, expected, r) = m \/ Shifted(ch, expected, r) = Unsteady(m)
  BY DEF Shifted, m
<1> QED
  BY <1>1, <1>2, <1>3 DEF SameGate, SameGrid

LEMMA AlignPulseTypes ==
  ASSUME TypesInv, NEW tempo \in Tempos, AlignPulse(tempo)
  PROVE  TypesInv'
<1> DEFINE expected == sync.ref + PulseStep
           musical  == sync.musical + PulseStep
<1>1. ConfInv'
  BY DEF TypesInv, ConfInv, AlignPulse, configVars
<1>2. sync \in SyncType /\ sync.ref \in Nat /\ master \in Nat
  BY InForce DEF TypesInv, TypeOK, SyncType
<1>3. expected \in Nat /\ musical \in 0..MaxPosition
  BY <1>2, ScaleAssumption DEF AlignPulse, SyncType
<1>4. run' = [c \in Channels |-> Shifted(conf.channel[c], expected, run[c])]
  BY DEF AlignPulse, Shifted
<1> HIDE DEF expected
<1>5. RunInv'
  BY <1>3, <1>4, InForce, ShiftedType DEF RunInv
<1>6. sync' \in SyncType
  <2> DEFINE a == [sync EXCEPT !.locked = TRUE]
             b == [a EXCEPT !.tempo = tempo]
             c == [b EXCEPT !.ref = master]
  <2>1. sync' = [c EXCEPT !.musical = musical]
    BY <1>2 DEF AlignPulse, SyncType
  <2>2. a \in SyncType
    BY <1>2 DEF SyncType
  <2> HIDE DEF a
  <2>3. b \in SyncType
    BY <2>2 DEF SyncType
  <2> HIDE DEF b
  <2>4. master \in 0..master
    BY <1>2
  <2>5. c \in SyncType
    BY <2>3, <2>4 DEF SyncType
  <2> HIDE DEF c, musical
  <2> QED
    BY <1>3, <2>1, <2>5 DEF SyncType
<1>7. epoch' \in Nat /\ beats' \in Nat
  <2>1. epoch' = Shift(epoch, expected, master) /\ beats' = musical
    BY DEF AlignPulse, expected
  <2>2. epoch \in Nat /\ musical \in Nat
    BY <1>3, InForce, ScaleAssumption
  <2> HIDE DEF musical
  <2> QED
    BY <1>2, <1>3, <2>1, <2>2, ShiftType
<1>8. cut' \in BOOLEAN /\ shifted' \in BOOLEAN /\ anchored' \in BOOLEAN
  BY DEF AlignPulse, TypesInv, TypeOK
<1>9. UNCHANGED <<playing, restart, count, master, held>> /\ ticking' = TRUE /\ gap' = PulseGap
  BY DEF AlignPulse, FromPulse
<1>10. TypeOK'
  BY <1>5, <1>6, <1>7, <1>8, <1>9, ScaleAssumption DEF TypesInv, TypeOK, RunInv, SyncType
<1> QED
  BY <1>1, <1>5, <1>10 DEF TypesInv

\* Edits of the foreground leave everything but the configuration and the runtimes.
LEMMA EditTypes ==
  ASSUME TypesInv, RunInv', Foreground,
         UNCHANGED <<playing, restart, count, master, epoch, beats, sync, held, anchored, cut, shifted>>
  PROVE  TypeOK'
BY ScaleAssumption DEF TypesInv, TypeOK, RunInv, Foreground

\* Edited is EditType after a silenced gate.
LEMMA EditedType ==
  ASSUME TypesInv, NEW ch \in Channel, NEW p \in Pattern, NEW q \in Nat \ {0}, NEW resched, NEW r \in Runtime
  PROVE  LET s == Edited(ch, p, q, resched, r)
         IN /\ s \in Runtime /\ (s.high => r.high) /\ Counted(ch, s)
            /\ \A old \in Channel : HasEnd(old, r) => HasEnd(ch, s)
            /\ resched => Placed(ch, q, epoch, master, s)
            /\ ~resched => SameEvent(s, r)
<1> DEFINE silent == Silence(ch, r)
           quiet  == Unsteady(silent)
           s      == SyncStep(ch, p, IF resched THEN Reschedule(ch, p, q, epoch, master, restart, quiet) ELSE quiet)
<1>1. /\ silent \in Runtime /\ SameGrid(silent, r) /\ (silent.high => r.high)
      /\ \A old \in Channel : HasEnd(old, r) => HasEnd(ch, silent)
  BY GateOps
<1> HIDE DEF silent
<1>2. quiet \in Runtime /\ SameGrid(quiet, silent) /\ SameGate(quiet, silent)
  BY <1>1, GateOps
<1> HIDE DEF quiet
<1>3. epoch \in Nat /\ master \in Nat
  BY InForce
<1>4. /\ s \in Runtime /\ SameGate(s, quiet) /\ Counted(ch, s)
      /\ resched => Placed(ch, q, epoch, master, s)
      /\ ~resched => SameEvent(s, quiet)
  BY <1>2, <1>3, EditType
<1>5. Edited(ch, p, q, resched, r) = s
  BY DEF Edited, quiet, silent
<1> HIDE DEF s
<1>6. SameGate(s, silent) /\ (~resched => SameEvent(s, r))
  BY <1>1, <1>2, <1>4 DEF SameGate, SameGrid, SameEvent
<1> QED
  BY <1>1, <1>4, <1>5, <1>6 DEF SameGate, HasEnd

LEMMA UpdateChannelTypes ==
  ASSUME TypesInv, NEW s \in Settings, NEW c \in Channels, NEW resched \in BOOLEAN,
         UpdateChannel(c, s.channel[c], resched)
  PROVE  TypesInv'
<1>1. s.channel[c] \in Channel /\ s.channel[c] \in Offered(c)
  BY OfferedType
<1>2. conf' = [conf EXCEPT !.channel[c] = s.channel[c]]
  BY DEF UpdateChannel
<1>3. conf' \in Setting /\ conf'.tempo = conf.tempo
      /\ \A d \in Channels : conf'.channel[d] = IF d = c THEN s.channel[c] ELSE conf.channel[d]
  BY <1>1, <1>2 DEF TypesInv, ConfInv, Setting
<1>4. ConfInv'
  BY <1>1, <1>3 DEF TypesInv, ConfInv, UpdateChannel
<1>5. RunInv'
  <2>1. Edited(s.channel[c], pattern[c], Tempo, resched, run[c]) \in Runtime
    BY <1>1, InForce, EditedType
  <2> QED
    BY <2>1 DEF UpdateChannel, TypesInv, RunInv
<1>6. TypeOK'
  BY <1>5, EditTypes DEF UpdateChannel
<1> QED
  BY <1>4, <1>5, <1>6 DEF TypesInv

LEMMA UpdateConfigurationTypes ==
  ASSUME TypesInv, NEW s \in Settings, NEW resched \in BOOLEAN, UpdateConfiguration(s, resched)
  PROVE  TypesInv'
<1>1. \A c \in Channels : s.channel[c] \in Channel /\ s.channel[c] \in Offered(c)
  BY OfferedType
<1>2. s \in Setting /\ s.tempo \in AllTempos
  BY SettingsAssumption DEF AllTempos
<1>3. ConfInv'
  BY <1>1, <1>2 DEF TypesInv, ConfInv, UpdateConfiguration
<1>4. RunInv'
  <2>1. sync.tempo \in Tempos \union {0}
    BY DEF TypesInv, TypeOK
  <2>2. EffectiveTempo(s, sync) \in Nat \ {0}
    BY <1>2, <2>1, TempoInForce, TempoType
  <2>3. \A c \in Channels : Edited(s.channel[c], pattern[c], EffectiveTempo(s, sync), resched, run[c]) \in Runtime
    BY <1>1, <2>2, InForce, EditedType
  <2> QED
    BY <2>3 DEF UpdateConfiguration, RunInv
<1>5. TypeOK'
  BY <1>4, EditTypes DEF UpdateConfiguration
<1> QED
  BY <1>3, <1>4, <1>5 DEF TypesInv

LEMMA UpdateMasterTempoTypes ==
  ASSUME TypesInv, NEW tempo \in Tempos, UpdateMasterTempo(tempo)
  PROVE  TypesInv'
<1>1. conf' = [conf EXCEPT !.tempo = tempo] /\ tempo \in Nat \ {0} /\ tempo \in AllTempos
  BY TempoType DEF UpdateMasterTempo, AllTempos
<1>2. conf' \in Setting /\ conf'.tempo = tempo /\ conf'.channel = conf.channel
  BY <1>1 DEF TypesInv, ConfInv, Setting
<1>3. ConfInv'
  BY <1>1, <1>2 DEF TypesInv, ConfInv, UpdateMasterTempo
<1>4. RunInv'
  BY InForce, GateOps DEF UpdateMasterTempo, RunInv
<1>5. TypeOK'
  BY <1>4, EditTypes DEF UpdateMasterTempo
<1> QED
  BY <1>3, <1>4, <1>5 DEF TypesInv

\* A new pattern for one channel.
LEMMA NewPatternType ==
  ASSUME TypesInv, NEW c \in Channels, NEW p \in Pattern, NEW resched, NEW r \in Runtime
  PROVE  LET quiet == Unsteady(EndTie(r))
             s == SyncStep(conf.channel[c], p,
                    IF resched THEN Reschedule(conf.channel[c], p, Tempo, epoch, master, restart, quiet) ELSE quiet)
         IN /\ s \in Runtime /\ (s.high => r.high) /\ Counted(conf.channel[c], s)
            /\ HasEnd(conf.channel[c], r) => HasEnd(conf.channel[c], s)
            /\ resched => Placed(conf.channel[c], Tempo, epoch, master, s)
            /\ ~resched => SameEvent(s, r)
<1> DEFINE ch == conf.channel[c]
           free == EndTie(r)
           quiet == Unsteady(free)
           s == SyncStep(ch, p, IF resched THEN Reschedule(ch, p, Tempo, epoch, master, restart, quiet) ELSE quiet)
<1>1. ch \in Channel /\ Tempo \in Nat \ {0} /\ epoch \in Nat /\ master \in Nat
  BY InForce
<1> HIDE DEF ch
<1>2. free \in Runtime /\ SameGrid(free, r) /\ (free.high => r.high) /\ (HasEnd(ch, r) => HasEnd(ch, free))
  BY <1>1, GateOps
<1> HIDE DEF free
<1>3. quiet \in Runtime /\ SameGrid(quiet, free) /\ SameGate(quiet, free)
  BY <1>1, <1>2, GateOps
<1> HIDE DEF quiet
<1>4. /\ s \in Runtime /\ SameGate(s, quiet) /\ Counted(ch, s)
      /\ resched => Placed(ch, Tempo, epoch, master, s)
      /\ ~resched => SameEvent(s, quiet)
  BY <1>1, <1>3, EditType
<1> HIDE DEF s
<1>5. SameGate(s, free) /\ (~resched => SameEvent(s, r))
  BY <1>2, <1>3, <1>4 DEF SameGate, SameGrid, SameEvent
<1>6. (s.high => r.high) /\ (HasEnd(ch, r) => HasEnd(ch, s))
  BY <1>2, <1>5 DEF SameGate, HasEnd
<1> QED
  BY <1>4, <1>5, <1>6 DEF s, quiet, free, ch

LEMMA UpdatePatternTypes ==
  ASSUME TypesInv, NEW c \in Channels, NEW p \in Patterns, NEW resched \in BOOLEAN,
         UpdateSequencerPattern(c, p, resched)
  PROVE  TypesInv'
<1>1. p \in Pattern
  BY SettingsAssumption
<1>2. ConfInv'
  BY <1>1 DEF TypesInv, ConfInv, UpdateSequencerPattern
<1>3. RunInv'
  BY <1>1, InForce, NewPatternType DEF UpdateSequencerPattern, TypesInv, RunInv
<1>4. TypeOK'
  BY <1>3, EditTypes DEF UpdateSequencerPattern
<1> QED
  BY <1>2, <1>3, <1>4 DEF TypesInv

LEMMA UpdateMetadataTypes ==
  ASSUME TypesInv, NEW c \in Channels, NEW x \in Expressions, UpdateSequencerStepMetadata(c, x)
  PROVE  TypesInv'
<1>1. x \in [Step -> StepMeta]
  BY SettingsAssumption
<1>2. ConfInv'
  BY <1>1 DEF TypesInv, ConfInv, UpdateSequencerStepMetadata
<1>3. RunInv'
  BY InForce, GateOps DEF UpdateSequencerStepMetadata, TypesInv, RunInv
<1>4. TypeOK'
  BY <1>3, EditTypes DEF UpdateSequencerStepMetadata
<1> QED
  BY <1>2, <1>3, <1>4 DEF TypesInv

LEMMA AgedType ==
  ASSUME TypesInv
  PROVE  Aged \in [Channels -> Runtime]
BY InForce, GateOps DEF Aged

LEMMA TickIdleTypes ==
  ASSUME TypesInv, TickIdle
  PROVE  /\ RunInv' /\ restart' \in BOOLEAN /\ epoch' \in Nat /\ beats' \in Nat
         /\ anchored' \in BOOLEAN /\ cut' \in BOOLEAN /\ shifted' \in BOOLEAN
         /\ count' \in CountType /\ (count'.on <=> count'.left > 0)
         /\ master' \in master..MaxPosition
<1>1. RunInv'
  BY AgedType DEF TickIdle, RunInv
<1> QED
  BY <1>1, ScaleAssumption DEF TickIdle, TypesInv, TypeOK, CountType

LEMMA TickCountTypes ==
  ASSUME TypesInv, TickCount
  PROVE  /\ RunInv' /\ restart' \in BOOLEAN /\ epoch' \in Nat /\ beats' \in Nat
         /\ anchored' \in BOOLEAN /\ cut' \in BOOLEAN /\ shifted' \in BOOLEAN
         /\ count' \in CountType /\ (count'.on <=> count'.left > 0)
         /\ master' \in master..MaxPosition
<1> DEFINE left == IF count.phase + Tempo >= Beat THEN count.left - 1 ELSE count.left
<1>1. master' \in master..MaxPosition
  BY ScaleAssumption DEF TickCount, TypesInv, TypeOK
<1>2. Tempo \in Nat /\ count.on
  BY InForce DEF TickCount
<1>3. CASE left > 0
  <2>1. count' = [count EXCEPT !.left = left, !.phase = (count.phase + Tempo) % Beat]
    BY <1>3 DEF TickCount
  <2>2. run' = Aged /\ UNCHANGED <<restart, epoch, beats, anchored, cut, shifted>>
    BY <1>3 DEF TickCount
  <2>3. RunInv'
    BY <2>2, AgedType DEF RunInv
  <2> HIDE DEF left
  <2>4. left = IF count.phase + Tempo >= Beat THEN count.left - 1 ELSE count.left
    BY DEF left
  <2>5. count' \in CountType /\ (count'.on <=> count'.left > 0)
    BY <1>2, <1>3, <2>1, <2>4, CountType1
  <2> QED
    BY <1>1, <2>2, <2>3, <2>5 DEF TypesInv, TypeOK
<1>4. CASE ~(left > 0)
  <2>1. count' = NoCount /\ ResetTo(Aged, sync)
    BY <1>4 DEF TickCount
  <2>2. sync.tempo \in Tempos \union {0} /\ sync.phaseKnown \in BOOLEAN
    BY DEF TypesInv, TypeOK
  <2> QED
    BY <1>1, <2>1, <2>2, AgedType, ResetToTypes, NoCountType
<1> QED
  BY <1>3, <1>4

\* What a tick that advances does to one channel, whatever is drawn.
LEMMA TickAdvanceRuns ==
  ASSUME TypesInv, TickAdvance
  PROVE  /\ master' \in Nat /\ master' = master + Tempo /\ master' <= MaxPosition
         /\ run' \in [Channels -> Runtime]
         /\ \A c \in Channels : Keeps(conf.channel[c], Tempo, epoch, master', Aged[c], run'[c])
<1>1. master' \in Nat /\ master' = master + Tempo /\ master' <= MaxPosition
  BY InForce DEF TickAdvance
<1>2. PICK drops : run' = [c \in Channels |->
                     Serve(conf.channel[c], pattern[c], expression[c], Tempo, master',
                           {n \in 0..MaxPosition : <<c, n>> \in drops}, Aged[c])]
  BY <1>1 DEF TickAdvance
<1>3. ASSUME NEW c \in Channels
      PROVE  Keeps(conf.channel[c], Tempo, epoch, master', Aged[c], run'[c])
  <2>1. Aged[c] \in Runtime
    BY AgedType
  <2>2. run'[c] = Serve(conf.channel[c], pattern[c], expression[c], Tempo, master',
                        {n \in 0..MaxPosition : <<c, n>> \in drops}, Aged[c])
    BY <1>2
  <2> QED
    BY <1>1, <2>1, <2>2, InForce, ServeType
<1>4. run' \in [Channels -> Runtime]
  BY <1>2, <1>3 DEF Keeps
<1> QED
  BY <1>1, <1>3, <1>4

LEMMA TickAdvanceTypes ==
  ASSUME TypesInv, TickAdvance
  PROVE  /\ RunInv' /\ restart' \in BOOLEAN /\ epoch' \in Nat /\ beats' \in Nat
         /\ anchored' \in BOOLEAN /\ cut' \in BOOLEAN /\ shifted' \in BOOLEAN
         /\ count' \in CountType /\ (count'.on <=> count'.left > 0)
         /\ master' \in master..MaxPosition
<1>1. RunInv'
  BY TickAdvanceRuns DEF RunInv
<1>2. Tempo \in Nat /\ master \in Nat
  BY InForce
<1>3. beats' = beats + Tempo /\ restart' = FALSE /\ UNCHANGED <<count, epoch, anchored, cut, shifted>>
  BY DEF TickAdvance
<1>4. master' \in master..MaxPosition
  BY <1>2, TickAdvanceRuns, ScaleAssumption
<1>5. /\ epoch' \in Nat /\ restart' \in BOOLEAN /\ anchored' \in BOOLEAN
      /\ cut' \in BOOLEAN /\ shifted' \in BOOLEAN
  BY <1>3 DEF TypesInv, TypeOK
<1>6. beats' \in Nat
  BY <1>2, <1>3 DEF TypesInv, TypeOK
<1>7. count' \in CountType /\ (count'.on <=> count'.left > 0)
  BY <1>3 DEF TypesInv, TypeOK, CountType
<1> QED
  BY <1>1, <1>4, <1>5, <1>6, <1>7

LEMMA TickTypes ==
  ASSUME TypesInv, Tick
  PROVE  TypesInv'
<1>1. /\ RunInv' /\ restart' \in BOOLEAN /\ epoch' \in Nat /\ beats' \in Nat
      /\ anchored' \in BOOLEAN /\ cut' \in BOOLEAN /\ shifted' \in BOOLEAN
      /\ count' \in CountType /\ (count'.on <=> count'.left > 0)
      /\ master' \in master..MaxPosition
  BY TickIdleTypes, TickCountTypes, TickAdvanceTypes DEF Tick
<1>2. ConfInv'
  BY DEF TypesInv, ConfInv, Tick, configVars
<1>3. sync' \in [locked : BOOLEAN, tempo : Tempos \union {0}, phaseKnown : BOOLEAN,
                 ref : 0..master', musical : 0..MaxPosition]
  <2>1. sync' = sync /\ sync \in SyncType /\ master \in Nat
    BY InForce DEF Tick, TypesInv, TypeOK, SyncType
  <2>2. 0..master \subseteq 0..master'
    BY <1>1, <2>1
  <2> QED
    BY <2>1, <2>2 DEF SyncType
<1>4. gap' \in 0..PulseGap
  BY ScaleAssumption DEF Tick, TypesInv, TypeOK, Upper
<1>5. master' \in 0..MaxPosition
  BY <1>1, InForce
<1>6. UNCHANGED <<playing, held>> /\ ticking' = FALSE
  BY DEF Tick
<1>7. TypeOK'
  <2>1. playing' \in BOOLEAN /\ held' \in BOOLEAN /\ ticking' \in BOOLEAN
    BY <1>6 DEF TypesInv, TypeOK
  <2>2. DOMAIN run' = Channels /\ \A c \in Channels : run'[c] \in Runtime
    BY <1>1 DEF RunInv
  <2> QED
    BY <1>1, <1>3, <1>4, <1>5, <2>1, <2>2, Zenon DEF TypeOK, CountType
<1> QED
  BY <1>1, <1>2, <1>7 DEF TypesInv

LEMMA TypesStep ==
  ASSUME TypesInv, [Next]_vars
  PROVE  TypesInv'
<1>1. CASE Tick BY <1>1, TickTypes
<1>2. CASE Play BY <1>2, PlayTypes
<1>3. CASE Pause BY <1>3, PauseTypes
<1>4. CASE Stop BY <1>4, StopTypes
<1>5. CASE ResetGlobalPhase \/ \E high \in BOOLEAN : SetExternalResetGate(high) BY <1>5, ResetTypes
<1>6. ASSUME NEW tempo \in Tempos, Pulse(tempo) \/ LoseLock(tempo) \/ UpdateMasterTempo(tempo)
      PROVE  TypesInv'
  BY <1>6, IgnorePulseTypes, CountPulseTypes, FirstPulseTypes, AlignPulseTypes, LoseLockTypes,
     UpdateMasterTempoTypes DEF Pulse
<1>7. ASSUME NEW s \in Settings, NEW resched \in BOOLEAN,
             \/ UpdateConfiguration(s, resched)
             \/ \E c \in Channels : UpdateChannel(c, s.channel[c], resched)
      PROVE  TypesInv'
  BY <1>7, UpdateConfigurationTypes, UpdateChannelTypes
<1>8. ASSUME NEW c \in Channels, NEW p \in Patterns, NEW resched \in BOOLEAN,
             UpdateSequencerPattern(c, p, resched)
      PROVE  TypesInv'
  BY <1>8, UpdatePatternTypes
<1>9. ASSUME NEW c \in Channels, NEW x \in Expressions, UpdateSequencerStepMetadata(c, x)
      PROVE  TypesInv'
  BY <1>9, UpdateMetadataTypes
<1>10. CASE UNCHANGED vars
  BY <1>10 DEF vars, configVars, TypesInv, TypeOK, ConfInv, RunInv
<1> QED
  BY <1>1, <1>2, <1>3, <1>4, <1>5, <1>6, <1>7, <1>8, <1>9, <1>10, Zenon DEF Next

\* Every variable keeps the type the engine declares, whatever is called, edited or pulsed.
THEOREM TypeCorrect == Spec => []TypeOK
<1>1. Init => TypesInv
  BY InitTypes
<1>2. TypesInv /\ [Next]_vars => TypesInv'
  BY TypesStep
<1>3. TypesInv => TypeOK
  BY DEF TypesInv
<1> QED
  BY <1>1, <1>2, <1>3, PTL DEF Spec
-----------------------------------------------------------------------------
(* Gates.                                                                     *)

\* A reset leaves every output LOW.
LEMMA GatesLow ==
  ASSUME \A c \in Channels : ~run'[c].high
  PROVE  GateInv'
BY DEF GateInv, HasEnd

\* An action that raises no gate, lets none lose its end and lets the transport play on.
LEMMA GatesKept ==
  ASSUME GateInv, UNCHANGED <<playing, count, held>>,
         \A c \in Channels : /\ run'[c].high => run[c].high
                             /\ HasEnd(conf.channel[c], run[c]) => HasEnd(conf'.channel[c], run'[c])
  PROVE  GateInv'
BY DEF GateInv

LEMMA GateInit == Init => GateInv
<1> SUFFICES ASSUME Init, NEW c \in Channels PROVE ~run[c].high
  BY DEF GateInv, HasEnd
<1>1. conf.channel[c] \in Channel /\ pattern[c] \in Pattern
  BY InitTypes, InForce
<1>2. run[c] = Idle(conf.channel[c], pattern[c])
  BY DEF Init
<1> QED
  BY <1>1, <1>2 DEF Idle, SyncStep

LEMMA ResetGates ==
  ASSUME TypesInv, NEW runs \in [Channels -> Runtime], NEW y, y.tempo \in Tempos \union {0},
         run' = ResetRuns(runs, y)
  PROVE  GateInv'
BY ResetRunsType, GatesLow

LEMMA CallGates ==
  ASSUME TypesInv, GateInv,
         \/ Play \/ Pause \/ Stop \/ ResetGlobalPhase
         \/ \E high \in BOOLEAN : SetExternalResetGate(high)
  PROVE  GateInv'
<1>0. run \in [Channels -> Runtime] /\ sync.tempo \in Tempos \union {0}
  BY DEF TypesInv, TypeOK, RunInv
<1>1. CASE Play
  <2>1. \A c \in Channels : ~run[c].high
    BY <1>1 DEF Play, GateInv
  <2> QED
    BY <1>1, <2>1, GatesLow DEF Play
<1>2. CASE Pause
  <2>1. \A c \in Channels : run'[c] = Cut(run[c]) /\ run[c] \in Runtime
    BY <1>0, <1>2 DEF Pause
  <2>2. \A c \in Channels : ~run'[c].high
    BY <2>1, InForce, GateOps
  <2> QED
    BY <2>2, GatesLow
<1>3. CASE Stop
  BY <1>0, <1>3, CutRunsType, ResetGates DEF Stop, ResetTo
<1>4. CASE ResetGlobalPhase \/ \E high \in BOOLEAN : SetExternalResetGate(high)
  BY <1>0, <1>4, ResetGates DEF ResetGlobalPhase, SetExternalResetGate, ResetTo
<1> QED
  BY <1>1, <1>2, <1>3, <1>4

LEMMA PulseGates ==
  ASSUME TypesInv, GateInv, NEW tempo \in Tempos, Pulse(tempo) \/ LoseLock(tempo)
  PROVE  GateInv'
<1> DEFINE known == [sync EXCEPT !.locked = TRUE, !.tempo = tempo]
           expected == sync.ref + PulseStep
<1>0. run \in [Channels -> Runtime] /\ known.tempo \in Tempos \union {0} /\ expected \in Nat
  <2>1. sync.ref \in 0..master /\ master \in Nat /\ PulseStep \in Nat
    BY InForce, ScaleAssumption DEF TypesInv, TypeOK
  <2>2. known.tempo = tempo
    BY LockedType
  <2>3. run \in [Channels -> Runtime]
    BY DEF TypesInv, RunInv
  <2> HIDE DEF known
  <2> QED
    BY <2>1, <2>2, <2>3
<1>1. CASE IgnorePulse(tempo)
  BY <1>1, GatesKept DEF IgnorePulse, configVars
<1>2. CASE CountPulse(tempo)
  <2>1. \A c \in Channels : ~run[c].high
    BY <1>2 DEF CountPulse, GateInv
  <2>2. run' = run \/ run' = ResetRuns(run, known)
    BY <1>2 DEF CountPulse
  <2> QED
    BY <1>0, <2>1, <2>2, GatesLow, ResetGates
<1>3. CASE FirstPulse(tempo)
  BY <1>0, <1>3, ResetGates DEF FirstPulse
<1>4. CASE AlignPulse(tempo)
  <2>1. run' = [c \in Channels |-> Shifted(conf.channel[c], expected, run[c])]
    BY <1>4 DEF AlignPulse, Shifted
  <2> HIDE DEF expected
  <2>2. \A c \in Channels : SameGate(run'[c], run[c])
    BY <1>0, <2>1, InForce, ShiftedType
  <2>3. UNCHANGED <<playing, count, held>> /\ conf' = conf
    BY <1>4 DEF AlignPulse, configVars
  <2> QED
    BY <2>2, <2>3, GatesKept DEF SameGate, HasEnd
<1>5. CASE LoseLock(tempo)
  <2>1. \A c \in Channels : SameGate(run'[c], run[c])
    BY <1>5, InForce, GateOps DEF LoseLock
  <2>2. UNCHANGED <<playing, count, held>> /\ conf' = conf
    BY <1>5 DEF LoseLock, configVars
  <2> QED
    BY <2>1, <2>2, GatesKept DEF SameGate, HasEnd
<1> QED
  BY <1>1, <1>2, <1>3, <1>4, <1>5 DEF Pulse

\* What UpdateChannel makes of the configuration and of the channel.
LEMMA ChannelUpdate ==
  ASSUME TypesInv, NEW s \in Settings, NEW c \in Channels, NEW resched \in BOOLEAN,
         UpdateChannel(c, s.channel[c], resched)
  PROVE  /\ \A d \in Channels : conf'.channel[d] = IF d = c THEN s.channel[c] ELSE conf.channel[d]
         /\ \A d \in Channels : run'[d] = IF d = c THEN Edited(s.channel[c], pattern[c], Tempo, resched, run[c])
                                          ELSE run[d]
         /\ s.channel[c] \in Channel
<1>1. s.channel[c] \in Channel
  BY OfferedType
<1>2. conf' = [conf EXCEPT !.channel[c] = s.channel[c]] /\ conf \in Setting /\ run \in [Channels -> Runtime]
  BY DEF UpdateChannel, TypesInv, ConfInv, RunInv
<1>3. \A d \in Channels : conf'.channel[d] = IF d = c THEN s.channel[c] ELSE conf.channel[d]
  BY <1>1, <1>2 DEF Setting
<1>4. run' = [run EXCEPT ![c] = Edited(s.channel[c], pattern[c], Tempo, resched, @)]
  BY DEF UpdateChannel
<1> QED
  BY <1>1, <1>2, <1>3, <1>4

\* What UpdateConfiguration makes of the channels.
LEMMA ConfigurationUpdate ==
  ASSUME TypesInv, NEW s \in Settings, NEW resched \in BOOLEAN, UpdateConfiguration(s, resched)
  PROVE  /\ conf' = s /\ EffectiveTempo(s, sync) \in Nat \ {0} /\ s.tempo \in AllTempos
         /\ \A c \in Channels :
              /\ s.channel[c] \in Channel
              /\ run'[c] = Edited(s.channel[c], pattern[c], EffectiveTempo(s, sync), resched, run[c])
<1>1. sync.tempo \in Tempos \union {0}
  BY DEF TypesInv, TypeOK
<1>2. s.tempo \in AllTempos
  BY DEF AllTempos
<1>3. EffectiveTempo(s, sync) \in Nat \ {0}
  BY <1>1, <1>2, TempoInForce, TempoType
<1> QED
  BY <1>2, <1>3, OfferedType DEF UpdateConfiguration

LEMMA EditGates ==
  ASSUME TypesInv, GateInv,
         \/ \E tempo \in Tempos : UpdateMasterTempo(tempo)
         \/ \E s \in Settings, resched \in BOOLEAN :
              \/ UpdateConfiguration(s, resched)
              \/ \E c \in Channels : UpdateChannel(c, s.channel[c], resched)
         \/ \E c \in Channels, p \in Patterns, resched \in BOOLEAN : UpdateSequencerPattern(c, p, resched)
         \/ \E c \in Channels, x \in Expressions : UpdateSequencerStepMetadata(c, x)
  PROVE  GateInv'
<1>0. run \in [Channels -> Runtime]
  BY DEF TypesInv, RunInv
<1>1. ASSUME NEW tempo \in Tempos, UpdateMasterTempo(tempo)
      PROVE  GateInv'
  <2>1. \A c \in Channels : SameGate(run'[c], run[c])
    BY <1>1, InForce, GateOps DEF UpdateMasterTempo
  <2>2. UNCHANGED <<playing, count, held>> /\ conf' = [conf EXCEPT !.tempo = tempo]
    BY <1>1 DEF UpdateMasterTempo
  <2>3. conf'.channel = conf.channel
    BY <2>2 DEF TypesInv, ConfInv, Setting
  <2> QED
    BY <2>1, <2>2, <2>3, GatesKept DEF SameGate, HasEnd
<1>2. ASSUME NEW s \in Settings, NEW resched \in BOOLEAN, UpdateConfiguration(s, resched)
      PROVE  GateInv'
  <2>1. \A c \in Channels : conf.channel[c] \in Channel /\ run[c] \in Runtime /\ pattern[c] \in Pattern
    BY InForce
  <2>2. \A c \in Channels :
          /\ run'[c].high => run[c].high
          /\ HasEnd(conf.channel[c], run[c]) => HasEnd(conf'.channel[c], run'[c])
    BY <1>2, <2>1, ConfigurationUpdate, EditedType
  <2>3. UNCHANGED <<playing, count, held>>
    BY <1>2 DEF UpdateConfiguration
  <2> QED
    BY <2>2, <2>3, GatesKept
<1>3. ASSUME NEW s \in Settings, NEW resched \in BOOLEAN, NEW c \in Channels,
             UpdateChannel(c, s.channel[c], resched)
      PROVE  GateInv'
  <2>1. conf.channel[c] \in Channel /\ run[c] \in Runtime /\ pattern[c] \in Pattern /\ Tempo \in Nat \ {0}
    BY InForce
  <2>2. /\ run'[c].high => run[c].high
        /\ HasEnd(conf.channel[c], run[c]) => HasEnd(conf'.channel[c], run'[c])
    BY <1>3, <2>1, ChannelUpdate, EditedType
  <2>3. UNCHANGED <<playing, count, held>>
    BY <1>3 DEF UpdateChannel
  <2>4. \A d \in Channels \ {c} : run'[d] = run[d] /\ conf'.channel[d] = conf.channel[d]
    BY <1>3, ChannelUpdate
  <2> QED
    BY <2>2, <2>3, <2>4, GatesKept
<1>4. ASSUME NEW c \in Channels, NEW p \in Patterns, NEW resched \in BOOLEAN,
             UpdateSequencerPattern(c, p, resched)
      PROVE  GateInv'
  <2>1. p \in Pattern /\ run[c] \in Runtime
    BY <1>0, SettingsAssumption
  <2>2. /\ run'[c].high => run[c].high
        /\ HasEnd(conf.channel[c], run[c]) => HasEnd(conf.channel[c], run'[c])
    BY <1>0, <1>4, <2>1, NewPatternType DEF UpdateSequencerPattern
  <2>3. \A d \in Channels \ {c} : run'[d] = run[d]
    BY <1>0, <1>4 DEF UpdateSequencerPattern
  <2>4. UNCHANGED <<playing, count, held>> /\ conf' = conf
    BY <1>4 DEF UpdateSequencerPattern
  <2> QED
    BY <2>2, <2>3, <2>4, GatesKept
<1>5. ASSUME NEW c \in Channels, NEW x \in Expressions, UpdateSequencerStepMetadata(c, x)
      PROVE  GateInv'
  <2>1. run'[c] = EndTie(run[c]) /\ \A d \in Channels \ {c} : run'[d] = run[d]
    BY <1>0, <1>5 DEF UpdateSequencerStepMetadata
  <2>2. /\ run'[c].high => run[c].high
        /\ HasEnd(conf.channel[c], run[c]) => HasEnd(conf.channel[c], run'[c])
    BY <2>1, InForce, GateOps
  <2>3. UNCHANGED <<playing, count, held>> /\ conf' = conf
    BY <1>5 DEF UpdateSequencerStepMetadata
  <2> QED
    BY <2>1, <2>2, <2>3, GatesKept
<1> QED
  BY <1>1, <1>2, <1>3, <1>4, <1>5

\* What the first loop of a tick leaves of a gate.
LEMMA AgedGates ==
  ASSUME TypesInv, NEW c \in Channels
  PROVE  /\ Aged[c] \in Runtime /\ SameGrid(Aged[c], run[c]) /\ (Aged[c].high => run[c].high)
         /\ HasEnd(conf.channel[c], run[c]) => HasEnd(conf.channel[c], Aged[c])
BY InForce, GateOps DEF Aged

LEMMA TickGates ==
  ASSUME TypesInv, GateInv, Tick
  PROVE  GateInv'
<1>0. conf' = conf /\ UNCHANGED <<playing, held>>
  BY DEF Tick, configVars
<1>1. CASE TickIdle
  BY <1>0, <1>1, AgedGates, GatesKept DEF TickIdle
<1>2. CASE TickCount
  <2>1. \A c \in Channels : ~run[c].high
    BY <1>2 DEF TickCount, GateInv
  <2>2. run' = Aged \/ run' = ResetRuns(Aged, sync)
    BY <1>2 DEF TickCount, ResetTo
  <2>3. sync.tempo \in Tempos \union {0}
    BY DEF TypesInv, TypeOK
  <2>4. CASE run' = Aged
    BY <2>1, <2>4, AgedGates, GatesLow
  <2> QED
    BY <2>2, <2>3, <2>4, AgedType, ResetGates
<1>3. CASE TickAdvance
  <2>1. playing' /\ ~count'.on /\ ~held'
    BY <1>0, <1>3 DEF TickAdvance, Advances
  <2>2. \A c \in Channels : HasEnd(conf.channel[c], run[c]) => HasEnd(conf'.channel[c], run'[c])
    BY <1>0, <1>3, AgedGates, TickAdvanceRuns DEF Keeps
  <2> QED
    BY <2>1, <2>2 DEF GateInv
<1> QED
  BY <1>1, <1>2, <1>3 DEF Tick

LEMMA GateStep ==
  ASSUME TypesInv, GateInv, [Next]_vars
  PROVE  GateInv'
<1>1. CASE Tick BY <1>1, TickGates
<1>2. CASE \/ Play \/ Pause \/ Stop \/ ResetGlobalPhase
           \/ \E high \in BOOLEAN : SetExternalResetGate(high)
  BY <1>2, CallGates
<1>3. CASE \E tempo \in Tempos : Pulse(tempo) \/ LoseLock(tempo) BY <1>3, PulseGates
<1>4. CASE \/ \E tempo \in Tempos : UpdateMasterTempo(tempo)
           \/ \E s \in Settings, resched \in BOOLEAN :
                \/ UpdateConfiguration(s, resched)
                \/ \E c \in Channels : UpdateChannel(c, s.channel[c], resched)
           \/ \E c \in Channels, p \in Patterns, resched \in BOOLEAN : UpdateSequencerPattern(c, p, resched)
           \/ \E c \in Channels, x \in Expressions : UpdateSequencerStepMetadata(c, x)
  BY <1>4, EditGates
<1>5. CASE UNCHANGED vars
  BY <1>5 DEF vars, configVars, GateInv
<1> QED
  BY <1>1, <1>2, <1>3, <1>4, <1>5, Zenon DEF Next

\* No output is HIGH unless the transport plays, no count runs and no reset is held, and a
\* HIGH output has a gate-off scheduled or a tie that ends with an event to come.
THEOREM GatesAlwaysEnd == Spec => []GateHasAnEnd
<1>1. Init => TypesInv /\ GateInv
  BY InitTypes, GateInit
<1>2. TypesInv /\ GateInv /\ [Next]_vars => (TypesInv /\ GateInv)'
  BY TypesStep, GateStep
<1>3. GateInv => GateHasAnEnd
  BY DEF GateInv, GateHasAnEnd, HasEnd
<1> QED
  BY <1>1, <1>2, <1>3, PTL DEF Spec
-----------------------------------------------------------------------------
(* The beat shown.                                                            *)

LEMMA BeatInit == Init => BeatInv
BY DEF Init, BeatInv

\* A reset starts beat and grid together.
LEMMA ResetBeat ==
  ASSUME TypesInv, NEW runs, ResetTo(runs, sync), UNCHANGED <<master, sync>>
  PROVE  BeatInv'
<1>1. (anchored' => ~sync.phaseKnown) /\ epoch' = master /\ beats' = 0 /\ master \in Nat
  BY InForce DEF ResetTo
<1>2. beats' = master' - epoch'
  BY <1>1
<1>3. anchored' => ~sync'.phaseKnown
  BY <1>1
<1> QED
  BY <1>2, <1>3 DEF BeatInv

\* An action that leaves beat, position and epoch alone.
LEMMA SameBeat ==
  ASSUME BeatInv, UNCHANGED <<master, epoch, beats, anchored, cut>>,
         sync'.phaseKnown => sync' = sync
  PROVE  BeatInv'
BY DEF BeatInv

\* A pulse that sets the epoch, and one that moves it with the grid.
LEMMA PulseBeat ==
  ASSUME TypesInv, BeatInv, NEW tempo \in Tempos, Pulse(tempo)
  PROVE  BeatInv'
<1> DEFINE known == [sync EXCEPT !.locked = TRUE, !.tempo = tempo]
           first == [known EXCEPT !.phaseKnown = TRUE, !.ref = master, !.musical = 0]
           expected == sync.ref + PulseStep
           musical  == sync.musical + PulseStep
<1>0. master \in Nat /\ epoch \in Nat /\ sync \in SyncType
  BY InForce DEF TypesInv, TypeOK, SyncType
<1>1. /\ known.phaseKnown = sync.phaseKnown /\ known.musical = sync.musical /\ known.ref = sync.ref
      /\ first.ref = master /\ first.musical = 0
  BY <1>0 DEF SyncType
<1>2. CASE IgnorePulse(tempo)
  BY <1>1, <1>2 DEF IgnorePulse, BeatInv
<1>3. CASE CountPulse(tempo)
  <2>1. \/ sync' = known /\ UNCHANGED <<master, epoch, beats, anchored, cut>>
        \/ sync' = first /\ epoch' = master /\ beats' = 0 /\ master' = master
    BY <1>3 DEF CountPulse
  <2> HIDE DEF known, first
  <2>2. CASE sync' = known /\ UNCHANGED <<master, epoch, beats, anchored, cut>>
    BY <1>1, <2>2 DEF BeatInv
  <2>3. CASE sync' = first /\ epoch' = master /\ beats' = 0 /\ master' = master
    BY <1>0, <1>1, <2>3 DEF BeatInv
  <2> QED
    BY <2>1, <2>2, <2>3
<1>4. CASE FirstPulse(tempo)
  <2>1. sync' = first /\ epoch' = master /\ beats' = 0 /\ master' = master
    BY <1>4 DEF FirstPulse
  <2> HIDE DEF first
  <2> QED
    BY <1>0, <1>1, <2>1 DEF BeatInv
<1>5. CASE AlignPulse(tempo)
  <2>1. /\ sync.phaseKnown /\ sync'.ref = master /\ sync'.musical = musical
        /\ beats' = musical /\ epoch' = Shift(epoch, expected, master)
        /\ cut' = (cut \/ (master < expected /\ epoch < expected - master))
        /\ UNCHANGED <<master, anchored>>
    BY <1>0, <1>5 DEF AlignPulse, SyncType
  <2>2. sync.ref \in Nat /\ sync.musical \in Nat /\ PulseStep \in Nat
    BY <1>0, ScaleAssumption DEF SyncType
  <2>3. SUFFICES ASSUME anchored, ~cut'
                 PROVE  beats' = master - epoch' /\ sync'.musical = sync'.ref - epoch'
    BY <2>1 DEF BeatInv
  <2>4. sync.musical = sync.ref - epoch
    BY <2>1, <2>3 DEF BeatInv
  <2>5. epoch' = epoch + (master - expected)
    <3>1. expected \in Nat
      BY <2>2
    <3>2. ~(master < expected /\ epoch < expected - master)
      BY <2>1, <2>3
    <3> HIDE DEF expected
    <3> QED
      BY <1>0, <2>1, <3>1, <3>2, ShiftType
  <2> QED
    BY <1>0, <2>1, <2>2, <2>4, <2>5
<1> QED
  BY <1>2, <1>3, <1>4, <1>5 DEF Pulse

LEMMA TickBeat ==
  ASSUME TypesInv, BeatInv, Tick
  PROVE  BeatInv'
<1>0. sync' = sync
  BY DEF Tick
<1>1. CASE TickIdle
  BY <1>0, <1>1, SameBeat DEF TickIdle
<1>2. CASE TickCount
  BY <1>0, <1>2, SameBeat, ResetBeat DEF TickCount
<1>3. CASE TickAdvance
  <2>1. /\ master' = master + Tempo /\ beats' = beats + Tempo
        /\ UNCHANGED <<epoch, anchored, cut>>
    BY <1>3 DEF TickAdvance
  <2>2. Tempo \in Nat /\ master \in Nat /\ epoch \in Nat
    BY InForce
  <2> QED
    BY <1>0, <2>1, <2>2 DEF BeatInv
<1> QED
  BY <1>1, <1>2, <1>3 DEF Tick

LEMMA BeatStep ==
  ASSUME TypesInv, BeatInv, [Next]_vars
  PROVE  BeatInv'
<1>1. CASE Tick BY <1>1, TickBeat
<1>2. CASE Play \/ Pause
  BY <1>2, SameBeat DEF Play, Pause
<1>3. CASE Stop \/ ResetGlobalPhase \/ \E high \in BOOLEAN : SetExternalResetGate(high)
  BY <1>3, ResetBeat DEF Stop, ResetGlobalPhase, SetExternalResetGate
<1>4. ASSUME NEW tempo \in Tempos, Pulse(tempo) PROVE BeatInv'
  BY <1>4, PulseBeat
<1>5. ASSUME NEW tempo \in Tempos, LoseLock(tempo) PROVE BeatInv'
  <2>1. ~sync'.phaseKnown
    BY <1>5 DEF LoseLock, TypesInv, TypeOK
  <2> QED
    BY <1>5, <2>1, SameBeat DEF LoseLock
<1>6. ASSUME NEW tempo \in Tempos, UpdateMasterTempo(tempo) PROVE BeatInv'
  BY <1>6, SameBeat DEF UpdateMasterTempo
<1>7. ASSUME NEW s \in Settings, NEW resched \in BOOLEAN,
             \/ UpdateConfiguration(s, resched)
             \/ \E c \in Channels : UpdateChannel(c, s.channel[c], resched)
      PROVE  BeatInv'
  BY <1>7, SameBeat DEF UpdateConfiguration, UpdateChannel
<1>8. ASSUME NEW c \in Channels, NEW p \in Patterns, NEW resched \in BOOLEAN,
             UpdateSequencerPattern(c, p, resched)
      PROVE  BeatInv'
  BY <1>8, SameBeat DEF UpdateSequencerPattern
<1>9. ASSUME NEW c \in Channels, NEW x \in Expressions, UpdateSequencerStepMetadata(c, x)
      PROVE  BeatInv'
  BY <1>9, SameBeat DEF UpdateSequencerStepMetadata
<1>10. CASE UNCHANGED vars
  BY <1>10 DEF vars, BeatInv
<1> QED
  BY <1>1, <1>2, <1>3, <1>4, <1>5, <1>6, <1>7, <1>8, <1>9, <1>10, Zenon DEF Next

\* The bar and beat shown are where the GLOBAL grid stands, kept so by ticks and pulses,
\* unless a correction was cut off or a reset fell between two pulses.
THEOREM BeatAlwaysOnGrid == Spec => []BeatIsGridPosition
<1>1. Init => TypesInv /\ BeatInv
  BY InitTypes, BeatInit
<1>2. TypesInv /\ BeatInv /\ [Next]_vars => (TypesInv /\ BeatInv)'
  BY TypesStep, BeatStep
<1>3. BeatInv => BeatIsGridPosition
  BY DEF BeatInv, BeatIsGridPosition
<1> QED
  BY <1>1, <1>2, <1>3, PTL DEF Spec
-----------------------------------------------------------------------------
(* The shared grid.                                                           *)

\* On the rates and tempos on offer no event is pushed apart by the shortest interval: the
\* interval is the rate's, and swing delays by half of it at most.
LEMMA OfferedGrid ==
  ASSUME NEW c \in Channels, NEW ch \in Offered(c), NEW q \in AllTempos
  PROVE  LET d == (ch.den * Beat) \div ch.num
         IN /\ d \in Nat /\ d >= 2 * q
            /\ Nominal(ch, q) = d
            /\ \A n : BaseOffset(ch, q, n) = (n * ch.den * Beat) \div ch.num
            /\ SwingDelta(ch, q) = (d * ch.swing) \div 100
            /\ SwingDelta(ch, q) \in Nat /\ 2 * SwingDelta(ch, q) <= d
<1> DEFINE d == (ch.den * Beat) \div ch.num
           x == d * ch.swing
<1>1. PICK s \in Settings : ch = s.channel[c]
  BY DEF Offered
<1>2. ch \in Channel
  BY <1>1, OfferedType
<1>3. q \in Nat \ {0}
  BY TempoType
<1>4. d >= 2 * q
  BY <1>1, RateAssumption DEF AllTempos
<1>5. ch.num \in Nat \ {0} /\ ch.den \in Nat \ {0} /\ ch.swing \in 0..50 /\ Beat \in Nat \ {0}
  BY <1>2, ScaleAssumption DEF Channel
<1>6. d \in Nat
  <2>1. ch.den * Beat \in Nat
    BY <1>5, ProductNat
  <2> QED
    BY <1>5, <2>1, DivMod
<1>7. Nominal(ch, q) = Upper(d, q)
  BY DEF Nominal
<1>8. \A n : BaseOffset(ch, q, n) = IF d < q THEN n * q ELSE (n * ch.den * Beat) \div ch.num
  BY DEF BaseOffset
<1>9. SwingDelta(ch, q) = IF Nominal(ch, q) <= q THEN 0
                          ELSE Lower((Nominal(ch, q) * ch.swing) \div 100, Nominal(ch, q) - q)
  BY DEF SwingDelta
<1> HIDE DEF d
<1>10. Nominal(ch, q) = d
  BY <1>3, <1>4, <1>6, <1>7 DEF Upper
<1>11. \A n : BaseOffset(ch, q, n) = (n * ch.den * Beat) \div ch.num
  <2>1. ~(d < q)
    BY <1>3, <1>4, <1>6
  <2> QED
    BY <1>8, <2>1, Zenon
<1>12. x \in Nat /\ x <= 50 * d
  BY <1>5, <1>6
<1>13. SwingDelta(ch, q) = IF d <= q THEN 0 ELSE Lower(x \div 100, d - q)
  BY <1>9, <1>10
<1> HIDE DEF x
<1>14. x \div 100 \in Nat /\ 2 * (x \div 100) <= d
  <2>1. x = 100 * (x \div 100) + (x % 100) /\ x % 100 \in 0..99 /\ x \div 100 \in Nat
    BY <1>12, Hundredths
  <2> QED
    BY <1>6, <1>12, <2>1
<1>15. SwingDelta(ch, q) = x \div 100
  <2> DEFINE a == x \div 100
             b == d - q
  <2>1. a \in Int /\ b \in Int /\ a <= b /\ ~(d <= q)
    BY <1>3, <1>4, <1>6, <1>14
  <2> HIDE DEF a, b
  <2>2. Lower(a, b) = a
    BY <2>1 DEF Lower
  <2> QED
    BY <1>13, <2>1, <2>2 DEF a, b
<1> QED
  BY <1>4, <1>6, <1>10, <1>11, <1>14, <1>15 DEF d, x

\* So a grid does not depend on the tempo in force.
LEMMA TempoFree ==
  ASSUME NEW c \in Channels, NEW ch \in Offered(c), NEW q1 \in AllTempos, NEW q2 \in AllTempos,
         NEW from, NEW n
  PROVE  Position(ch, q1, from, n) = Position(ch, q2, from, n)
<1>1. /\ Nominal(ch, q1) = Nominal(ch, q2) /\ BaseOffset(ch, q1, n) = BaseOffset(ch, q2, n)
      /\ SwingDelta(ch, q1) = SwingDelta(ch, q2)
  BY OfferedGrid
<1> QED
  BY <1>1 DEF Position

\* What GridInv says of one channel.
Standing(ch, q, e, at, r, cu, sh) ==
  /\ Joined(ch, e, r) /\ Counted(ch, r)
  /\ ~cu => Exact(ch, q, e, r)
  /\ ~cu /\ ~sh => Past(ch, q, e, at, r)

LEMMA GridIsStanding ==
  GridInv <=> \A c \in Channels : Standing(conf.channel[c], Tempo, epoch, master, run[c], cut, shifted)
BY DEF GridInv, Standing

LEMMA StandingPlaced ==
  ASSUME NEW ch, NEW q, NEW e, NEW at, NEW r, Placed(ch, q, e, at, r), NEW cu, NEW sh
  PROVE  Standing(ch, q, e, at, r, cu, sh)
BY DEF Placed, Standing

LEMMA StandingTempo ==
  ASSUME NEW c \in Channels, NEW ch \in Offered(c), NEW q1 \in AllTempos, NEW q2 \in AllTempos,
         NEW e, NEW at, NEW r, NEW cu, NEW sh, Standing(ch, q1, e, at, r, cu, sh)
  PROVE  Standing(ch, q2, e, at, r, cu, sh)
<1>1. \A n : Position(ch, q1, e, n) = Position(ch, q2, e, n)
  BY TempoFree
<1> QED
  BY <1>1 DEF Standing, Exact, Past

\* An edit that leaves the timing and the events alone.
LEMMA StandingSame ==
  ASSUME NEW a, NEW b, SameTiming(a, b), NEW q, NEW e, NEW at, NEW r, NEW s, NEW cu, NEW sh,
         SameEvent(s, r), Counted(a, s), Standing(b, q, e, at, r, cu, sh)
  PROVE  Standing(a, q, e, at, s, cu, sh)
<1>1. /\ a.mode = b.mode /\ a.global = b.global /\ a.num = b.num /\ a.den = b.den
      /\ a.phase = b.phase /\ a.swing = b.swing
  BY DEF SameTiming
<1>2. \A n : Position(a, q, e, n) = Position(b, q, e, n)
  BY <1>1 DEF Position, Nominal, BaseOffset, SwingDelta
<1> QED
  BY <1>1, <1>2 DEF Standing, Joined, Exact, Past, SameEvent

\* What is in force after a step.
LEMMA InForceNext ==
  ASSUME TypesInv'
  PROVE  Tempo' \in AllTempos /\ \A c \in Channels : conf'.channel[c] \in Offered(c)
<1>1. sync'.tempo \in Tempos \union {0}
  BY DEF TypesInv, TypeOK
<1>2. conf'.tempo \in AllTempos
  BY DEF TypesInv, ConfInv
<1>3. Tempo' = EffectiveTempo(conf', sync')
  BY DEF Tempo
<1> QED
  BY <1>1, <1>2, <1>3, TempoInForce DEF TypesInv, ConfInv

\* A step is fine if every channel stands right for some tempo on offer.
LEMMA GridNext ==
  ASSUME TypesInv', NEW q \in AllTempos,
         \A c \in Channels : Standing(conf'.channel[c], q, epoch', master', run'[c], cut', shifted')
  PROVE  GridInv'
<1>1. \A c \in Channels : Standing(conf'.channel[c], Tempo', epoch', master', run'[c], cut', shifted')
  BY InForceNext, StandingTempo
<1> QED
  BY <1>1, Zenon DEF GridInv, Standing

\* A step that leaves the channels' settings, events and steps and the grid alone.
LEMMA GridKept ==
  ASSUME TypesInv, TypesInv', GridInv, UNCHANGED <<epoch, master, cut, shifted>>,
         \A c \in Channels : conf'.channel[c] = conf.channel[c] /\ SameGrid(run'[c], run[c])
  PROVE  GridInv'
<1>1. ASSUME NEW c \in Channels
      PROVE  Standing(conf'.channel[c], Tempo, epoch', master', run'[c], cut', shifted')
  <2>1. Standing(conf.channel[c], Tempo, epoch, master, run[c], cut, shifted)
    BY GridIsStanding
  <2>2. SameEvent(run'[c], run[c]) /\ Counted(conf.channel[c], run'[c])
    BY <2>1 DEF SameGrid, SameEvent, Standing, Counted
  <2>3. SameTiming(conf.channel[c], conf.channel[c])
    BY DEF SameTiming
  <2>4. Standing(conf.channel[c], Tempo, epoch, master, run'[c], cut, shifted)
    BY <2>1, <2>2, <2>3, StandingSame
  <2> QED
    BY <2>4
<1> QED
  BY <1>1, InForce, GridNext

\* A reset puts every GLOBAL channel at the start of the new grid.
LEMMA GridReset ==
  ASSUME TypesInv, TypesInv', NEW runs \in [Channels -> Runtime], NEW y, y.tempo \in Tempos \union {0},
         run' = ResetRuns(runs, y), epoch' = master, master' = master, conf' = conf
  PROVE  GridInv'
<1>1. EffectiveTempo(conf, y) \in AllTempos
  BY TempoInForce DEF TypesInv, ConfInv
<1>2. ASSUME NEW c \in Channels
      PROVE  Standing(conf'.channel[c], EffectiveTempo(conf, y), epoch', master', run'[c], cut', shifted')
  BY ResetRunsType, StandingPlaced
<1> QED
  BY <1>1, <1>2, GridNext

LEMMA GridInit == Init => GridInv
<1> SUFFICES ASSUME Init PROVE GridInv
  OBVIOUS
<1>0. TypesInv
  BY InitTypes
<1>1. ASSUME NEW c \in Channels
      PROVE  Standing(conf.channel[c], conf.tempo, epoch, master, run[c], cut, shifted)
  <2> DEFINE ch == conf.channel[c]
             r == [next |-> Position(ch, conf.tempo, 0, 0), epoch |-> 0, serial |-> 0, step |-> 0,
                   off |-> 0, high |-> FALSE, tie |-> FALSE, ratchets |-> 0, nextRatchet |-> 0,
                   spacing |-> 0, ratchetGate |-> 1, steady |-> FALSE, lost |-> FALSE]
  <2>1. ch \in Channel /\ pattern[c] \in Pattern /\ conf.tempo \in Nat \ {0}
    BY <1>0, InForce, TempoType DEF TypesInv, ConfInv
  <2>2. run[c] = SyncStep(ch, pattern[c], r) /\ epoch = 0
    BY DEF Init, Idle
  <2>3. Position(ch, conf.tempo, 0, 0) \in Nat
    BY <2>1, PositionType
  <2>4. r \in Runtime /\ r.epoch = 0 /\ r.serial = 0 /\ r.next = Position(ch, conf.tempo, 0, 0)
    BY <2>3 DEF Runtime
  <2> HIDE DEF r, ch
  <2>5. SameEvent(run[c], r) /\ Counted(ch, run[c])
    BY <2>1, <2>2, <2>4, SyncStepPlaces
  <2>6. Placed(ch, conf.tempo, epoch, master, run[c])
    BY <2>2, <2>4, <2>5 DEF Placed, Joined, Exact, Past, SameEvent
  <2> QED
    BY <2>6, StandingPlaced DEF ch
<1>2. \A c \in Channels : Standing(conf.channel[c], Tempo, epoch, master, run[c], cut, shifted)
  <2>1. conf.tempo \in AllTempos /\ Tempo \in AllTempos /\ \A c \in Channels : conf.channel[c] \in Offered(c)
    BY <1>0, InForce DEF TypesInv, ConfInv
  <2> QED
    BY <1>1, <2>1, StandingTempo
<1> QED
  BY <1>2, GridIsStanding

LEMMA CallGrid ==
  ASSUME TypesInv, TypesInv', GridInv,
         \/ Play \/ Pause \/ Stop \/ ResetGlobalPhase
         \/ \E high \in BOOLEAN : SetExternalResetGate(high)
  PROVE  GridInv'
<1>0. run \in [Channels -> Runtime] /\ sync.tempo \in Tempos \union {0}
  BY DEF TypesInv, TypeOK, RunInv
<1>1. CASE Play
  BY <1>1, GridKept DEF Play, configVars, SameGrid
<1>2. CASE Pause
  <2>1. \A c \in Channels : SameGrid(run'[c], run[c])
    BY <1>2, InForce, GateOps DEF Pause
  <2> QED
    BY <1>2, <2>1, GridKept DEF Pause, configVars
<1>3. CASE Stop
  BY <1>0, <1>3, CutRunsType, GridReset DEF Stop, ResetTo, configVars
<1>4. CASE ResetGlobalPhase \/ \E high \in BOOLEAN : SetExternalResetGate(high)
  BY <1>0, <1>4, GridReset DEF ResetGlobalPhase, SetExternalResetGate, ResetTo, configVars
<1> QED
  BY <1>1, <1>2, <1>3, <1>4

\* A late or early pulse moves a GLOBAL channel and the epoch by the same distance.
LEMMA AlignGrid ==
  ASSUME TypesInv, TypesInv', GridInv, NEW tempo \in Tempos, AlignPulse(tempo)
  PROVE  GridInv'
<1> DEFINE expected == sync.ref + PulseStep
<1>1. expected \in Nat /\ master \in Nat /\ epoch \in Nat
  BY InForce, ScaleAssumption DEF TypesInv, TypeOK
<1>2. /\ run' = [c \in Channels |-> Shifted(conf.channel[c], expected, run[c])]
      /\ epoch' = Shift(epoch, expected, master) /\ master' = master /\ conf' = conf
      /\ cut' = (cut \/ (master < expected /\ epoch < expected - master))
      /\ shifted' = (shifted \/ master > expected)
  BY DEF AlignPulse, Shifted, configVars
<1> HIDE DEF expected
<1>3. ASSUME NEW c \in Channels
      PROVE  Standing(conf'.channel[c], Tempo, epoch', master', run'[c], cut', shifted')
  <2> DEFINE ch == conf.channel[c]
             r == run[c]
             s == run'[c]
  <2>1. ch \in Channel /\ r \in Runtime /\ Tempo \in Nat \ {0}
    BY InForce
  <2>2. Standing(ch, Tempo, epoch, master, r, cut, shifted)
    BY GridIsStanding
  <2>3. /\ s.serial = r.serial /\ s.step = r.step
        /\ ch.global => /\ s.epoch = Shift(r.epoch, expected, master)
                        /\ s.next = Shift(r.next, expected, master)
    BY <1>1, <1>2, <2>1, ShiftedType
  <2>4. r.serial \in Nat
    BY <2>1 DEF Runtime
  <2> HIDE DEF ch, r, s
  <2>5. Joined(ch, epoch', s) /\ Counted(ch, s)
    BY <1>2, <2>2, <2>3 DEF Standing, Joined, Counted
  <2>6. ~cut' => ~cut /\ epoch' \in Nat /\ epoch' = epoch + (master - expected)
    <3> SUFFICES ASSUME ~cut' PROVE ~cut /\ epoch' \in Nat /\ epoch' = epoch + (master - expected)
      OBVIOUS
    <3>1. ~cut /\ ~(master < expected /\ epoch < expected - master)
      BY <1>2
    <3>2. Shift(epoch, expected, master) \in Nat /\ Shift(epoch, expected, master) = epoch + (master - expected)
      BY <1>1, <3>1, ShiftType
    <3> QED
      BY <1>2, <3>1, <3>2
  <2>7. \A n \in Nat : Position(ch, Tempo, epoch, n) \in Nat /\ Position(ch, Tempo, epoch, n) >= epoch
    BY <1>1, <2>1, PositionType
  <2>8. ~cut' => \A n \in Nat : Position(ch, Tempo, epoch', n) = Position(ch, Tempo, epoch, n) + (master - expected)
    <3> SUFFICES ASSUME ~cut', NEW n \in Nat
                 PROVE  Position(ch, Tempo, epoch', n) = Position(ch, Tempo, epoch, n) + (master - expected)
      OBVIOUS
    <3>1. Position(ch, Tempo, epoch', n) \in Nat
          /\ Position(ch, Tempo, epoch', n) - epoch' = Position(ch, Tempo, epoch, n) - epoch
      BY <1>1, <2>1, <2>6, PositionType
    <3> QED
      BY <1>1, <2>6, <2>7, <3>1
  <2>9. ~cut' => Exact(ch, Tempo, epoch', s)
    <3> SUFFICES ASSUME ~cut', ch.global, ch.mode # "Off"
                 PROVE  s.next = Position(ch, Tempo, epoch', s.serial)
      BY DEF Exact
    <3>1. r.next = Position(ch, Tempo, epoch, r.serial)
      BY <2>2, <2>6 DEF Standing, Exact
    <3>2. r.next \in Nat /\ r.next >= epoch
      BY <2>4, <2>7, <3>1
    <3>3. s.next = r.next + (master - expected)
      <4>1. ~(master < expected /\ epoch < expected - master)
        BY <1>2
      <4>2. ~(master < expected /\ r.next < expected - master)
        BY <1>1, <3>2, <4>1
      <4>3. Shift(r.next, expected, master) = r.next + (master - expected)
        <5> DEFINE pos == r.next
        <5>1. pos \in Nat /\ ~(master < expected /\ pos < expected - master)
          BY <3>2, <4>2
        <5> HIDE DEF pos
        <5>2. Shift(pos, expected, master) = pos + (master - expected)
          BY <1>1, <5>1, ShiftType
        <5> QED
          BY <5>2 DEF pos
      <4> QED
        BY <2>3, <4>3
    <3> QED
      BY <2>3, <2>4, <2>8, <3>1, <3>3
  <2>10. ~cut' /\ ~shifted' => Past(ch, Tempo, epoch', master', s)
    <3> SUFFICES ASSUME ~cut', ~shifted', ch.global, ch.mode # "Off", NEW m \in 0..(s.serial - 1)
                 PROVE  Position(ch, Tempo, epoch', m) <= master'
      BY DEF Past
    <3>1. m \in Nat /\ m \in 0..(r.serial - 1)
      BY <2>3, <2>4
    <3>2. ~shifted /\ ~(master > expected)
      BY <1>2
    <3>3. Position(ch, Tempo, epoch, m) <= master
      BY <2>2, <2>6, <3>1, <3>2 DEF Standing, Past
    <3> QED
      BY <1>1, <1>2, <2>7, <2>8, <3>1, <3>2, <3>3
  <2> QED
    BY <1>2, <2>5, <2>9, <2>10 DEF Standing, ch, s
<1> QED
  BY <1>3, InForce, GridNext

LEMMA PulseGrid ==
  ASSUME TypesInv, TypesInv', GridInv, NEW tempo \in Tempos, Pulse(tempo) \/ LoseLock(tempo)
  PROVE  GridInv'
<1> DEFINE known == [sync EXCEPT !.locked = TRUE, !.tempo = tempo]
<1>0. run \in [Channels -> Runtime] /\ known.tempo \in Tempos \union {0}
  BY LockedType DEF TypesInv, RunInv
<1>1. CASE IgnorePulse(tempo)
  BY <1>1, GridKept DEF IgnorePulse, configVars, SameGrid
<1>2. CASE CountPulse(tempo)
  <2>1. \/ UNCHANGED <<run, epoch, cut, shifted>>
        \/ run' = ResetRuns(run, known) /\ epoch' = master
    BY <1>2 DEF CountPulse
  <2>2. conf' = conf /\ master' = master
    BY <1>2 DEF CountPulse, configVars
  <2> HIDE DEF known
  <2>3. CASE UNCHANGED <<run, epoch, cut, shifted>>
    BY <2>2, <2>3, GridKept DEF SameGrid
  <2>4. CASE run' = ResetRuns(run, known) /\ epoch' = master
    BY <1>0, <2>2, <2>4, GridReset
  <2> QED
    BY <2>1, <2>3, <2>4
<1>3. CASE FirstPulse(tempo)
  BY <1>0, <1>3, GridReset DEF FirstPulse, configVars
<1>4. CASE AlignPulse(tempo)
  BY <1>4, AlignGrid
<1>5. CASE LoseLock(tempo)
  <2>1. \A c \in Channels : SameGrid(run'[c], run[c])
    BY <1>5, InForce, GateOps DEF LoseLock
  <2> QED
    BY <1>5, <2>1, GridKept DEF LoseLock, configVars
<1> QED
  BY <1>1, <1>2, <1>3, <1>4, <1>5 DEF Pulse

LEMMA EditGrid ==
  ASSUME TypesInv, TypesInv', GridInv,
         \/ \E tempo \in Tempos : UpdateMasterTempo(tempo)
         \/ \E s \in Settings, resched \in BOOLEAN :
              \/ UpdateConfiguration(s, resched)
              \/ \E c \in Channels : UpdateChannel(c, s.channel[c], resched)
         \/ \E c \in Channels, p \in Patterns, resched \in BOOLEAN : UpdateSequencerPattern(c, p, resched)
         \/ \E c \in Channels, x \in Expressions : UpdateSequencerStepMetadata(c, x)
  PROVE  GridInv'
<1>0. run \in [Channels -> Runtime] /\ Tempo \in AllTempos /\ Tempo \in Nat \ {0}
  BY InForce DEF TypesInv, RunInv
<1>1. \A c \in Channels : /\ Standing(conf.channel[c], Tempo, epoch, master, run[c], cut, shifted)
                          /\ SameTiming(conf.channel[c], conf.channel[c])
  BY GridIsStanding DEF SameTiming
<1>2. ASSUME NEW tempo \in Tempos, UpdateMasterTempo(tempo)
      PROVE  GridInv'
  <2>1. \A c \in Channels : SameGrid(run'[c], run[c])
    BY <1>2, InForce, GateOps DEF UpdateMasterTempo
  <2>2. conf' = [conf EXCEPT !.tempo = tempo] /\ UNCHANGED <<epoch, master, cut, shifted>>
    BY <1>2 DEF UpdateMasterTempo
  <2>3. conf'.channel = conf.channel
    BY <2>2 DEF TypesInv, ConfInv, Setting
  <2> QED
    BY <2>1, <2>2, <2>3, GridKept
<1>3. ASSUME NEW s \in Settings, NEW resched \in BOOLEAN, UpdateConfiguration(s, resched)
      PROVE  GridInv'
  <2>1. /\ conf' = s /\ EffectiveTempo(s, sync) \in Nat \ {0}
        /\ \A c \in Channels :
             /\ s.channel[c] \in Channel
             /\ run'[c] = Edited(s.channel[c], pattern[c], EffectiveTempo(s, sync), resched, run[c])
    BY <1>3, ConfigurationUpdate
  <2>2. EffectiveTempo(s, sync) \in AllTempos
    BY TempoInForce DEF TypesInv, TypeOK, AllTempos
  <2>3. UNCHANGED <<epoch, master, cut, shifted>> /\ (resched \/ s.channel = conf.channel)
    BY <1>3 DEF UpdateConfiguration
  <2>4. CASE resched
    <3>1. ASSUME NEW c \in Channels
          PROVE  Standing(conf'.channel[c], EffectiveTempo(s, sync), epoch', master', run'[c], cut', shifted')
      <4>1. Placed(s.channel[c], EffectiveTempo(s, sync), epoch, master, run'[c])
        <5> DEFINE q == EffectiveTempo(s, sync)
        <5>1. q \in Nat \ {0} /\ s.channel[c] \in Channel /\ pattern[c] \in Pattern /\ run[c] \in Runtime
          BY <2>1, InForce
        <5>2. run'[c] = Edited(s.channel[c], pattern[c], q, resched, run[c])
          BY <2>1
        <5> HIDE DEF q
        <5>3. LET e == Edited(s.channel[c], pattern[c], q, resched, run[c])
              IN resched => Placed(s.channel[c], q, epoch, master, e)
          BY <5>1, EditedType
        <5>4. Placed(s.channel[c], q, epoch, master, run'[c])
          BY <2>4, <5>2, <5>3
        <5> QED
          BY <5>4 DEF q
      <4> QED
        BY <2>1, <2>3, <4>1, StandingPlaced
    <3> QED
      BY <2>2, <3>1, GridNext
  <2>5. CASE ~resched
    <3>1. ASSUME NEW c \in Channels
          PROVE  Standing(conf'.channel[c], Tempo, epoch', master', run'[c], cut', shifted')
      <4>1. SameEvent(run'[c], run[c]) /\ Counted(s.channel[c], run'[c])
        BY <2>1, <2>5, InForce, EditedType
      <4>2. SameTiming(s.channel[c], conf.channel[c])
        BY <1>1, <2>3, <2>5
      <4>3. Standing(s.channel[c], Tempo, epoch, master, run'[c], cut, shifted)
        BY <1>1, <4>1, <4>2, StandingSame
      <4> QED
        BY <2>1, <2>3, <4>3
    <3> QED
      BY <1>0, <3>1, GridNext
  <2> QED
    BY <2>4, <2>5
<1>4. ASSUME NEW s \in Settings, NEW resched \in BOOLEAN, NEW c \in Channels,
             UpdateChannel(c, s.channel[c], resched)
      PROVE  GridInv'
  <2>1. /\ \A d \in Channels : conf'.channel[d] = IF d = c THEN s.channel[c] ELSE conf.channel[d]
        /\ \A d \in Channels : run'[d] = IF d = c THEN Edited(s.channel[c], pattern[c], Tempo, resched, run[c])
                                         ELSE run[d]
        /\ s.channel[c] \in Channel
    BY <1>4, ChannelUpdate
  <2>2. UNCHANGED <<epoch, master, cut, shifted>> /\ (resched \/ SameTiming(s.channel[c], conf.channel[c]))
    BY <1>4 DEF UpdateChannel
  <2>3. LET e == Edited(s.channel[c], pattern[c], Tempo, resched, run[c])
        IN /\ Counted(s.channel[c], e)
           /\ resched => Placed(s.channel[c], Tempo, epoch, master, e)
           /\ ~resched => SameEvent(e, run[c])
    BY <1>0, <2>1, InForce, EditedType
  <2>4. Standing(conf'.channel[c], Tempo, epoch', master', run'[c], cut', shifted')
    <3>1. CASE resched
      <4>1. Placed(s.channel[c], Tempo, epoch, master, run'[c])
        BY <2>1, <2>3, <3>1
      <4> QED
        BY <2>1, <2>2, <4>1, StandingPlaced
    <3>2. CASE ~resched
      <4>1. /\ SameEvent(run'[c], run[c]) /\ Counted(s.channel[c], run'[c])
            /\ SameTiming(s.channel[c], conf.channel[c])
        BY <2>1, <2>2, <2>3, <3>2
      <4>2. Standing(s.channel[c], Tempo, epoch, master, run'[c], cut, shifted)
        BY <1>1, <4>1, StandingSame
      <4> QED
        BY <2>1, <2>2, <4>2
    <3> QED
      BY <3>1, <3>2
  <2>5. \A d \in Channels : Standing(conf'.channel[d], Tempo, epoch', master', run'[d], cut', shifted')
    BY <1>1, <2>1, <2>2, <2>4
  <2> QED
    BY <1>0, <2>5, GridNext
<1>5. ASSUME NEW c \in Channels, NEW p \in Patterns, NEW resched \in BOOLEAN,
             UpdateSequencerPattern(c, p, resched)
      PROVE  GridInv'
  <2>1. p \in Pattern /\ run[c] \in Runtime
    BY <1>0, SettingsAssumption
  <2>2. UNCHANGED <<epoch, master, cut, shifted, conf>> /\ \A d \in Channels \ {c} : run'[d] = run[d]
    BY <1>0, <1>5 DEF UpdateSequencerPattern
  <2>3. /\ Counted(conf.channel[c], run'[c])
        /\ resched => Placed(conf.channel[c], Tempo, epoch, master, run'[c])
        /\ ~resched => SameEvent(run'[c], run[c])
    BY <1>0, <1>5, <2>1, NewPatternType DEF UpdateSequencerPattern
  <2>4. Standing(conf.channel[c], Tempo, epoch, master, run'[c], cut, shifted)
    BY <1>1, <2>3, StandingPlaced, StandingSame
  <2>5. \A d \in Channels : Standing(conf'.channel[d], Tempo, epoch', master', run'[d], cut', shifted')
    BY <1>1, <2>2, <2>4
  <2> QED
    BY <1>0, <2>5, GridNext
<1>6. ASSUME NEW c \in Channels, NEW x \in Expressions, UpdateSequencerStepMetadata(c, x)
      PROVE  GridInv'
  <2>1. run'[c] = EndTie(run[c]) /\ \A d \in Channels \ {c} : run'[d] = run[d]
    BY <1>0, <1>6 DEF UpdateSequencerStepMetadata
  <2>2. UNCHANGED <<epoch, master, cut, shifted, conf>>
    BY <1>6 DEF UpdateSequencerStepMetadata
  <2>3. SameGrid(run'[c], run[c])
    BY <2>1, InForce, GateOps
  <2>4. \A d \in Channels : SameGrid(run'[d], run[d])
    BY <2>1, <2>3 DEF SameGrid
  <2> QED
    BY <2>2, <2>4, GridKept
<1> QED
  BY <1>2, <1>3, <1>4, <1>5, <1>6

\* A tick that advances keeps every channel's place; none of its earlier events lies ahead.
LEMMA AdvanceGrid ==
  ASSUME TypesInv, TypesInv', GridInv, Tick, TickAdvance
  PROVE  GridInv'
<1>1. conf' = conf /\ UNCHANGED <<epoch, cut, shifted>>
  BY DEF Tick, TickAdvance, configVars
<1>2. master' \in Nat /\ master' >= master /\ master \in Nat /\ epoch \in Nat /\ Tempo \in Nat \ {0}
  BY InForce, TickAdvanceRuns
<1>3. ASSUME NEW c \in Channels
      PROVE  Standing(conf'.channel[c], Tempo, epoch', master', run'[c], cut', shifted')
  <2> DEFINE ch == conf.channel[c]
             r == Aged[c]
             s == run'[c]
  <2>1. Keeps(ch, Tempo, epoch, master', r, s)
    BY TickAdvanceRuns
  <2>2. Standing(ch, Tempo, epoch, master, run[c], cut, shifted)
    BY GridIsStanding
  <2>3. r \in Runtime /\ SameGrid(r, run[c]) /\ ch \in Channel
    BY InForce, AgedGates
  <2>4. Standing(ch, Tempo, epoch, master, r, cut, shifted)
    BY <2>2, <2>3 DEF SameGrid, Standing, Joined, Counted, Exact, Past
  <2> HIDE DEF ch, r, s
  <2>5. ~cut /\ ~shifted => Past(ch, Tempo, epoch, master', r)
    <3> SUFFICES ASSUME ~cut, ~shifted, ch.global, ch.mode # "Off", NEW m \in 0..(r.serial - 1)
                 PROVE  Position(ch, Tempo, epoch, m) <= master'
      BY DEF Past
    <3>1. Position(ch, Tempo, epoch, m) <= master
      BY <2>4 DEF Standing, Past
    <3>2. m \in Nat
      BY <2>3 DEF Runtime
    <3>3. Position(ch, Tempo, epoch, m) \in Nat
      BY <1>2, <2>3, <3>2, PositionType
    <3> QED
      BY <1>2, <3>1, <3>3
  <2>6. Standing(ch, Tempo, epoch, master', s, cut, shifted)
    BY <2>1, <2>4, <2>5 DEF Keeps, Standing
  <2> QED
    BY <1>1, <2>6 DEF ch, s
<1> QED
  BY <1>3, InForce, GridNext

LEMMA TickGrid ==
  ASSUME TypesInv, TypesInv', GridInv, Tick
  PROVE  GridInv'
<1>0. conf' = conf /\ \A c \in Channels : SameGrid(Aged[c], run[c])
  BY AgedGates DEF Tick, configVars
<1>1. CASE TickIdle
  BY <1>0, <1>1, GridKept DEF TickIdle
<1>2. CASE TickCount
  <2>1. \/ UNCHANGED <<epoch, cut, shifted>> /\ run' = Aged
        \/ run' = ResetRuns(Aged, sync) /\ epoch' = master
    BY <1>2 DEF TickCount, ResetTo
  <2>2. master' = master
    BY <1>2 DEF TickCount
  <2>3. sync.tempo \in Tempos \union {0}
    BY DEF TypesInv, TypeOK
  <2> QED
    BY <1>0, <2>1, <2>2, <2>3, AgedType, GridKept, GridReset
<1>3. CASE TickAdvance
  BY <1>3, AdvanceGrid
<1> QED
  BY <1>1, <1>2, <1>3 DEF Tick

LEMMA GridStep ==
  ASSUME TypesInv, GridInv, [Next]_vars
  PROVE  GridInv'
<1>0. TypesInv'
  BY TypesStep
<1>1. CASE Tick BY <1>0, <1>1, TickGrid
<1>2. CASE \/ Play \/ Pause \/ Stop \/ ResetGlobalPhase
           \/ \E high \in BOOLEAN : SetExternalResetGate(high)
  BY <1>0, <1>2, CallGrid
<1>3. CASE \E tempo \in Tempos : Pulse(tempo) \/ LoseLock(tempo) BY <1>0, <1>3, PulseGrid
<1>4. CASE \/ \E tempo \in Tempos : UpdateMasterTempo(tempo)
           \/ \E s \in Settings, resched \in BOOLEAN :
                \/ UpdateConfiguration(s, resched)
                \/ \E c \in Channels : UpdateChannel(c, s.channel[c], resched)
           \/ \E c \in Channels, p \in Patterns, resched \in BOOLEAN : UpdateSequencerPattern(c, p, resched)
           \/ \E c \in Channels, x \in Expressions : UpdateSequencerStepMetadata(c, x)
  BY <1>0, <1>4, EditGrid
<1>5. CASE UNCHANGED vars
  <2>1. conf' = conf /\ run' = run /\ UNCHANGED <<epoch, master, cut, shifted>>
    BY <1>5 DEF vars, configVars
  <2> QED
    BY <1>0, <2>1, GridKept DEF SameGrid
<1> QED
  BY <1>1, <1>2, <1>3, <1>4, <1>5, Zenon DEF Next

\* Every GLOBAL channel is on the shared epoch, with the step and the next event of its
\* serial on that grid, through edits, resets, pulses, changes of tempo and catch-up.
THEOREM GridAlwaysShared == Spec => []GlobalGridIsShared
<1>1. Init => TypesInv /\ GridInv
  BY InitTypes, GridInit
<1>2. TypesInv /\ GridInv /\ [Next]_vars => (TypesInv /\ GridInv)'
  BY TypesStep, GridStep
<1>3. GridInv => GlobalGridIsShared
  BY DEF GridInv, GlobalGridIsShared, Joined, Counted, Exact
<1> QED
  BY <1>1, <1>2, <1>3, PTL DEF Spec

\* Only a tick that advances moves the master position.
LEMMA OnlyTicksAdvance ==
  ASSUME [Next]_vars, master' > master, master \in Nat
  PROVE  Tick /\ TickAdvance
<1>1. master' # master
  OBVIOUS
<1>2. Tick
  BY <1>1 DEF Next, vars, Play, Pause, Stop, ResetGlobalPhase, SetExternalResetGate, Pulse, IgnorePulse,
     CountPulse, FirstPulse, AlignPulse, LoseLock, UpdateMasterTempo, UpdateConfiguration, UpdateChannel,
     UpdateSequencerPattern, UpdateSequencerStepMetadata
<1> QED
  BY <1>1, <1>2 DEF Tick, TickIdle, TickCount

\* The event that is next after a position is one and the same for everyone who has none
\* of the earlier events ahead.
LEMMA NextEventIsUnique ==
  ASSUME NEW ch \in Channel, NEW q \in Nat \ {0}, NEW e \in Nat, NEW at \in Nat,
         NEW m \in Nat, NEW n \in Nat,
         Position(ch, q, e, m) > at, \A k \in 0..(m - 1) : Position(ch, q, e, k) <= at,
         Position(ch, q, e, n) > at, \A k \in 0..(n - 1) : Position(ch, q, e, k) <= at
  PROVE  m = n
<1>0. Position(ch, q, e, m) \in Nat /\ Position(ch, q, e, n) \in Nat
  BY PositionType
<1>1. ~(m < n)
  <2> SUFFICES ASSUME m < n PROVE FALSE
    OBVIOUS
  <2>1. m \in 0..(n - 1)
    OBVIOUS
  <2> QED
    BY <1>0, <2>1
<1>2. ~(n < m)
  <2> SUFFICES ASSUME n < m PROVE FALSE
    OBVIOUS
  <2>1. n \in 0..(m - 1)
    OBVIOUS
  <2> QED
    BY <1>0, <2>1
<1> QED
  BY <1>1, <1>2

\* A tick that leaves nothing overdue leaves channels of the same GLOBAL timing with the
\* same event: each has the first event after the new position.
LEMMA EqualTimingStep ==
  ASSUME TypesInv, GridInv, [Next]_vars, master' > master, ~shifted, ~cut,
         NEW c \in Channels, NEW d \in Channels,
         \A k \in {c, d} : conf.channel[k].global /\ conf.channel[k].mode # "Off" /\ run'[k].next > master',
         \A f \in {"num", "den", "phase", "swing"} : conf.channel[c][f] = conf.channel[d][f]
  PROVE  run'[c].serial = run'[d].serial
<1> DEFINE a == conf.channel[c]
           b == conf.channel[d]
<1>1. TypesInv' /\ GridInv'
  BY TypesStep, GridStep
<1>2. Tick /\ TickAdvance
  BY InForce, OnlyTicksAdvance
<1>3. conf' = conf /\ UNCHANGED <<epoch, cut, shifted>> /\ master' \in Nat
  BY <1>2, TickAdvanceRuns DEF Tick, TickAdvance, configVars
<1>4. Tempo' = Tempo /\ Tempo \in Nat \ {0} /\ epoch \in Nat /\ a \in Channel /\ b \in Channel
  BY <1>2, <1>3, InForce DEF Tick, Tempo
<1>5. run'[c].serial \in Nat /\ run'[d].serial \in Nat
  BY <1>1 DEF TypesInv, RunInv, Runtime
<1>6. \A k \in {c, d} :
        /\ run'[k].next = Position(conf.channel[k], Tempo, epoch, run'[k].serial)
        /\ \A m \in 0..(run'[k].serial - 1) : Position(conf.channel[k], Tempo, epoch, m) <= master'
  BY <1>1, <1>3, <1>4 DEF GridInv, Exact, Past
<1>7. \A m : Position(b, Tempo, epoch, m) = Position(a, Tempo, epoch, m)
  <2>1. a.num = b.num /\ a.den = b.den /\ a.phase = b.phase /\ a.swing = b.swing
    OBVIOUS
  <2> HIDE DEF a, b
  <2> QED
    BY <2>1 DEF Position, Nominal, BaseOffset, SwingDelta
<1>8. /\ Position(a, Tempo, epoch, run'[c].serial) > master'
      /\ \A m \in 0..(run'[c].serial - 1) : Position(a, Tempo, epoch, m) <= master'
      /\ Position(b, Tempo, epoch, run'[d].serial) > master'
      /\ \A m \in 0..(run'[d].serial - 1) : Position(b, Tempo, epoch, m) <= master'
  BY <1>6
<1> DEFINE m == run'[c].serial
           n == run'[d].serial
           at == master'
           q == Tempo
<1>9. /\ a \in Channel /\ q \in Nat \ {0} /\ epoch \in Nat /\ at \in Nat /\ m \in Nat /\ n \in Nat
      /\ Position(a, q, epoch, m) > at /\ \A k \in 0..(m - 1) : Position(a, q, epoch, k) <= at
      /\ Position(a, q, epoch, n) > at /\ \A k \in 0..(n - 1) : Position(a, q, epoch, k) <= at
  BY <1>3, <1>4, <1>5, <1>7, <1>8
<1> HIDE DEF a, m, n, at, q
<1>10. m = n
  BY <1>9, NextEventIsUnique
<1> QED
  BY <1>10 DEF m, n

\* Channels on the same GLOBAL timing stay on the same event in every behaviour, whatever
\* was edited on one of them alone, unless a late pulse moved the grid ahead.
THEOREM EqualTimingAlways == Spec => EqualTimingStaysTogether
<1>1. Init => TypesInv /\ GridInv
  BY InitTypes, GridInit
<1>2. TypesInv /\ GridInv /\ [Next]_vars => (TypesInv /\ GridInv)'
  BY TypesStep, GridStep
<1> DEFINE Together ==
             (master' > master /\ ~shifted /\ ~cut) =>
               \A c, d \in {k \in Channels : conf.channel[k].global /\ conf.channel[k].mode # "Off"
                                              /\ run'[k].next > master'} :
                 (\A f \in {"num", "den", "phase", "swing"} : conf.channel[c][f] = conf.channel[d][f])
                   => run'[c].serial = run'[d].serial
<1>3. TypesInv /\ GridInv /\ [Next]_vars => [Together]_vars
  <2> SUFFICES ASSUME TypesInv, GridInv, [Next]_vars PROVE Together
    OBVIOUS
  <2> QED
    BY EqualTimingStep
<1>4. EqualTimingStaysTogether <=> [][Together]_vars
  BY DEF EqualTimingStaysTogether
<1> HIDE DEF Together
<1> QED
  BY <1>1, <1>2, <1>3, <1>4, PTL DEF Spec
-----------------------------------------------------------------------------
(* Onsets on the internal clock: no tempo comes from outside, since a pulse    *)
(* may move an event onto a gate that sounds, and events are three ticks apart *)
(* or more before swing.  The firmware leaves 37: 20 kHz against 32 events to  *)
(* a beat at 999 BPM (kSupportedMaximumBpm).                                   *)

Internal == Tempos = {}
Roomy == \A c \in Channels : \A ch \in Offered(c), q \in AllTempos : (ch.den * Beat) \div ch.num >= 3 * q

LEMMA QuotientSum ==
  ASSUME NEW a \in Nat, NEW b \in Nat, NEW k \in Nat \ {0}
  PROVE  (a + b) \div k >= (a \div k) + (b \div k)
<1>1. /\ a \div k \in Nat /\ b \div k \in Nat
      /\ a >= k * (a \div k) /\ b >= k * (b \div k)
  <2>1. a \div k \in Nat /\ a % k \in 0..(k - 1) /\ a = k * (a \div k) + (a % k)
    BY DivMod
  <2>2. b \div k \in Nat /\ b % k \in 0..(k - 1) /\ b = k * (b \div k) + (b % k)
    BY DivMod
  <2> QED
    BY <2>1, <2>2
<1> DEFINE m == (a \div k) + (b \div k)
<1>2. m \in Nat /\ a + b \in Nat /\ a + b >= m * k
  BY <1>1
<1> HIDE DEF m
<1>3. (a + b) \div k >= m
  BY <1>2, DivAtLeast
<1> QED
  BY <1>3 DEF m

\* Two events of a channel are more than a tick apart, swing included.
LEMMA EventsApart ==
  ASSUME Roomy, NEW c \in Channels, NEW ch \in Offered(c), NEW q \in AllTempos,
         NEW e \in Nat, NEW n \in Nat
  PROVE  Position(ch, q, e, n + 1) > Position(ch, q, e, n) + q
<1> DEFINE d == (ch.den * Beat) \div ch.num
           w == SwingDelta(ch, q)
           lag == (Nominal(ch, q) * ch.phase) \div 100
           base(k) == (k * ch.den * Beat) \div ch.num
           swung(k) == IF k % 2 = 1 THEN w ELSE 0
<1>1. ch \in Channel /\ q \in Nat \ {0}
  BY OfferedType, TempoType DEF Offered
<1>2. d \in Nat /\ d >= 3 * q /\ w \in Nat /\ 2 * w <= d
  BY OfferedGrid DEF Roomy
<1>3. base(n) \in Nat /\ base(n + 1) \in Nat /\ base(n + 1) >= base(n) + d
  <2> DEFINE x == ch.den * Beat
  <2>1. ch.num \in Nat \ {0} /\ ch.den \in Nat /\ Beat \in Nat
    BY <1>1, ScaleAssumption DEF Channel
  <2>2. x \in Nat
    BY <2>1, ProductNat
  <2>3. n * ch.den * Beat = n * x /\ (n + 1) * ch.den * Beat = n * x + x
    BY <2>1
  <2>4. base(n) = (n * x) \div ch.num /\ base(n + 1) = (n * x + x) \div ch.num /\ d = x \div ch.num
    BY <2>3
  <2> HIDE DEF x, base, d
  <2>5. n * x \in Nat /\ n * x + x \in Nat
    BY <2>2, ProductNat
  <2>6. (n * x) \div ch.num \in Nat /\ (n * x + x) \div ch.num \in Nat /\ x \div ch.num \in Nat
    BY <2>1, <2>2, <2>5, DivMod
  <2>7. (n * x + x) \div ch.num >= ((n * x) \div ch.num) + (x \div ch.num)
    BY <2>1, <2>2, <2>5, QuotientSum
  <2> QED
    BY <2>4, <2>6, <2>7
<1>4. lag \in Nat
  <2>1. Nominal(ch, q) \in Nat
    BY <1>1, OffsetType
  <2>3. ch.phase \in Nat
    BY <1>1 DEF Channel
  <2>2. Nominal(ch, q) * ch.phase \in Nat
    BY <2>1, <2>3, ProductNat
  <2> QED
    BY <2>2, Hundredths
<1>5. \A k : Position(ch, q, e, k) = e + lag + base(k) + swung(k)
  BY OfferedGrid DEF Position
<1>6. \A k : swung(k) = 0 \/ swung(k) = w
  OBVIOUS
<1>7. swung(n + 1) + w >= swung(n) /\ swung(n) \in Nat /\ swung(n + 1) \in Nat
  BY <1>2, <1>6
<1> HIDE DEF d, w, lag, base, swung
<1>8. base(n + 1) + swung(n + 1) > base(n) + swung(n) + q
  BY <1>1, <1>2, <1>3, <1>7
<1> QED
  BY <1>1, <1>3, <1>4, <1>5, <1>7, <1>8

\* The ticks of a span, the ratchets that fit into them, and the ticks of one.
LEMMA SpanTicks ==
  ASSUME NEW q \in Nat \ {0}, NEW span \in Nat, span > q
  PROVE  LET ticks == (span + q - 1) \div q
         IN ticks \in Nat /\ ticks * q < span + q /\ ticks >= 2
<1> DEFINE a == span + q - 1
<1>1. a \in Nat /\ a >= 2 * q /\ a < span + q
  OBVIOUS
<1> HIDE DEF a
<1>2. a \div q \in Nat /\ a % q \in 0..(q - 1) /\ a = q * (a \div q) + (a % q)
  BY <1>1, DivMod
<1>3. a \div q >= 2
  BY <1>1, DivAtLeast
<1>4. (a \div q) * q <= a
  BY <1>1, <1>2
<1>5. (a \div q) * q < span + q
  <2>1. (a \div q) * q \in Nat
    BY <1>2
  <2> QED
    BY <1>1, <1>4, <2>1
<1> QED
  BY <1>2, <1>3, <1>5 DEF a

LEMMA RatchetsFit ==
  ASSUME NEW ticks \in Nat, ticks >= 2, NEW wanted \in 1..8
  PROVE  LET ratchets == Lower(wanted, Upper(ticks \div 2, 1))
         IN ratchets \in 1..8 /\ (ratchets = 1 \/ 2 * ratchets <= ticks)
<1> DEFINE h == ticks \div 2
           u == Upper(h, 1)
<1>1. h \in Nat /\ 2 * h <= ticks
  OBVIOUS
<1> HIDE DEF h
<1>2. u \in Nat \ {0} /\ (u = 1 \/ 2 * u <= ticks)
  BY <1>1 DEF Upper
<1> HIDE DEF u
<1>3. Lower(wanted, u) \in 1..8 /\ (Lower(wanted, u) = 1 \/ 2 * Lower(wanted, u) <= ticks)
  BY <1>2 DEF Lower
<1> QED
  BY <1>3 DEF u, h

LEMMA RatchetTicks ==
  ASSUME NEW ticks \in Nat, ticks >= 2, NEW ratchets \in 1..8, ratchets = 1 \/ 2 * ratchets <= ticks
  PROVE  LET sub == Upper(ticks \div ratchets, 1)
         IN sub \in Nat /\ ratchets * sub <= ticks /\ sub >= 2
<1> DEFINE k == ticks \div ratchets
<1>1. ratchets \in Nat \ {0} /\ ticks >= 2 * ratchets
  OBVIOUS
<1>2. k \in Nat /\ ticks % ratchets \in 0..(ratchets - 1) /\ ticks = ratchets * k + (ticks % ratchets)
  BY <1>1, DivMod
<1>3. k >= 2
  BY <1>1, DivAtLeast
<1> HIDE DEF k
<1>4. ratchets * k <= ticks
  <2>1. ratchets * k \in Nat
    BY <1>1, <1>2
  <2> QED
    BY <1>1, <1>2, <2>1
<1>5. Upper(k, 1) = k
  BY <1>2, <1>3 DEF Upper
<1> QED
  BY <1>2, <1>3, <1>4, <1>5 DEF k

\* A gate is a tick shorter than its part of the span, or more.
LEMMA GateLength ==
  ASSUME NEW ch \in Channel, NEW meta \in StepMeta, NEW sub \in Nat, sub >= 2, NEW ratchets
  PROVE  LET gate == GateTicks(ch, meta, sub, ratchets)
         IN gate \in Nat \ {0} /\ gate <= sub - 1
<1> DEFINE gate == GateTicks(ch, meta, sub, ratchets)
<1>1. gate \in Nat \ {0}
  BY GateTicksType
<1>2. meta.duty \in {0, 25, 50, 75} /\ ch.gate \in Nat \ {0}
  BY DEF StepMeta, Channel
<1>3. CASE meta.duty = 0
  <2> DEFINE h == sub \div 2
             u == Upper(h, 1)
  <2>1. gate = Lower(ch.gate, u)
    BY <1>3 DEF GateTicks
  <2>2. h \in Nat /\ h <= sub - 1
    OBVIOUS
  <2> HIDE DEF h, gate
  <2>3. u \in Nat /\ u <= sub - 1
    BY <2>2 DEF Upper
  <2> HIDE DEF u
  <2>4. gate <= sub - 1
    BY <1>2, <2>1, <2>3 DEF Lower
  <2> QED
    BY <1>1, <2>4 DEF gate
<1>4. CASE meta.duty # 0
  <2> DEFINE z == sub * meta.duty
             y == z \div 100
             u == Upper(y, 1)
             v == IF ratchets > 1 /\ sub > 1 THEN sub - 1 ELSE sub
  <2>1. gate = Lower(u, v)
    BY <1>4 DEF GateTicks
  <2>2. z \in Nat /\ z <= 75 * sub
    BY <1>2
  <2> HIDE DEF z, gate
  <2>3. y \in Nat /\ y <= sub - 1
    <3>1. z = 100 * y + (z % 100) /\ z % 100 \in 0..99 /\ y \in Nat
      BY <2>2, Hundredths
    <3> HIDE DEF y
    <3> QED
      BY <2>2, <3>1
  <2> HIDE DEF y
  <2>4. u \in Nat /\ u <= sub - 1
    BY <2>3 DEF Upper
  <2>5. v \in Nat
    OBVIOUS
  <2> HIDE DEF u, v
  <2>6. gate <= sub - 1
    BY <2>1, <2>4, <2>5 DEF Lower
  <2> QED
    BY <1>1, <2>6 DEF gate
<1> QED
  BY <1>3, <1>4

\* So a gate ends before its span does, and so does the gate of the last ratchet.
LEMMA GatesWithin ==
  ASSUME NEW q \in Nat \ {0}, NEW span \in Nat, span > q,
         NEW ticks \in Nat, ticks * q < span + q,
         NEW ratchets \in 1..8,
         NEW sub \in Nat, ratchets * sub <= ticks, sub >= 2,
         NEW gate \in Nat \ {0}, gate <= sub - 1,
         NEW spacing, spacing = Upper(span \div ratchets, q)
  PROVE  /\ spacing \in Nat /\ spacing >= q
         /\ gate * q < span
         /\ (ratchets - 1) * spacing + gate * q < span
<1> DEFINE g == sub * q
           w == gate * q
           s == span \div ratchets
<1>1. g \in Nat /\ w \in Nat /\ w <= g - q /\ g >= 2 * q
  <2>1. (sub - 1) * q = sub * q - q
    OBVIOUS
  <2>2. gate * q <= (sub - 1) * q
    OBVIOUS
  <2>3. sub * q >= 2 * q /\ sub * q \in Nat /\ gate * q \in Nat
    OBVIOUS
  <2> QED
    BY <2>1, <2>2, <2>3
<1>2. ratchets * g < span + q
  <2>1. (ratchets * sub) * q <= ticks * q
    OBVIOUS
  <2>2. (ratchets * sub) * q = ratchets * g
    OBVIOUS
  <2>3. ratchets * g \in Nat /\ ticks * q \in Nat
    BY <1>1
  <2> HIDE DEF g
  <2> QED
    BY <2>1, <2>2, <2>3
<1> HIDE DEF g, w
<1>3. s \in Nat /\ ratchets * s <= span
  <2>1. s \in Nat /\ span % ratchets \in 0..(ratchets - 1) /\ span = ratchets * s + (span % ratchets)
    <3>1. ratchets \in Nat \ {0}
      OBVIOUS
    <3> QED
      BY <3>1, DivMod
  <2> HIDE DEF s
  <2>2. ratchets * s \in Nat
    BY <2>1
  <2> QED
    BY <2>1, <2>2
<1>4. s >= q
  <2>1. ratchets * q <= span
    <3> SUFFICES ASSUME ratchets # 1 PROVE ratchets * q <= span
      OBVIOUS
    <3>1. ratchets * (2 * q) <= ratchets * g
      BY <1>1
    <3>2. ratchets * (2 * q) = ratchets * q + ratchets * q /\ ratchets * q \in Nat /\ ratchets * q >= q
      OBVIOUS
    <3>3. ratchets * g \in Nat
      BY <1>1
    <3> QED
      BY <1>2, <3>1, <3>2, <3>3
  <2>2. span >= q * ratchets /\ ratchets \in Nat \ {0}
    BY <2>1
  <2> QED
    BY <2>2, DivAtLeast
<1> HIDE DEF s
<1>5. spacing = s
  BY <1>3, <1>4 DEF Upper, s
<1>6. w < span /\ (ratchets - 1) * s + w < span
  <2>1. CASE ratchets = 1 BY <1>1, <1>2, <1>3, <2>1
  <2>2. CASE ratchets = 2 BY <1>1, <1>2, <1>3, <2>2
  <2>3. CASE ratchets = 3 BY <1>1, <1>2, <1>3, <2>3
  <2>4. CASE ratchets = 4 BY <1>1, <1>2, <1>3, <2>4
  <2>5. CASE ratchets = 5 BY <1>1, <1>2, <1>3, <2>5
  <2>6. CASE ratchets = 6 BY <1>1, <1>2, <1>3, <2>6
  <2>7. CASE ratchets = 7 BY <1>1, <1>2, <1>3, <2>7
  <2>8. CASE ratchets = 8 BY <1>1, <1>2, <1>3, <2>8
  <2> QED
    BY <2>1, <2>2, <2>3, <2>4, <2>5, <2>6, <2>7, <2>8
<1> QED
  BY <1>3, <1>4, <1>5, <1>6 DEF w

\* The gate of an event ends a tick or more before the next, and so does the gate of the
\* last of its ratchets.
LEMMA GateFits ==
  ASSUME NEW ch \in Channel, NEW meta \in StepMeta, NEW q \in Nat \ {0}, NEW span \in Nat, span > q
  PROVE  LET ticks    == (span + q - 1) \div q
             ratchets == Lower(meta.ratchets, Upper(ticks \div 2, 1))
             sub      == Upper(ticks \div ratchets, 1)
             gate     == GateTicks(ch, meta, sub, ratchets)
             spacing  == Upper(span \div ratchets, q)
         IN /\ ratchets \in 1..8 /\ gate \in Nat \ {0} /\ spacing \in Nat /\ spacing >= q
            /\ gate * q < span
            /\ (ratchets - 1) * spacing + gate * q < span
<1> DEFINE ticks    == (span + q - 1) \div q
           ratchets == Lower(meta.ratchets, Upper(ticks \div 2, 1))
           sub      == Upper(ticks \div ratchets, 1)
           gate     == GateTicks(ch, meta, sub, ratchets)
           spacing  == Upper(span \div ratchets, q)
<1>1. ticks \in Nat /\ ticks * q < span + q /\ ticks >= 2
  BY SpanTicks
<1> HIDE DEF ticks
<1>2. ratchets \in 1..8 /\ (ratchets = 1 \/ 2 * ratchets <= ticks)
  <2>1. meta.ratchets \in 1..8
    BY DEF StepMeta
  <2> QED
    BY <1>1, <2>1, RatchetsFit
<1> HIDE DEF ratchets
<1>3. sub \in Nat /\ ratchets * sub <= ticks /\ sub >= 2
  BY <1>1, <1>2, RatchetTicks
<1> HIDE DEF sub
<1>4. gate \in Nat \ {0} /\ gate <= sub - 1
  BY <1>3, GateLength
<1> HIDE DEF gate
<1>5. /\ spacing \in Nat /\ spacing >= q
      /\ gate * q < span
      /\ (ratchets - 1) * spacing + gate * q < span
  <2> HIDE DEF spacing
  <2>1. spacing = Upper(span \div ratchets, q)
    BY DEF spacing
  <2> QED
    BY <1>1, <1>2, <1>3, <1>4, <2>1, GatesWithin
<1> HIDE DEF spacing
<1> QED
  BY <1>2, <1>4, <1>5 DEF ticks, ratchets, sub, gate, spacing

\* The next event of a channel lies ahead of `at', where its serial says.
Timely(ch, q, at, r) ==
  ch.mode # "Off" => r.next >= at /\ r.next = Position(ch, q, r.epoch, r.serial)

\* A gate timed on the grid and tempo in force ends before the next event, and so does
\* the last of its ratchets, of which the next lies ahead of `from'.
Timed(q, at, from, r) ==
  r.steady =>
    /\ r.high /\ ~r.tie /\ r.off > 0 => at + (r.off - 1) * q < r.next
    /\ r.ratchets > 0 =>
         /\ r.nextRatchet >= from /\ r.spacing >= q
         /\ r.nextRatchet + (r.ratchets - 1) * r.spacing + r.ratchetGate * q < r.next

Onset(ch, q, at, r) ==
  /\ ~r.lost /\ (r.steady => ch.mode # "Off")
  /\ Timely(ch, q, at, r) /\ Timed(q, at, at, r)

\* No part of the gate differs.
SameSound(a, b) ==
  /\ a.high = b.high /\ a.off = b.off /\ a.tie = b.tie /\ a.steady = b.steady /\ a.lost = b.lost
  /\ a.ratchets = b.ratchets /\ a.nextRatchet = b.nextRatchet /\ a.spacing = b.spacing
  /\ a.ratchetGate = b.ratchetGate

\* What the operators on gates leave of a runtime's history and ratchets.
LEMMA FallFields ==
  ASSUME NEW r \in Runtime
  PROVE  /\ ~Fall(r).high /\ Fall(r).tie = r.tie /\ Fall(r).steady = r.steady /\ Fall(r).lost = r.lost
         /\ Fall(r).ratchets = r.ratchets /\ Fall(r).nextRatchet = r.nextRatchet
         /\ Fall(r).spacing = r.spacing /\ Fall(r).ratchetGate = r.ratchetGate
         /\ Fall(r).next = r.next
BY DEF Fall, Runtime

LEMMA RiseFields ==
  ASSUME NEW r \in Runtime
  PROVE  /\ Rise(r).high /\ Rise(r).tie = r.tie /\ Rise(r).steady = r.steady /\ Rise(r).lost = r.lost
         /\ Rise(r).ratchets = r.ratchets /\ Rise(r).nextRatchet = r.nextRatchet
         /\ Rise(r).spacing = r.spacing /\ Rise(r).ratchetGate = r.ratchetGate
         /\ Rise(r).next = r.next
BY DEF Rise, Runtime

LEMMA NoTieFields ==
  ASSUME NEW r \in Runtime
  PROVE  /\ ~NoTie(r).tie /\ NoTie(r).ratchets = 0 /\ NoTie(r).high = r.high /\ NoTie(r).off = r.off
         /\ NoTie(r).steady = r.steady /\ NoTie(r).lost = r.lost /\ NoTie(r).next = r.next
BY DEF NoTie, Runtime

LEMMA CutFields ==
  ASSUME NEW r \in Runtime
  PROVE  ~Cut(r).high /\ Cut(r).ratchets = 0 /\ Cut(r).steady = r.steady /\ Cut(r).lost = r.lost
BY DEF Cut, Fall, Runtime

LEMMA UnsteadyFields ==
  ASSUME NEW r \in Runtime
  PROVE  ~Unsteady(r).steady /\ Unsteady(r).lost = r.lost
BY DEF Unsteady, Runtime

\* A LOW gate without ratchets threatens no onset.
LEMMA QuietIsTimed ==
  ASSUME NEW q, NEW at, NEW from, NEW r, ~r.high \/ ~r.steady, ~(r.ratchets > 0) \/ ~r.steady
  PROVE  Timed(q, at, from, r)
BY DEF Timed

\* The first loop of a tick, which may advance the master position by q.
LEMMA AgeTimed ==
  ASSUME NEW q \in Nat \ {0}, NEW at \in Nat, NEW r \in Runtime, Timed(q, at, at, r)
  PROVE  /\ Timed(q, at, at, Age(r)) /\ Timed(q, at + q, at, Age(r))
         /\ Age(r).steady = r.steady /\ Age(r).lost = r.lost
<1>1. CASE r.high /\ r.off = 1
  <2>1. Age(r) = Fall(r)
    BY <1>1 DEF Age
  <2> QED
    BY <2>1, FallFields DEF Timed
<1>2. CASE ~(r.high /\ r.off = 1)
  <2> DEFINE s == Age(r)
  <2>1. s = [r EXCEPT !.off = Upper(r.off - 1, 0)]
    BY <1>2 DEF Age, Runtime
  <2>2. /\ s.off = Upper(r.off - 1, 0) /\ s.high = r.high /\ s.tie = r.tie /\ s.steady = r.steady
        /\ s.lost = r.lost /\ s.ratchets = r.ratchets /\ s.nextRatchet = r.nextRatchet
        /\ s.spacing = r.spacing /\ s.ratchetGate = r.ratchetGate /\ s.next = r.next
    BY <2>1 DEF Runtime
  <2> HIDE DEF s
  <2>3. r.off \in Nat /\ r.next \in Nat
    BY DEF Runtime
  <2>4. s.off > 0 => r.off > 0 /\ s.off = r.off - 1
    BY <2>2, <2>3 DEF Upper
  <2>5. /\ (s.off - 1) * q \in Int /\ (r.off - 1) * q \in Int
        /\ s.off > 0 => (s.off - 1) * q + q = (r.off - 1) * q
    <3>1. s.off \in Nat
      BY <2>2, <2>3 DEF Upper
    <3>2. s.off > 0 => (s.off - 1) * q + q = (r.off - 1) * q
      BY <2>3, <2>4, <3>1
    <3> QED
      BY <2>3, <3>1, <3>2
  <2>6. Timed(q, at, at, s) /\ Timed(q, at + q, at, s) /\ s.steady = r.steady /\ s.lost = r.lost
    <3> DEFINE y == (s.off - 1) * q
               z == (r.off - 1) * q
               tail == r.nextRatchet + (r.ratchets - 1) * r.spacing + r.ratchetGate * q
    <3>1. s.ratchets > 0 => s.nextRatchet + (s.ratchets - 1) * s.spacing + s.ratchetGate * q = tail
      BY <2>2
    <3>2. y \in Int /\ z \in Int /\ (s.off > 0 => y + q = z)
      BY <2>5
    <3>3. r.steady => /\ r.high /\ ~r.tie /\ r.off > 0 => at + z < r.next
                      /\ r.ratchets > 0 => r.nextRatchet >= at /\ r.spacing >= q /\ tail < r.next
      BY DEF Timed
    <3> SUFFICES /\ s.steady => /\ s.high /\ ~s.tie /\ s.off > 0 => at + y < s.next
                                /\ s.ratchets > 0 => s.nextRatchet >= at /\ s.spacing >= q /\ tail < s.next
                 /\ s.steady => /\ s.high /\ ~s.tie /\ s.off > 0 => (at + q) + y < s.next
                                /\ s.ratchets > 0 => s.nextRatchet >= at /\ s.spacing >= q /\ tail < s.next
      BY <2>2, <3>1 DEF Timed
    <3> HIDE DEF y, z, tail
    <3> QED
      BY <2>2, <2>3, <2>4, <3>2, <3>3
  <2> QED
    BY <2>6 DEF s
<1> QED
  BY <1>1, <1>2

\* The second loop, at the position `at': ratchets come in time and fit before the event.
LEMMA RatchetTimed ==
  ASSUME NEW q \in Nat \ {0}, NEW at \in Nat, NEW from \in Nat, from + q >= at,
         NEW r \in Runtime, Timed(q, at, from, r)
  PROVE  LET s == Ratchet(at, r)
         IN s.lost = r.lost /\ s.steady = r.steady /\ Timed(q, at, at, s)
<1>1. CASE r.ratchets = 0 \/ at < r.nextRatchet
  <2>1. Ratchet(at, r) = r
    BY <1>1 DEF Ratchet
  <2>2. r.ratchets \in Nat /\ r.nextRatchet \in Nat
    BY DEF Runtime
  <2> QED
    BY <1>1, <2>1, <2>2 DEF Timed
<1>2. CASE ~(r.ratchets = 0 \/ at < r.nextRatchet)
  <2> DEFINE s == Ratchet(at, r)
  <2>1. /\ s.off = r.ratchetGate /\ s.ratchets = r.ratchets - 1 /\ s.spacing = r.spacing
        /\ s.nextRatchet = (IF r.ratchets > 1 THEN r.nextRatchet + r.spacing ELSE r.nextRatchet)
        /\ s.ratchetGate = r.ratchetGate /\ s.next = r.next /\ s.steady = r.steady /\ s.lost = r.lost
    BY <1>2 DEF Ratchet, Rise, Fall, Runtime
  <2> HIDE DEF s
  <2>2. /\ r.ratchets \in 1..7 /\ r.nextRatchet \in Nat /\ r.spacing \in Nat /\ r.next \in Nat
        /\ r.ratchetGate \in Nat \ {0}
    BY <1>2 DEF Runtime
  <2>8. CASE ~r.steady
    BY <2>1, <2>8 DEF Timed, s
  <2>9. CASE r.steady
    <3> DEFINE g == r.ratchetGate * q
               k == (r.ratchets - 1) * r.spacing
    <3>4. /\ r.nextRatchet >= from /\ r.spacing >= q
          /\ r.nextRatchet + k + g < r.next /\ at >= r.nextRatchet
      BY <1>2, <2>2, <2>9 DEF Timed
    <3>5. g \in Nat /\ k \in Nat /\ (s.off - 1) * q = g - q
      BY <2>1, <2>2
    <3>6. at + (s.off - 1) * q < s.next
      <4> HIDE DEF g, k
      <4> QED
        BY <2>1, <2>2, <3>4, <3>5
    <3>7. s.ratchets > 0 => /\ s.nextRatchet >= at /\ s.spacing >= q
                            /\ s.nextRatchet + (s.ratchets - 1) * s.spacing + s.ratchetGate * q < s.next
      <4> SUFFICES ASSUME s.ratchets > 0
                   PROVE  /\ s.nextRatchet >= at /\ s.spacing >= q
                          /\ s.nextRatchet + (s.ratchets - 1) * s.spacing + s.ratchetGate * q < s.next
        OBVIOUS
      <4>1. r.ratchets > 1 /\ s.nextRatchet = r.nextRatchet + r.spacing
        BY <2>1, <2>2
      <4>2. (s.ratchets - 1) * s.spacing + r.spacing = k /\ (s.ratchets - 1) * s.spacing \in Int
        BY <2>1, <2>2
      <4>3. s.ratchetGate * q = g
        BY <2>1
      <4> HIDE DEF g, k
      <4> QED
        BY <2>1, <2>2, <3>4, <3>5, <4>1, <4>2, <4>3
    <3> QED
      BY <2>1, <3>6, <3>7 DEF Timed, s
  <2> QED
    BY <2>8, <2>9
<1> QED
  BY <1>1, <1>2

\* What the steps of an event leave of the gate and its history.
LEMMA MovedFields ==
  ASSUME NEW ch \in Channel, NEW r \in Runtime
  PROVE  LET s == Moved(ch, r)
         IN /\ s \in Runtime /\ s.high = r.high /\ s.off = r.off /\ ~s.tie /\ s.ratchets = 0
            /\ s.steady = r.steady /\ s.lost = r.lost
<1>1. Moved(ch, r) \in Runtime
  BY MovedType DEF Event
<1> QED
  BY <1>1 DEF Moved, Runtime

LEMMA HitFields ==
  ASSUME NEW r \in Runtime, NEW up \in Runtime
  PROVE  LET s == Hit(r, up)
         IN /\ s \in Runtime /\ s.steady /\ s.tie = up.tie /\ s.ratchets = up.ratchets
            /\ s.lost <=> (up.lost \/ (r.high /\ r.steady /\ ~r.tie))
<1>1. Hit(r, up) \in Runtime
  BY HitType
<1> QED
  BY <1>1 DEF Hit, Runtime

LEMMA ScheduledFields ==
  ASSUME NEW h \in Runtime, NEW g, NEW k, NEW sp, NEW t
  PROVE  /\ Tied(h).tie /\ Tied(h).lost = h.lost /\ Tied(h).ratchets = h.ratchets
         /\ Single(h, g).off = g /\ Single(h, g).lost = h.lost /\ Single(h, g).ratchets = h.ratchets
         /\ LET s == Several(h, g, k, sp, t)
            IN /\ s.off = g /\ s.lost = h.lost /\ s.ratchets = k /\ s.spacing = sp
               /\ s.nextRatchet = t /\ s.ratchetGate = g
BY DEF Tied, Single, Several, Runtime

\* s, which was r, has lost no onset, and its gate and ratchets are over within the span.
FitsSpan(q, span, r, s) ==
  /\ s.lost = r.lost
  /\ s.high /\ s.steady /\ ~s.tie => s.off * q < span
  /\ s.ratchets > 0 => /\ s.nextRatchet = r.next + s.spacing /\ s.spacing >= q
                       /\ s.ratchets * s.spacing + s.ratchetGate * q < span

\* An event that finds no steady gate HIGH keeps its onset, and schedules a gate and
\* ratchets that are over before the next event.
LEMMA FireSound ==
  ASSUME NEW ch \in Channel, NEW p \in Pattern, NEW x \in [Step -> StepMeta],
         NEW q \in Nat \ {0}, NEW passes, NEW r \in Runtime, ~(r.high /\ r.steady /\ ~r.tie),
         NEW span \in Nat, span > q, Position(ch, q, r.epoch, r.serial + 1) = r.next + span
  PROVE  FitsSpan(q, span, r, Fire(ch, p, x, q, passes, r))
<1> DEFINE meta  == MetaOf(ch, p, x, r)
           moved == Moved(ch, r)
           hit   == Plays(ch, p, r) /\ ~ch.muted /\ (passes \/ Sure(ch, meta))
           after == Position(ch, q, r.epoch, r.serial + 1)
           ticks == (span + q - 1) \div q
           ratchets == Lower(meta.ratchets, Upper(ticks \div 2, 1))
           sub   == Upper(ticks \div ratchets, 1)
           gate  == GateTicks(ch, meta, sub, ratchets)
           up    == Rise(IF r.tie /\ ratchets > 1 THEN Fall(moved) ELSE moved)
           hitOf == Hit(r, up)
           spacing == Upper(span \div ratchets, q)
           fired == Fire(ch, p, x, q, passes, r)
           quiet == IF r.tie THEN Fall(moved) ELSE moved
<1>1. span = IF after > r.next THEN after - r.next ELSE q
  BY DEF Runtime
<1>2. fired = IF ~hit THEN quiet
              ELSE IF TiesOn(ch, p, x, meta, ratchets, r.serial) THEN Tied(hitOf)
              ELSE IF ratchets = 1 THEN Single(hitOf, gate)
              ELSE Several(hitOf, gate, ratchets - 1, spacing, r.next + spacing)
  BY <1>1 DEF Fire, Moved, Hit, Tied, Single, Several
<1>3. meta \in StepMeta
  BY MetaOfType
<1>4. /\ ratchets \in 1..8 /\ gate \in Nat \ {0} /\ spacing \in Nat /\ spacing >= q
      /\ gate * q < span
      /\ (ratchets - 1) * spacing + gate * q < span
  <2> HIDE DEF meta
  <2> QED
    BY <1>3, GateFits
<1>5. /\ moved \in Runtime /\ moved.high = r.high /\ ~moved.tie /\ moved.ratchets = 0
      /\ moved.steady = r.steady /\ moved.lost = r.lost
  BY MovedFields
<1> HIDE DEF moved, gate, spacing
<1>6. Fall(moved) \in Runtime /\ ~Fall(moved).high /\ Fall(moved).ratchets = 0 /\ Fall(moved).lost = r.lost
      /\ ~Fall(moved).tie
  BY <1>5, FallType, FallFields
<1>7. up \in Runtime /\ up.lost = r.lost /\ up.ratchets = 0 /\ ~up.tie
  BY <1>5, <1>6, RiseType, RiseFields
<1> HIDE DEF up
<1>8. hitOf \in Runtime /\ hitOf.lost = r.lost /\ hitOf.ratchets = 0
  <2>1. /\ hitOf \in Runtime /\ hitOf.ratchets = up.ratchets
        /\ hitOf.lost <=> (up.lost \/ (r.high /\ r.steady /\ ~r.tie))
    BY <1>7, HitFields
  <2>2. hitOf.lost \in BOOLEAN /\ up.lost \in BOOLEAN
    BY <1>7, <2>1 DEF Runtime
  <2> HIDE DEF hitOf
  <2>3. hitOf.lost = up.lost
    BY <2>1, <2>2, Zenon
  <2> QED
    BY <1>7, <2>1, <2>3
<1> HIDE DEF hitOf, fired, ratchets, hit
<1>9. FitsSpan(q, span, r, quiet)
  <2>1. ~(moved.high /\ moved.steady) \/ r.tie
    BY <1>5
  <2> QED
    BY <1>5, <1>6, <2>1 DEF FitsSpan
<1>10. FitsSpan(q, span, r, Tied(hitOf))
  BY <1>8, ScheduledFields DEF FitsSpan
<1>11. FitsSpan(q, span, r, Single(hitOf, gate))
  BY <1>4, <1>8, ScheduledFields DEF FitsSpan
<1>12. FitsSpan(q, span, r, Several(hitOf, gate, ratchets - 1, spacing, r.next + spacing))
  BY <1>4, <1>8, ScheduledFields DEF FitsSpan
<1> HIDE DEF quiet
<1>13. FitsSpan(q, span, r, fired)
  BY <1>2, <1>9, <1>10, <1>11, <1>12, Zenon
<1> QED
  BY <1>13 DEF fired

\* One pass of the event loop at a position one tick past `m': what is due keeps its onset,
\* and nothing is due any more.
LEMMA FireOnset ==
  ASSUME Roomy, NEW c \in Channels, NEW ch \in Offered(c), ch.mode # "Off", NEW q \in AllTempos,
         NEW p \in Pattern, NEW x \in [Step -> StepMeta], NEW drops,
         NEW m \in Nat, NEW at, at = m + q,
         NEW r \in Runtime, ~r.lost, HasEnd(ch, r), Timely(ch, q, m, r), Timed(q, at, at, r)
  PROVE  LET s == FireDue(ch, p, x, q, at, drops, r)
         IN s \in Runtime /\ ~s.lost /\ s.next > at /\ Timely(ch, q, at, s) /\ Timed(q, at, at, s)
<1>1. ch \in Channel /\ q \in Nat \ {0} /\ at \in Nat
  BY OfferedType, TempoType DEF Offered
<1>2. /\ r.next >= m /\ r.next = Position(ch, q, r.epoch, r.serial)
      /\ r.next \in Nat /\ r.serial \in Nat /\ r.epoch \in Nat /\ r.off \in Nat
  BY DEF Timely, Runtime
<1>3. CASE at < r.next
  <2>1. FireDue(ch, p, x, q, at, drops, r) = r
    BY <1>3 DEF FireDue
  <2>2. Timely(ch, q, at, r)
    BY <1>1, <1>2, <1>3 DEF Timely
  <2> QED
    BY <1>1, <1>2, <1>3, <2>1, <2>2
<1>4. CASE ~(at < r.next)
  <2> DEFINE after == Position(ch, q, r.epoch, r.serial + 1)
             span  == after - r.next
             fired == Fire(ch, p, x, q, r.serial \notin drops, r)
             s == FireDue(ch, p, x, q, at, drops, r)
  <2>1. ~(r.high /\ r.steady /\ ~r.tie)
    <3> SUFFICES ASSUME r.high, r.steady, ~r.tie PROVE FALSE
      OBVIOUS
    <3>1. r.off > 0 /\ at + (r.off - 1) * q < r.next
      BY DEF HasEnd, Timed
    <3>2. (r.off - 1) * q \in Nat
      BY <1>1, <1>2, <3>1
    <3> QED
      BY <1>1, <1>2, <1>4, <3>1, <3>2
  <2>2. after \in Nat /\ after > r.next + q
    <3>1. after \in Nat
      <4>1. r.serial + 1 \in Nat
        BY <1>2
      <4> QED
        BY <1>1, <1>2, <4>1, PositionType
    <3>2. after > Position(ch, q, r.epoch, r.serial) + q
      BY <1>2, EventsApart
    <3> QED
      BY <1>2, <3>1, <3>2
  <2>3. s = [fired EXCEPT !.serial = @ + 1, !.next = after]
    BY <1>4 DEF FireDue
  <2>4. fired \in Runtime /\ fired.serial = r.serial /\ fired.epoch = r.epoch
    BY <1>1, FireType DEF Event, SameEvent
  <2>5. s \in Runtime
    BY <1>1, FireDueType DEF Keeps
  <2> HIDE DEF after
  <2>6. span \in Nat /\ span > q /\ after = r.next + span
    BY <1>1, <1>2, <2>2
  <2>7. FitsSpan(q, span, r, fired)
    <3> HIDE DEF span
    <3> QED
      BY <1>1, <2>1, <2>6, FireSound DEF after
  <2> HIDE DEF span, fired, s
  <2>8. /\ s.next = after /\ s.serial = r.serial + 1 /\ s.epoch = r.epoch /\ SameSound(s, fired)
    BY <2>3, <2>4 DEF Runtime, SameSound
  <2>9. s.next > at /\ Timely(ch, q, at, s)
    <3>1. s.next > at
      BY <1>1, <1>2, <2>2, <2>8
    <3>2. s.next = Position(ch, q, s.epoch, s.serial)
      BY <2>8 DEF after
    <3> QED
      BY <1>1, <2>2, <2>8, <3>1, <3>2 DEF Timely
  <2>10. ASSUME s.high, s.steady, ~s.tie, s.off > 0
         PROVE  at + (s.off - 1) * q < s.next
    <3> DEFINE g == s.off * q
    <3>1. s.off \in Nat
      BY <2>5 DEF Runtime
    <3>2. g < span
      BY <2>7, <2>8, <2>10 DEF SameSound, FitsSpan
    <3>3. (s.off - 1) * q = g - q /\ g \in Nat
      BY <1>1, <3>1
    <3> HIDE DEF g
    <3> QED
      BY <1>1, <1>2, <2>6, <2>8, <3>2, <3>3
  <2>11. ASSUME s.ratchets > 0
         PROVE  /\ s.nextRatchet >= at /\ s.spacing >= q
                /\ s.nextRatchet + (s.ratchets - 1) * s.spacing + s.ratchetGate * q < s.next
    <3> DEFINE k == s.ratchets * s.spacing
               g == s.ratchetGate * q
    <3>1. s.ratchets \in 1..7 /\ s.spacing \in Nat /\ s.ratchetGate \in Nat \ {0}
      BY <2>5, <2>11 DEF Runtime
    <3>2. s.nextRatchet = r.next + s.spacing /\ s.spacing >= q /\ k + g < span
      BY <2>7, <2>8, <2>11 DEF SameSound, FitsSpan
    <3>3. (s.ratchets - 1) * s.spacing = k - s.spacing /\ k \in Nat /\ g \in Nat
      BY <1>1, <3>1
    <3> HIDE DEF k
    <3>4. r.next + s.spacing + (k - s.spacing) + g < s.next
      <4> HIDE DEF g
      <4> QED
        BY <1>2, <2>6, <2>8, <3>1, <3>2, <3>3
    <3>5. s.nextRatchet >= at
      BY <1>1, <1>2, <3>1, <3>2
    <3> QED
      BY <3>2, <3>3, <3>4, <3>5
  <2>12. ~s.lost
    BY <2>7, <2>8 DEF SameSound, FitsSpan
  <2>13. Timed(q, at, at, s)
    BY <2>10, <2>11 DEF Timed
  <2> QED
    BY <2>5, <2>9, <2>12, <2>13 DEF s
<1> QED
  BY <1>3, <1>4

\* A tick serves a channel: every ratchet and event due comes, and none finds a gate of
\* the event before it.
LEMMA ServeOnset ==
  ASSUME Roomy, NEW c \in Channels, NEW ch \in Offered(c), NEW q \in AllTempos,
         NEW p \in Pattern, NEW x \in [Step -> StepMeta], NEW drops,
         NEW m \in Nat, NEW at, at = m + q,
         NEW r \in Runtime, HasEnd(ch, r), Onset(ch, q, m, r), Timed(q, at, m, r)
  PROVE  Onset(ch, q, at, Serve(ch, p, x, q, at, drops, r))
<1> DEFINE R(s) == Ratchet(at, s)
           F(s) == FireDue(ch, p, x, q, at, drops, s)
           K(s) == /\ s \in Runtime /\ SameGrid(s, r) /\ s.lost = r.lost /\ s.steady = r.steady
                   /\ HasEnd(ch, s) /\ Timed(q, at, at, s)
           L(s) == /\ s \in Runtime /\ ~s.lost /\ s.next > at
                   /\ Timely(ch, q, at, s) /\ Timed(q, at, at, s)
           ratcheted == R(R(R(R(R(R(R(r)))))))
<1>1. ch \in Channel /\ q \in Nat \ {0} /\ at \in Nat
  BY OfferedType, TempoType DEF Offered
<1>2. K(R(r))
  <2>1. LET s == Ratchet(at, r)
        IN s.lost = r.lost /\ s.steady = r.steady /\ Timed(q, at, at, s)
    BY <1>1, RatchetTimed
  <2> QED
    BY <1>1, <2>1, RatchetType
<1>3. ASSUME NEW s, K(s) PROVE K(R(s))
  <2>1. LET t == Ratchet(at, s)
        IN t.lost = s.lost /\ t.steady = s.steady /\ Timed(q, at, at, t)
    <3>1. s \in Runtime /\ Timed(q, at, at, s) /\ at + q >= at
      BY <1>1, <1>3
    <3> QED
      BY <1>1, <3>1, RatchetTimed
  <2>2. R(s) \in Runtime /\ SameGrid(R(s), s) /\ HasEnd(ch, R(s))
    BY <1>1, <1>3, RatchetType
  <2> QED
    BY <1>3, <2>1, <2>2, SameGridTransitive
<1>4. K(ratcheted)
  <2> HIDE DEF K, R
  <2> QED
    BY <1>2, <1>3
<1>5. Serve(ch, p, x, q, at, drops, r)
        = IF ch.mode = "Off" THEN Fall(ratcheted) ELSE F(F(F(F(F(F(F(F(ratcheted))))))))
  BY DEF Serve, SevenTimes, EightTimes
<1> HIDE DEF ratcheted
<1>6. CASE ch.mode = "Off"
  <2>1. ~ratcheted.steady /\ ~ratcheted.lost
    BY <1>4, <1>6 DEF Onset
  <2>2. ~Fall(ratcheted).steady /\ ~Fall(ratcheted).lost
    BY <1>4, <2>1, FallFields
  <2> QED
    BY <1>5, <1>6, <2>2 DEF Onset, Timely, Timed
<1>7. CASE ch.mode # "Off"
  <2>1. L(F(ratcheted))
    <3>1. ratcheted \in Runtime /\ ~ratcheted.lost /\ HasEnd(ch, ratcheted) /\ Timed(q, at, at, ratcheted)
      BY <1>4 DEF Onset
    <3>2. Timely(ch, q, m, ratcheted)
      BY <1>4 DEF Onset, Timely, SameGrid
    <3> QED
      BY <1>7, <3>1, <3>2, FireOnset
  <2>2. ASSUME NEW s, L(s) PROVE L(F(s))
    <3>1. F(s) = s
      <4>1. at < s.next
        <5>1. s.next > at /\ s.next \in Nat
          BY <2>2 DEF Runtime
        <5> QED
          BY <1>1, <5>1
      <4>2. FireDue(ch, p, x, q, at, drops, s) = s
        <5> HIDE DEF L, F
        <5> QED
          BY <4>1, Zenon DEF FireDue
      <4> QED
        BY <4>2
    <3> QED
      BY <2>2, <3>1
  <2>3. L(F(F(F(F(F(F(F(F(ratcheted)))))))))
    <3> HIDE DEF L, F
    <3> QED
      BY <2>1, <2>2
  <2>4. \A s : L(s) => Onset(ch, q, at, s)
    BY <1>7 DEF Onset
  <2> HIDE DEF L, F
  <2> QED
    BY <1>5, <1>7, <2>3, <2>4 DEF F
<1> QED
  BY <1>6, <1>7
-----------------------------------------------------------------------------
(* What calls and edits do to an onset still to come.                         *)

\* s, which was r, is on the same event, and whatever is left of its gate was there before.
Quieter(s, r) ==
  /\ SameEvent(s, r) /\ s.lost = r.lost
  /\ s.steady => /\ r.steady
                 /\ s.high /\ ~s.tie => r.high /\ ~r.tie /\ s.off = r.off
                 /\ s.ratchets > 0 => /\ s.ratchets = r.ratchets /\ s.nextRatchet = r.nextRatchet
                                      /\ s.spacing = r.spacing /\ s.ratchetGate = r.ratchetGate

LEMMA QuieterOnset ==
  ASSUME NEW ch, NEW q, NEW at, NEW r, NEW s, Onset(ch, q, at, r), Quieter(s, r)
  PROVE  Onset(ch, q, at, s)
<1>1. ~s.lost /\ (s.steady => ch.mode # "Off")
  BY DEF Onset, Quieter
<1>2. Timely(ch, q, at, s)
  BY DEF Onset, Timely, Quieter, SameEvent
<1>3. Timed(q, at, at, s)
  BY DEF Onset, Timed, Quieter, SameEvent
<1> QED
  BY <1>1, <1>2, <1>3 DEF Onset

LEMMA QuieterOps ==
  ASSUME NEW r \in Runtime
  PROVE  /\ Quieter(r, r) /\ Quieter(Fall(r), r) /\ Quieter(Cut(r), r)
         /\ Quieter(EndTie(r), r) /\ Quieter(Unsteady(r), r)
<1>1. Quieter(r, r)
  BY DEF Quieter, SameEvent
<1>2. Quieter(Fall(r), r)
  BY FallFields, FallType DEF Quieter, SameEvent, SameGrid
<1>3. Quieter(Cut(r), r)
  BY DEF Cut, Fall, Quieter, SameEvent, Runtime
<1>4. Quieter(EndTie(r), r)
  BY DEF EndTie, Fall, Quieter, SameEvent, Runtime
<1>5. Quieter(Unsteady(r), r)
  BY DEF Unsteady, Quieter, SameEvent, Runtime
<1> QED
  BY <1>1, <1>2, <1>3, <1>4, <1>5

\* A rescheduled channel awaits an event ahead.
LEMMA RescheduleTimely ==
  ASSUME NEW ch \in Channel, NEW p \in Pattern, NEW q \in Nat \ {0}, NEW e \in Nat,
         NEW at \in Nat, NEW boundary, NEW r \in Runtime
  PROVE  LET s == Reschedule(ch, p, q, e, at, boundary, r)
         IN SameSound(s, r) /\ Timely(ch, q, at, s)
<1> DEFINE s == Reschedule(ch, p, q, e, at, boundary, r)
<1>1. PICK from \in Nat, n \in Nat, k \in Nat : Rescheduled(ch, q, e, at, r, s, from, n, k)
  BY RescheduleType
<1> HIDE DEF s
<1>2. /\ SameSound(s, r)
      /\ s.epoch = from /\ s.serial = n /\ s.next = Position(ch, q, from, n)
  BY <1>1 DEF Rescheduled, SameSound, Runtime
<1>3. Position(ch, q, from, n) >= at
  BY <1>1 DEF Rescheduled
<1>4. SameSound(s, r) /\ Timely(ch, q, at, s)
  BY <1>2, <1>3 DEF Timely
<1> QED
  BY <1>4 DEF s

LEMMA SyncStepSound ==
  ASSUME NEW ch \in Channel, NEW p \in Pattern, NEW r \in Runtime
  PROVE  LET s == SyncStep(ch, p, r)
         IN SameSound(s, r) /\ SameEvent(s, r)
BY SyncStepType DEF SyncStep, SameSound, SameEvent, Runtime

\* An edit of a gate no longer steady: a channel that was timely, or that is rescheduled, is so.
LEMMA EditOnset ==
  ASSUME NEW ch \in Channel, NEW p \in Pattern, NEW q \in Nat \ {0}, NEW e \in Nat,
         NEW at \in Nat, NEW boundary, NEW resched, NEW r \in Runtime, ~r.steady, ~r.lost,
         ~resched => Timely(ch, q, at, r)
  PROVE  Onset(ch, q, at, SyncStep(ch, p, IF resched THEN Reschedule(ch, p, q, e, at, boundary, r) ELSE r))
<1> DEFINE m == IF resched THEN Reschedule(ch, p, q, e, at, boundary, r) ELSE r
           s == SyncStep(ch, p, m)
<1>1. m \in Runtime /\ SameSound(m, r) /\ Timely(ch, q, at, m)
  <2>1. CASE resched
    BY <2>1, ReschedulePlaces, RescheduleTimely
  <2>2. CASE ~resched
    BY <2>2 DEF SameSound
  <2> QED
    BY <2>1, <2>2
<1> HIDE DEF m
<1>2. SameSound(s, m) /\ SameEvent(s, m)
  BY <1>1, SyncStepSound
<1> HIDE DEF s
<1>3. ~s.steady /\ ~s.lost
  BY <1>1, <1>2 DEF SameSound
<1>4. Timely(ch, q, at, s)
  BY <1>1, <1>2 DEF Timely, SameEvent
<1>5. Onset(ch, q, at, s)
  BY <1>3, <1>4 DEF Onset, Timed
<1> QED
  BY <1>5 DEF s, m

\* A reset keeps the history of a gate it ends.
LEMMA ResetOnset ==
  ASSUME NEW ch \in Channel, NEW p \in Pattern, NEW q \in Nat \ {0}, NEW at \in Nat,
         NEW r \in Runtime, Onset(ch, q, at, r)
  PROVE  Onset(ch, q, at, ResetChannel(ch, p, q, at, r))
<1>1. CASE ~ch.global
  <2>1. ResetChannel(ch, p, q, at, r) = Fall(r)
    BY <1>1 DEF ResetChannel
  <2> QED
    BY <2>1, QuieterOps, QuieterOnset
<1>2. CASE ch.global
  <2> DEFINE cutOff == Cut(Fall(r))
             a == [cutOff EXCEPT !.epoch = at]
             b == [a EXCEPT !.step = 0]
             zero == [cutOff EXCEPT !.epoch = at, !.step = 0, !.serial = 0]
             s == Reschedule(ch, p, q, at, at, TRUE, zero)
  <2>1. ResetChannel(ch, p, q, at, r) = s
    BY <1>2 DEF ResetChannel
  <2>2. /\ cutOff \in Runtime /\ ~cutOff.high /\ cutOff.ratchets = 0
        /\ cutOff.steady = r.steady /\ cutOff.lost = r.lost
    BY FallType, FallFields, CutFields, GateOps
  <2> HIDE DEF cutOff
  <2>3. zero = [b EXCEPT !.serial = 0] /\ ~zero.high /\ zero.ratchets = 0
        /\ zero.steady = r.steady /\ zero.lost = r.lost
    BY <2>2 DEF Runtime
  <2>4. a \in Runtime
    BY <2>2, FieldType
  <2> HIDE DEF a
  <2>5. b \in Runtime
    BY <2>4, FieldType
  <2> HIDE DEF b
  <2>6. zero \in Runtime
    <3> HIDE DEF zero
    <3> QED
      BY <2>3, <2>5, FieldType
  <2> HIDE DEF zero
  <2>7. SameSound(s, zero) /\ Timely(ch, q, at, s)
    BY <2>6, RescheduleTimely
  <2> HIDE DEF s
  <2>8. Timed(q, at, at, s) /\ ~s.lost /\ s.steady = r.steady
    BY <2>3, <2>7 DEF Timed, SameSound, Onset
  <2> QED
    BY <2>1, <2>7, <2>8 DEF Onset
<1> QED
  BY <1>1, <1>2

\* An edited channel is timely if it was, or if it is rescheduled.
LEMMA EditedOnset ==
  ASSUME TypesInv, NEW ch \in Channel, NEW p \in Pattern, NEW q \in Nat \ {0}, NEW resched,
         NEW r \in Runtime, ~r.lost, ~resched => Timely(ch, q, master, r)
  PROVE  Onset(ch, q, master, Edited(ch, p, q, resched, r))
<1> DEFINE silent == Silence(ch, r)
           quiet  == Unsteady(silent)
<1>1. silent \in Runtime /\ Quieter(silent, r)
  BY FallType, QuieterOps DEF Silence
<1> HIDE DEF silent
<1>2. /\ quiet \in Runtime /\ ~quiet.steady /\ quiet.lost = r.lost
      /\ ~resched => Timely(ch, q, master, quiet)
  <2>1. quiet \in Runtime /\ SameGrid(quiet, silent) /\ ~quiet.steady /\ quiet.lost = silent.lost
    BY <1>1, GateOps, UnsteadyFields
  <2> QED
    BY <1>1, <2>1 DEF Quieter, SameEvent, SameGrid, Timely
<1> HIDE DEF quiet
<1>3. epoch \in Nat /\ master \in Nat
  BY InForce
<1>4. Onset(ch, q, master, SyncStep(ch, p, IF resched THEN Reschedule(ch, p, q, epoch, master, restart, quiet) ELSE quiet))
  BY <1>2, <1>3, EditOnset
<1> QED
  BY <1>4 DEF Edited, quiet, silent

\* The position of an event does not depend on the tempo, nor do gates no longer steady.
LEMMA OnsetTempo ==
  ASSUME NEW c \in Channels, NEW ch \in Offered(c), NEW q1 \in AllTempos, NEW q2 \in AllTempos,
         NEW at, NEW r, Onset(ch, q1, at, r), q1 = q2 \/ ~r.steady
  PROVE  Onset(ch, q2, at, r)
<1>1. Position(ch, q1, r.epoch, r.serial) = Position(ch, q2, r.epoch, r.serial)
  BY TempoFree
<1> QED
  BY <1>1 DEF Onset, Timely, Timed

LEMMA TimelySame ==
  ASSUME NEW a, NEW b, SameTiming(a, b), NEW q, NEW at, NEW r, Timely(b, q, at, r)
  PROVE  Timely(a, q, at, r)
<1>1. /\ a.mode = b.mode /\ a.num = b.num /\ a.den = b.den /\ a.phase = b.phase /\ a.swing = b.swing
  BY DEF SameTiming
<1>2. \A n : Position(a, q, r.epoch, n) = Position(b, q, r.epoch, n)
  BY <1>1 DEF Position, Nominal, BaseOffset, SwingDelta
<1> QED
  BY <1>1, <1>2 DEF Timely

\* The first loop of a tick.
LEMMA AgedOnset ==
  ASSUME NEW ch, NEW q \in Nat \ {0}, NEW at \in Nat, NEW r \in Runtime, Onset(ch, q, at, r)
  PROVE  Onset(ch, q, at, Age(r)) /\ Timed(q, at + q, at, Age(r))
<1>1. Timed(q, at, at, r)
  BY DEF Onset
<1>2. /\ Timed(q, at, at, Age(r)) /\ Timed(q, at + q, at, Age(r))
      /\ Age(r).steady = r.steady /\ Age(r).lost = r.lost
  BY <1>1, AgeTimed
<1>3. SameGrid(Age(r), r)
  <2>1. CASE r.high /\ r.off = 1
    BY <2>1, FallType DEF Age
  <2>2. CASE ~(r.high /\ r.off = 1)
    BY <2>2 DEF Age, SameGrid, Runtime
  <2> QED
    BY <2>1, <2>2
<1> QED
  BY <1>2, <1>3 DEF Onset, Timely, SameGrid
-----------------------------------------------------------------------------
(* The invariant of the onsets.                                               *)

OnsetInv == \A c \in Channels : Onset(conf.channel[c], Tempo, master, run[c])

LEMMA OnsetInit == Init => OnsetInv
<1> SUFFICES ASSUME Init, NEW c \in Channels PROVE Onset(conf.channel[c], Tempo, master, run[c])
  BY DEF OnsetInv
<1> DEFINE ch == conf.channel[c]
           r == [next |-> Position(ch, conf.tempo, 0, 0), epoch |-> 0, serial |-> 0, step |-> 0,
                 off |-> 0, high |-> FALSE, tie |-> FALSE, ratchets |-> 0, nextRatchet |-> 0,
                 spacing |-> 0, ratchetGate |-> 1, steady |-> FALSE, lost |-> FALSE]
<1>1. TypesInv
  BY InitTypes
<1>2. ch \in Channel /\ pattern[c] \in Pattern /\ Tempo \in Nat \ {0}
  BY <1>1, InForce
<1>3. Tempo = conf.tempo /\ master = 0
  BY DEF Init, Tempo, EffectiveTempo
<1>4. run[c] = SyncStep(ch, pattern[c], r)
  BY DEF Init, Idle
<1>5. Position(ch, conf.tempo, 0, 0) \in Nat
  BY <1>2, <1>3, PositionType
<1>6. /\ r \in Runtime /\ ~r.steady /\ ~r.lost /\ r.epoch = 0 /\ r.serial = 0
      /\ r.next = Position(ch, conf.tempo, 0, 0)
  BY <1>5 DEF Runtime
<1> HIDE DEF r, ch
<1>7. Timely(ch, Tempo, 0, r)
  BY <1>3, <1>5, <1>6 DEF Timely
<1>8. 0 \in Nat
  OBVIOUS
<1>9. Onset(ch, Tempo, 0, SyncStep(ch, pattern[c], IF FALSE THEN Reschedule(ch, pattern[c], Tempo, 0, 0, TRUE, r) ELSE r))
  BY <1>2, <1>6, <1>7, <1>8, EditOnset
<1> QED
  BY <1>3, <1>4, <1>9 DEF ch

\* A reset on the tempo in force.
LEMMA OnsetReset ==
  ASSUME TypesInv, NEW runs \in [Channels -> Runtime],
         \A c \in Channels : Onset(conf.channel[c], Tempo, master, runs[c]),
         run' = ResetRuns(runs, sync), master' = master, conf' = conf, sync' = sync
  PROVE  OnsetInv'
<1>1. ASSUME NEW c \in Channels
      PROVE  Onset(conf.channel[c], Tempo, master, run'[c])
  <2>1. run'[c] = ResetChannel(conf.channel[c], pattern[c], Tempo, master, runs[c])
    BY DEF ResetRuns, Tempo
  <2> QED
    BY <2>1, InForce, ResetOnset
<1>2. Tempo' = Tempo
  BY DEF Tempo
<1> QED
  BY <1>1, <1>2 DEF OnsetInv

\* A step that leaves the tempo and the channels' settings alone.
LEMMA OnsetStays ==
  ASSUME UNCHANGED <<master, conf, sync>>,
         \A c \in Channels : Onset(conf.channel[c], Tempo, master, run'[c])
  PROVE  OnsetInv'
<1>1. Tempo' = Tempo
  BY DEF Tempo
<1> QED
  BY <1>1 DEF OnsetInv

LEMMA CallOnset ==
  ASSUME TypesInv, OnsetInv,
         \/ Play \/ Pause \/ Stop \/ ResetGlobalPhase
         \/ \E high \in BOOLEAN : SetExternalResetGate(high)
  PROVE  OnsetInv'
<1>0. run \in [Channels -> Runtime] /\ \A c \in Channels : Onset(conf.channel[c], Tempo, master, run[c])
  BY DEF TypesInv, RunInv, OnsetInv
<1>1. \A c \in Channels : Onset(conf.channel[c], Tempo, master, Cut(run[c]))
  BY <1>0, QuieterOps, QuieterOnset
<1>2. CASE Play
  BY <1>0, <1>2, OnsetStays DEF Play, configVars
<1>3. CASE Pause
  BY <1>1, <1>3, OnsetStays DEF Pause, configVars
<1>4. CASE Stop
  <2> DEFINE runs == [c \in Channels |-> Cut(run[c])]
  <2>1. runs \in [Channels -> Runtime] /\ \A c \in Channels : Onset(conf.channel[c], Tempo, master, runs[c])
    BY <1>1, CutRunsType
  <2>2. run' = ResetRuns(runs, sync) /\ UNCHANGED <<master, conf, sync>>
    BY <1>4 DEF Stop, ResetTo, configVars
  <2> HIDE DEF runs
  <2> QED
    BY <2>1, <2>2, OnsetReset
<1>5. CASE ResetGlobalPhase \/ \E high \in BOOLEAN : SetExternalResetGate(high)
  BY <1>0, <1>5, OnsetReset DEF ResetGlobalPhase, SetExternalResetGate, ResetTo, configVars
<1> QED
  BY <1>2, <1>3, <1>4, <1>5

LEMMA TickOnset ==
  ASSUME TypesInv, GateInv, OnsetInv, Roomy, Tick
  PROVE  OnsetInv'
<1>0. conf' = conf /\ sync' = sync /\ Tempo' = Tempo
  BY DEF Tick, configVars, Tempo
<1>1. \A c \in Channels : /\ Onset(conf.channel[c], Tempo, master, Aged[c])
                          /\ Timed(Tempo, master + Tempo, master, Aged[c])
  BY InForce, AgedOnset DEF OnsetInv, Aged
<1>2. CASE TickIdle
  BY <1>0, <1>1, <1>2, OnsetStays DEF TickIdle
<1>3. CASE TickCount
  <2>1. (run' = Aged \/ run' = ResetRuns(Aged, sync)) /\ master' = master
    BY <1>3 DEF TickCount, ResetTo
  <2>2. CASE run' = Aged
    BY <1>0, <1>1, <2>1, <2>2, OnsetStays
  <2>3. CASE run' = ResetRuns(Aged, sync)
    BY <1>0, <1>1, <2>1, <2>3, AgedType, OnsetReset
  <2> QED
    BY <2>1, <2>2, <2>3
<1>4. CASE TickAdvance
  <2>1. master' = master + Tempo
    BY <1>4, TickAdvanceRuns
  <2>2. PICK drops : run' = [c \in Channels |->
                       Serve(conf.channel[c], pattern[c], expression[c], Tempo, master',
                             {n \in 0..MaxPosition : <<c, n>> \in drops}, Aged[c])]
    BY <1>4, <2>1 DEF TickAdvance
  <2>3. ASSUME NEW c \in Channels
        PROVE  Onset(conf.channel[c], Tempo, master', run'[c])
    <3>1. Aged[c] \in Runtime /\ HasEnd(conf.channel[c], Aged[c])
      BY AgedGates DEF GateInv
    <3>2. conf.channel[c] \in Offered(c) /\ Tempo \in AllTempos /\ pattern[c] \in Pattern
          /\ expression[c] \in [Step -> StepMeta] /\ master \in Nat
      BY InForce DEF TypesInv, ConfInv
    <3>3. run'[c] = Serve(conf.channel[c], pattern[c], expression[c], Tempo, master',
                          {n \in 0..MaxPosition : <<c, n>> \in drops}, Aged[c])
      BY <2>2
    <3>4. /\ Onset(conf.channel[c], Tempo, master, Aged[c])
          /\ Timed(Tempo, master', master, Aged[c])
      BY <1>1, <2>1
    <3> QED
      BY <2>1, <3>1, <3>2, <3>3, <3>4, ServeOnset
  <2> QED
    BY <1>0, <2>3 DEF OnsetInv
<1> QED
  BY <1>2, <1>3, <1>4 DEF Tick

LEMMA UpdateOnset ==
  ASSUME TypesInv, TypesInv', OnsetInv, Internal,
         \/ \E s \in Settings, resched \in BOOLEAN :
              \/ UpdateConfiguration(s, resched)
              \/ \E c \in Channels : UpdateChannel(c, s.channel[c], resched)
         \/ \E c \in Channels, p \in Patterns, resched \in BOOLEAN : UpdateSequencerPattern(c, p, resched)
         \/ \E c \in Channels, x \in Expressions : UpdateSequencerStepMetadata(c, x)
  PROVE  OnsetInv'
<1>0. run \in [Channels -> Runtime] /\ Tempo \in AllTempos /\ Tempo \in Nat \ {0} /\ master \in Nat
  BY InForce DEF TypesInv, RunInv
<1>1. \A c \in Channels : /\ Onset(conf.channel[c], Tempo, master, run[c])
                          /\ ~run[c].lost /\ Timely(conf.channel[c], Tempo, master, run[c])
                          /\ SameTiming(conf.channel[c], conf.channel[c])
  BY DEF OnsetInv, Onset, SameTiming
<1>2. ASSUME NEW s \in Settings, NEW resched \in BOOLEAN, UpdateConfiguration(s, resched)
      PROVE  OnsetInv'
  <2> DEFINE q == EffectiveTempo(s, sync)
  <2>1. /\ conf' = s /\ q \in Nat \ {0}
        /\ \A c \in Channels :
             /\ s.channel[c] \in Channel
             /\ run'[c] = Edited(s.channel[c], pattern[c], q, resched, run[c])
    BY <1>2, ConfigurationUpdate
  <2>2. q \in AllTempos
    BY TempoInForce DEF TypesInv, TypeOK, AllTempos
  <2>3. master' = master /\ sync' = sync /\ (resched \/ s.channel = conf.channel)
    BY <1>2 DEF UpdateConfiguration
  <2>4. Tempo' = q
    BY <2>1, <2>3 DEF Tempo
  <2> HIDE DEF q
  <2>5. ASSUME NEW c \in Channels
        PROVE  Onset(s.channel[c], q, master, run'[c])
    <3>1. ~resched => Timely(s.channel[c], q, master, run[c])
      <4> SUFFICES ASSUME ~resched PROVE Timely(s.channel[c], q, master, run[c])
        OBVIOUS
      <4>1. s.channel[c] = conf.channel[c] /\ conf.channel[c] \in Offered(c)
        BY <2>3 DEF TypesInv, ConfInv
      <4>2. \A n : Position(conf.channel[c], Tempo, run[c].epoch, n) = Position(conf.channel[c], q, run[c].epoch, n)
        <5> DEFINE ch == conf.channel[c]
        <5>1. ch \in Offered(c)
          BY <4>1
        <5> HIDE DEF ch
        <5>2. \A e, n : Position(ch, Tempo, e, n) = Position(ch, q, e, n)
          BY <1>0, <2>2, <5>1, TempoFree
        <5> QED
          BY <5>2 DEF ch
      <4> QED
        BY <1>1, <4>1, <4>2 DEF Timely
    <3>2. pattern[c] \in Pattern /\ run[c] \in Runtime
      BY InForce
    <3> QED
      BY <1>1, <2>1, <3>1, <3>2, EditedOnset
  <2> QED
    BY <2>1, <2>3, <2>4, <2>5 DEF OnsetInv
<1>3. ASSUME NEW s \in Settings, NEW resched \in BOOLEAN, NEW c \in Channels,
             UpdateChannel(c, s.channel[c], resched)
      PROVE  OnsetInv'
  <2>1. /\ \A d \in Channels : conf'.channel[d] = IF d = c THEN s.channel[c] ELSE conf.channel[d]
        /\ \A d \in Channels : run'[d] = IF d = c THEN Edited(s.channel[c], pattern[c], Tempo, resched, run[c])
                                         ELSE run[d]
        /\ s.channel[c] \in Channel
    BY <1>3, ChannelUpdate
  <2>2. /\ conf' = [conf EXCEPT !.channel[c] = s.channel[c]] /\ sync' = sync /\ master' = master
        /\ resched \/ SameTiming(s.channel[c], conf.channel[c])
    BY <1>3 DEF UpdateChannel
  <2>3. Tempo' = Tempo
    <3>1. conf'.source = conf.source /\ conf'.loss = conf.loss /\ conf'.tempo = conf.tempo
      BY <2>2 DEF TypesInv, ConfInv, Setting
    <3> QED
      BY <2>2, <3>1 DEF Tempo, EffectiveTempo
  <2>4. Onset(s.channel[c], Tempo, master, run'[c])
    <3>1. ~resched => Timely(s.channel[c], Tempo, master, run[c])
      BY <1>1, <2>2, TimelySame
    <3>2. pattern[c] \in Pattern /\ run[c] \in Runtime
      BY InForce
    <3> QED
      BY <1>0, <1>1, <2>1, <3>1, <3>2, EditedOnset
  <2> QED
    BY <1>1, <2>1, <2>2, <2>3, <2>4 DEF OnsetInv
<1>4. ASSUME NEW c \in Channels, NEW p \in Patterns, NEW resched \in BOOLEAN,
             UpdateSequencerPattern(c, p, resched)
      PROVE  OnsetInv'
  <2> DEFINE ch == conf.channel[c]
             quiet == Unsteady(EndTie(run[c]))
  <2>1. p \in Pattern /\ run[c] \in Runtime /\ ch \in Channel /\ epoch \in Nat
    BY <1>0, InForce, SettingsAssumption
  <2>2. UNCHANGED <<master, conf, sync>> /\ \A d \in Channels \ {c} : run'[d] = run[d]
    BY <1>0, <1>4 DEF UpdateSequencerPattern
  <2>3. run'[c] = SyncStep(ch, p, IF resched THEN Reschedule(ch, p, Tempo, epoch, master, restart, quiet) ELSE quiet)
    BY <1>0, <1>4 DEF UpdateSequencerPattern
  <2>4. quiet \in Runtime /\ ~quiet.steady /\ ~quiet.lost /\ Timely(ch, Tempo, master, quiet)
    <3>1. EndTie(run[c]) \in Runtime /\ Quieter(EndTie(run[c]), run[c])
      BY <2>1, GateOps, QuieterOps
    <3>2. /\ quiet \in Runtime /\ SameGrid(quiet, EndTie(run[c]))
          /\ ~quiet.steady /\ quiet.lost = EndTie(run[c]).lost
      BY <2>1, <3>1, GateOps, UnsteadyFields
    <3> QED
      BY <1>1, <3>1, <3>2 DEF Quieter, SameEvent, SameGrid, Timely
  <2> HIDE DEF ch, quiet
  <2>5. Onset(ch, Tempo, master, run'[c])
    BY <1>0, <2>1, <2>3, <2>4, EditOnset
  <2>6. \A d \in Channels : Onset(conf.channel[d], Tempo, master, run'[d])
    BY <1>1, <2>2, <2>5 DEF ch
  <2> QED
    BY <2>2, <2>6, OnsetStays
<1>5. ASSUME NEW c \in Channels, NEW x \in Expressions, UpdateSequencerStepMetadata(c, x)
      PROVE  OnsetInv'
  <2>1. run'[c] = EndTie(run[c]) /\ \A d \in Channels \ {c} : run'[d] = run[d]
    BY <1>0, <1>5 DEF UpdateSequencerStepMetadata
  <2>2. UNCHANGED <<master, conf, sync>>
    BY <1>5 DEF UpdateSequencerStepMetadata
  <2>3. Onset(conf.channel[c], Tempo, master, run'[c])
    BY <1>0, <1>1, <2>1, QuieterOps, QuieterOnset
  <2> QED
    BY <1>1, <2>1, <2>2, <2>3, OnsetStays
<1> QED
  BY <1>2, <1>3, <1>4, <1>5

LEMMA OnsetStep ==
  ASSUME TypesInv, GateInv, OnsetInv, Internal, Roomy, [Next]_vars
  PROVE  OnsetInv'
<1>0. TypesInv' /\ Tempos = {}
  BY TypesStep DEF Internal
<1>1. CASE Tick BY <1>1, TickOnset
<1>2. CASE \/ Play \/ Pause \/ Stop \/ ResetGlobalPhase
           \/ \E high \in BOOLEAN : SetExternalResetGate(high)
  BY <1>2, CallOnset
<1>3. CASE \/ \E s \in Settings, resched \in BOOLEAN :
                \/ UpdateConfiguration(s, resched)
                \/ \E c \in Channels : UpdateChannel(c, s.channel[c], resched)
           \/ \E c \in Channels, p \in Patterns, resched \in BOOLEAN : UpdateSequencerPattern(c, p, resched)
           \/ \E c \in Channels, x \in Expressions : UpdateSequencerStepMetadata(c, x)
  BY <1>0, <1>3, UpdateOnset
<1>4. CASE UNCHANGED vars
  <2>1. UNCHANGED <<master, conf, sync>> /\ run' = run
    BY <1>4 DEF vars, configVars
  <2> QED
    BY <2>1, OnsetStays DEF OnsetInv
<1>5. ~ \E tempo \in Tempos : Pulse(tempo) \/ LoseLock(tempo) \/ UpdateMasterTempo(tempo)
  BY <1>0
<1> QED
  BY <1>1, <1>2, <1>3, <1>4, <1>5, Zenon DEF Next

\* On the internal clock no gate swallows the next onset, whatever the swing, the duty, the
\* ratchets and the ties, and whatever is edited in between: every gate timed on the grid in
\* force ends a tick or more before the next event, and its last ratchet does.  External
\* pulses may move an event into a gate, which is why this theorem leaves them out.
THEOREM OnsetsAlwaysKept ==
  ASSUME Internal, Roomy
  PROVE  Spec => []OnsetsKept
<1>1. Init => TypesInv /\ GateInv /\ OnsetInv
  BY InitTypes, GateInit, OnsetInit
<1>2. TypesInv /\ GateInv /\ OnsetInv /\ [Next]_vars => (TypesInv /\ GateInv /\ OnsetInv)'
  BY TypesStep, GateStep, OnsetStep
<1>3. OnsetInv => OnsetsKept
  BY DEF OnsetInv, OnsetsKept, Onset
<1> QED
  BY <1>1, <1>2, <1>3, PTL DEF Spec

-----------------------------------------------------------------------------
(* EventGrid: where the events of a channel fall.  Its constants and variables *)
(* have names of their own here, so that its theorems stand beside ClockEngine's. *)

CONSTANTS GridOne, TickUs, MaxHumanize, Configurations, MaxSerial
VARIABLES config, interrupts, reached, fraction, number, upcoming, preceding, inTick

Grid == INSTANCE EventGrid WITH
  One <- GridOne, ticks <- interrupts, master <- reached, remainder <- fraction,
  serial <- number, next <- upcoming, previous <- preceding, guard <- inTick

\* Products keep the order of their factors.
LEMMA TimesKeepsOrder ==
  ASSUME NEW a \in Int, NEW b \in Int, NEW k \in Nat, a <= b
  PROVE  a * k <= b * k
<1>1. b - a \in Nat /\ (b - a) * k \in Nat
  OBVIOUS
<1>2. (b - a) * k = b * k - a * k
  OBVIOUS
<1> QED
  BY <1>1, <1>2

LEMMA TimesReflectsOrder ==
  ASSUME NEW a \in Int, NEW b \in Int, NEW k \in Nat \ {0}, a * k < b * k
  PROVE  a < b
<1> SUFFICES ASSUME b <= a PROVE FALSE
  OBVIOUS
<1>1. b * k <= a * k
  BY TimesKeepsOrder
<1> QED
  BY <1>1

LEMMA TimesReflectsWeakOrder ==
  ASSUME NEW a \in Int, NEW b \in Int, NEW k \in Nat \ {0}, a * k <= b * k
  PROVE  a <= b
<1> SUFFICES ASSUME b + 1 <= a PROVE FALSE
  OBVIOUS
<1>1. (b + 1) * k <= a * k
  BY TimesKeepsOrder
<1>2. (b + 1) * k = b * k + k /\ b * k \in Int /\ a * k \in Int
  OBVIOUS
<1> QED
  BY <1>1, <1>2

\* What a configuration's numbers are.
LEMMA ConfigurationTypes ==
  ASSUME Grid!GridAssumption, NEW c \in Configurations
  PROVE  /\ GridOne \in Nat \ {0} /\ TickUs \in Nat \ {0} /\ MaxHumanize \in Nat
         /\ c.tempo.num \in Nat \ {0} /\ c.tempo.den \in Nat \ {0}
         /\ c.tempo.num * GridOne >= c.tempo.den
         /\ c.rate.num \in Nat /\ c.rate.den \in Nat /\ c.rate.factor \in Nat
         /\ c.rate.multiply \in BOOLEAN /\ c.local \in Nat /\ c.unit \in Nat /\ c.phase \in Nat
         /\ c.swing \in Nat /\ c.preset \in Grid!Presets /\ c.amount \in Nat /\ c.rotation \in Nat
         /\ c.humanize \in Nat
<1>1. /\ GridOne \in Nat \ {0} /\ TickUs \in Nat \ {0} /\ MaxHumanize \in Nat
      /\ c \in Grid!Configuration /\ c.tempo.num * GridOne >= c.tempo.den
  BY DEF Grid!GridAssumption
<1>2. /\ c.tempo \in [num : Nat \ {0}, den : Nat \ {0}]
      /\ c.rate \in [num : Nat, den : Nat, factor : Nat, multiply : BOOLEAN]
      /\ c.local \in Nat /\ c.unit \in Nat /\ c.phase \in 0..99
      /\ c.swing \in Nat /\ c.preset \in Grid!Presets /\ c.amount \in Nat /\ c.rotation \in Nat
      /\ c.humanize \in Nat
  BY <1>1, Zenon DEF Grid!Configuration
<1> QED
  BY <1>1, <1>2

LEMMA RateIsPositive ==
  ASSUME Grid!GridAssumption, NEW c \in Configurations
  PROVE  Grid!ChannelRate(c).num \in Nat \ {0} /\ Grid!ChannelRate(c).den \in Nat \ {0}
<1> DEFINE n == Grid!OrElse(c.rate.num, 1)
           d == Grid!OrElse(c.rate.den, 1)
           f == Grid!OrElse(c.rate.factor, 1)
           e == Grid!EffectiveRate(c.rate)
           meter == IF c.mode = "Clock" THEN Grid!OrElse(c.local, 4) ELSE 16
           unit == Grid!OrElse(c.unit, 4)
<1>1. n \in Nat \ {0} /\ d \in Nat \ {0} /\ f \in Nat \ {0} /\ meter \in Nat \ {0} /\ unit \in Nat \ {0}
  BY ConfigurationTypes DEF Grid!OrElse
<1>2. e = IF c.rate.multiply THEN [num |-> n * f, den |-> d] ELSE [num |-> n, den |-> d * f]
  BY DEF Grid!EffectiveRate
<1>3. \A a, b \in Nat \ {0} : a * b \in Nat \ {0}
  OBVIOUS
<1> HIDE DEF n, d, f, meter, unit
<1>4. e.num \in Nat \ {0} /\ e.den \in Nat \ {0}
  BY <1>1, <1>2, <1>3
<1>5. Grid!ChannelRate(c) = [num |-> e.num * meter, den |-> e.den * unit]
  BY DEF Grid!ChannelRate, meter, unit
<1> HIDE DEF e
<1> QED
  BY <1>1, <1>3, <1>4, <1>5

\* The shortest interval is a tick's share of the master position, rounded up; the interval
\* of a rate is rounded down.
LEMMA IntervalsRound ==
  ASSUME Grid!GridAssumption, NEW c \in Configurations
  PROVE  LET q == Grid!MinimumInterval(c)
             r == Grid!ChannelRate(c)
             i == Grid!Interval(c)
         IN  /\ q \in Nat \ {0} /\ i \in Nat
             /\ c.tempo.num * GridOne <= q * c.tempo.den
             /\ q * c.tempo.den < c.tempo.num * GridOne + c.tempo.den
             /\ i * r.num <= r.den * GridOne /\ r.den * GridOne < i * r.num + r.num
             /\ r.den * GridOne = i * r.num + ((r.den * GridOne) % r.num)
             /\ (r.den * GridOne) % r.num \in 0..(r.num - 1)
<1> DEFINE q == Grid!MinimumInterval(c)
           r == Grid!ChannelRate(c)
           i == Grid!Interval(c)
           m == c.tempo.num * GridOne
           d == c.tempo.den
           p == r.den * GridOne
<1>1. m \in Nat \ {0} /\ d \in Nat \ {0} /\ p \in Nat /\ r.num \in Nat \ {0}
  BY ConfigurationTypes, RateIsPositive
<1>2. q = (m + d - 1) \div d /\ i = p \div r.num
  BY DEF Grid!MinimumInterval, Grid!CeilDiv, Grid!Interval
<1> HIDE DEF q, i, m, d, p, r
<1>3. /\ m + d - 1 \in Nat
      /\ (m + d - 1) \div d \in Nat /\ (m + d - 1) % d \in 0..(d - 1)
      /\ m + d - 1 = d * ((m + d - 1) \div d) + ((m + d - 1) % d)
  <2>1. m + d - 1 \in Nat
    BY <1>1
  <2> QED
    BY <1>1, <2>1, DivMod
<1>4. q \in Nat /\ m <= q * d /\ q * d < m + d
  BY <1>1, <1>2, <1>3
<1>5. q # 0
  BY <1>1, <1>4
<1>6. i \in Nat /\ p % r.num \in 0..(r.num - 1) /\ p = r.num * i + (p % r.num)
  BY <1>1, <1>2, DivMod
<1>7. i * r.num <= p /\ p < i * r.num + r.num /\ p = i * r.num + (p % r.num)
  BY <1>1, <1>6
<1> QED
  BY <1>4, <1>5, <1>6, <1>7 DEF q, i, m, d, p, r

\* Event n of a straight grid is due at the exact time, rounded down.
LEMMA OffsetRoundsOnce ==
  ASSUME Grid!GridAssumption, NEW c \in Configurations, NEW n \in Nat,
         Grid!Interval(c) >= Grid!MinimumInterval(c)
  PROVE  LET r == Grid!ChannelRate(c)
             b == Grid!BaseOffset(c, n)
         IN  /\ b \in Nat /\ b * r.num <= n * (r.den * GridOne)
             /\ n * (r.den * GridOne) < b * r.num + r.num
<1> DEFINE r == Grid!ChannelRate(c)
           k == r.num
           i == Grid!Interval(c)
           p == r.den * GridOne
           rest == p % k
           u == n \div k
           v == n % k
           w == (v * rest) \div k
           b == Grid!BaseOffset(c, n)
<1>1. k \in Nat \ {0} /\ i \in Nat /\ rest \in Nat /\ p = i * k + rest /\ p \in Nat
  BY RateIsPositive, IntervalsRound, ConfigurationTypes
<1>2. ~(i < Grid!MinimumInterval(c))
  BY IntervalsRound
<1>3. b = n * i + u * rest + w
  BY <1>2 DEF Grid!BaseOffset
<1> HIDE DEF r, k, i, p, rest, b
<1>4. u \in Nat /\ v \in Nat /\ n = k * u + v
  BY <1>1, DivMod
<1> HIDE DEF u, v
<1>5. v * rest \in Nat
  BY <1>1, <1>4
<1>6. w \in Nat /\ (v * rest) % k \in 0..(k - 1) /\ v * rest = k * w + ((v * rest) % k)
  BY <1>1, <1>5, DivMod
<1>7. k * w <= v * rest /\ v * rest < k * w + k
  BY <1>1, <1>6
<1> HIDE DEF w
<1>8. b \in Nat
  BY <1>1, <1>3, <1>4, <1>6
<1>9. b * k = n * i * k + u * rest * k + w * k
  BY <1>1, <1>3, <1>4, <1>6
<1>10. n * p = n * i * k + u * rest * k + v * rest
  <2>1. n * p = n * (i * k) + n * rest
    BY <1>1
  <2>2. n * rest = (k * u + v) * rest
    BY <1>4
  <2>3. (k * u + v) * rest = u * rest * k + v * rest
    BY <1>1, <1>4
  <2> QED
    BY <1>1, <1>4, <2>1, <2>2, <2>3
<1> QED
  BY <1>1, <1>4, <1>6, <1>7, <1>8, <1>9, <1>10 DEF r, k, p, b

\* Neighbours on the grid are an interval apart, never less than a quantum.
LEMMA GridSteps ==
  ASSUME Grid!GridAssumption, NEW c \in Configurations
  PROVE  LET i == Grid!BaseInterval(c)
             q == Grid!MinimumInterval(c)
         IN  /\ i \in Nat /\ q \in Nat \ {0} /\ q <= i
             /\ i = IF Grid!Interval(c) < q THEN q ELSE Grid!Interval(c)
             /\ Grid!BaseOffset(c, 0) = 0
             /\ \A n \in Nat : /\ Grid!BaseOffset(c, n) \in Nat
                               /\ Grid!BaseOffset(c, n) + i <= Grid!BaseOffset(c, n + 1)
<1> DEFINE i == Grid!BaseInterval(c)
           q == Grid!MinimumInterval(c)
           int == Grid!Interval(c)
           r == Grid!ChannelRate(c)
           b(n) == Grid!BaseOffset(c, n)
<1>1. /\ i \in Nat /\ q \in Nat \ {0} /\ q <= i /\ int \in Nat
      /\ i = IF int < q THEN q ELSE int
  BY IntervalsRound DEF Grid!BaseInterval, Grid!Upper
<1>2. CASE int < q
  <2>1. \A n \in Nat : b(n) = n * q
    BY <1>2 DEF Grid!BaseOffset
  <2>2. i = q
    BY <1>1, <1>2
  <2> HIDE DEF q, i, b
  <2>3. \A n \in Nat : n * q \in Nat /\ (n + 1) * q = n * q + q
    BY <1>1
  <2>4. b(0) = 0 /\ \A n \in Nat : b(n) \in Nat /\ b(n) + i <= b(n + 1)
    BY <1>1, <2>1, <2>2, <2>3
  <2> QED
    BY <1>1, <2>4 DEF q, i, b
<1>3. CASE ~(int < q)
  <2> DEFINE k == r.num
             p == r.den * GridOne
  <2>1. k \in Nat \ {0} /\ p \in Nat /\ int * k <= p /\ i = int
    BY <1>1, <1>3, RateIsPositive, IntervalsRound, ConfigurationTypes
  <2>2. \A n \in Nat : b(n) \in Nat /\ b(n) * k <= n * p /\ n * p < b(n) * k + k
    BY <1>1, <1>3, OffsetRoundsOnce
  <2> HIDE DEF q, int, r, k, p, b, i
  <2>3. b(0) = 0
    <3>1. b(0) \in Nat /\ b(0) * k <= 0 * p
      BY <2>2
    <3>2. b(0) * k < 1 * k
      BY <2>1, <3>1
    <3>3. b(0) < 1
      BY <2>1, <3>1, <3>2, TimesReflectsOrder
    <3> QED
      BY <3>1, <3>3
  <2>4. ASSUME NEW n \in Nat PROVE b(n) + i <= b(n + 1)
    <3>1. b(n) \in Nat /\ b(n + 1) \in Nat /\ b(n) * k <= n * p /\ (n + 1) * p < b(n + 1) * k + k
      BY <2>2
    <3>2. (n + 1) * p = n * p + p
      BY <2>1
    <3>3. b(n) * k + int * k < b(n + 1) * k + k
      BY <1>1, <2>1, <3>1, <3>2
    <3>4. (b(n) + int) * k = b(n) * k + int * k /\ (b(n + 1) + 1) * k = b(n + 1) * k + k
      BY <1>1, <2>1, <3>1
    <3>5. (b(n) + int) * k < (b(n + 1) + 1) * k
      BY <3>3, <3>4
    <3>6. b(n) + int < b(n + 1) + 1
      BY <1>1, <2>1, <3>1, <3>5, TimesReflectsOrder
    <3> QED
      BY <1>1, <2>1, <3>1, <3>6
  <2> QED
    BY <1>1, <2>2, <2>3, <2>4 DEF q, int, i, b
<1> QED
  BY <1>2, <1>3

\* A list of delays has a largest.
LargestDelay(d, most) ==
  /\ d \in Seq(Nat) /\ Len(d) \in Nat \ {0} /\ most \in 0..320
  /\ \E i \in DOMAIN d : most = d[i]
  /\ \A i \in DOMAIN d : d[i] <= most

\* The delays of a preset stay below 320 thousandths.
LEMMA DelaysAreBounded ==
  ASSUME NEW p \in Grid!Presets
  PROVE  \E most : LargestDelay(Grid!Delays(p), most)
<1> DEFINE d == Grid!Delays(p)
<1>1. \/ d = <<0>>
      \/ d = <<0, 80>>
      \/ d = <<0, 160>>
      \/ d = <<0, 240>>
      \/ d = <<0, 320>>
      \/ d = <<0, 70, 20, 120, 0, 90, 30, 150>>
      \/ d = <<0, 120, 40, 60, 10, 150, 30, 90>>
      \/ d = <<0, 90, 20, 140, 10, 60, 30, 120, 0, 130, 40, 80, 20, 160, 30, 100>>
  BY DEF Grid!Delays, Grid!Presets
<1> HIDE DEF d
<1>2. ASSUME d = << 0 >> PROVE LargestDelay(d, 0)
  <2>1. d \in Seq(Nat) /\ Len(d) \in Nat \ {0} /\ 1 \in DOMAIN d /\ d[1] = 0
    BY <1>2
  <2>2. \A i \in DOMAIN d : d[i] <= 0
    BY <1>2
  <2> QED
    BY <2>1, <2>2 DEF LargestDelay
<1>3. ASSUME d = <<0, 80>> PROVE LargestDelay(d, 80)
  <2>1. d \in Seq(Nat) /\ Len(d) \in Nat \ {0} /\ 2 \in DOMAIN d /\ d[2] = 80
    BY <1>3
  <2>2. \A i \in DOMAIN d : d[i] <= 80
    BY <1>3
  <2> QED
    BY <2>1, <2>2 DEF LargestDelay
<1>4. ASSUME d = <<0, 160>> PROVE LargestDelay(d, 160)
  <2>1. d \in Seq(Nat) /\ Len(d) \in Nat \ {0} /\ 2 \in DOMAIN d /\ d[2] = 160
    BY <1>4
  <2>2. \A i \in DOMAIN d : d[i] <= 160
    BY <1>4
  <2> QED
    BY <2>1, <2>2 DEF LargestDelay
<1>5. ASSUME d = <<0, 240>> PROVE LargestDelay(d, 240)
  <2>1. d \in Seq(Nat) /\ Len(d) \in Nat \ {0} /\ 2 \in DOMAIN d /\ d[2] = 240
    BY <1>5
  <2>2. \A i \in DOMAIN d : d[i] <= 240
    BY <1>5
  <2> QED
    BY <2>1, <2>2 DEF LargestDelay
<1>6. ASSUME d = <<0, 320>> PROVE LargestDelay(d, 320)
  <2>1. d \in Seq(Nat) /\ Len(d) \in Nat \ {0} /\ 2 \in DOMAIN d /\ d[2] = 320
    BY <1>6
  <2>2. \A i \in DOMAIN d : d[i] <= 320
    BY <1>6
  <2> QED
    BY <2>1, <2>2 DEF LargestDelay
<1>7. ASSUME d = <<0, 70, 20, 120, 0, 90, 30, 150>> PROVE LargestDelay(d, 150)
  <2>1. d \in Seq(Nat) /\ Len(d) \in Nat \ {0} /\ 8 \in DOMAIN d /\ d[8] = 150
    BY <1>7
  <2>2. \A i \in DOMAIN d : d[i] <= 150
    BY <1>7
  <2> QED
    BY <2>1, <2>2 DEF LargestDelay
<1>8. ASSUME d = <<0, 120, 40, 60, 10, 150, 30, 90>> PROVE LargestDelay(d, 150)
  <2>1. d \in Seq(Nat) /\ Len(d) \in Nat \ {0} /\ 6 \in DOMAIN d /\ d[6] = 150
    BY <1>8
  <2>2. \A i \in DOMAIN d : d[i] <= 150
    BY <1>8
  <2> QED
    BY <2>1, <2>2 DEF LargestDelay
<1>9. ASSUME d = <<0, 90, 20, 140, 10, 60, 30, 120, 0, 130, 40, 80, 20, 160, 30, 100>> PROVE LargestDelay(d, 160)
  <2>1. d \in Seq(Nat) /\ Len(d) \in Nat \ {0} /\ 14 \in DOMAIN d /\ d[14] = 160
    BY <1>9
  <2>2. \A i \in DOMAIN d : d[i] <= 160
    BY <1>9
  <2> QED
    BY <2>1, <2>2 DEF LargestDelay
<1> QED
  BY <1>1, <1>2, <1>3, <1>4, <1>5, <1>6, <1>7, <1>8, <1>9 DEF d

\* A share of something grows with it.
LEMMA SharesKeepOrder ==
  ASSUME NEW a \in Nat, NEW b \in Nat, a <= b
  PROVE  /\ a \div 100 \in Nat /\ a \div 100 <= b \div 100
         /\ 100 * (a \div 100) <= a /\ a <= 100 * (a \div 100) + 99
         /\ 1000 * (a \div 1000) <= a /\ a <= 1000 * (a \div 1000) + 999
         /\ a \div 1000 \in Nat
OBVIOUS

\* No event is delayed by more than its preset's share.
LEMMA DelayBelowMaximum ==
  ASSUME Grid!GridAssumption, NEW c \in Configurations
  PROVE  /\ Grid!MaximumDelayPermille(c) \in 0..320
         /\ \A n \in Nat : Grid!DelayPermille(c, n) \in 0..Grid!MaximumDelayPermille(c)
<1> DEFINE d == Grid!Delays(c.preset)
           k == Grid!Lower(c.amount, 100)
           S == {d[i] : i \in DOMAIN d}
           g == Grid!MaximumDelayPermille(c)
<1>1. c.preset \in Grid!Presets /\ c.amount \in Nat /\ c.rotation \in Nat
  BY ConfigurationTypes
<1>2. k \in 0..100
  BY <1>1 DEF Grid!Lower
<1>0. PICK most : LargestDelay(d, most)
  BY <1>1, DelaysAreBounded
<1>3. /\ most \in 0..320 /\ \E i \in DOMAIN d : most = d[i]
      /\ \A i \in DOMAIN d : d[i] <= most
  BY <1>0 DEF LargestDelay
<1>4. d \in Seq(Nat) /\ Len(d) \in Nat \ {0} /\ DOMAIN d = 1..Len(d)
  BY <1>0 DEF LargestDelay
<1>5. g = (Grid!Max(S) * k) \div 100
  BY DEF Grid!MaximumDelayPermille
<1>6. \A n : Grid!DelayPermille(c, n) = (Grid!AtEvent(d, n, c.rotation) * k) \div 100
  BY DEF Grid!DelayPermille
<1> HIDE DEF d, k, g
<1>7. Grid!Max(S) = most
  <2>1. most \in S /\ (\A x \in S : most >= x) /\ S \subseteq Nat
    BY <1>3, <1>4
  <2> HIDE DEF S
  <2>2. Grid!Max(S) = CHOOSE x \in S : \A y \in S : x >= y
    BY DEF Grid!Max
  <2>3. Grid!Max(S) \in S /\ \A y \in S : Grid!Max(S) >= y
    BY <2>1, <2>2
  <2> DEFINE x == Grid!Max(S)
  <2> HIDE DEF x
  <2>4. x \in S /\ x >= most /\ most >= x
    BY <2>1, <2>3 DEF x
  <2>5. x \in Nat /\ most \in Nat
    BY <2>1, <2>4
  <2>6. x = most
    BY <2>4, <2>5
  <2> QED
    BY <2>6 DEF x
<1>8. most * k \in Nat /\ most * k <= 320 * k
  BY <1>2, <1>3
<1>9. g \in Nat /\ g <= 320
  <2>1. 320 * k \in Nat /\ (320 * k) \div 100 <= 320
    BY <1>2
  <2> QED
    BY <1>5, <1>7, <1>8, <2>1, SharesKeepOrder
<1>10. ASSUME NEW n \in Nat PROVE Grid!DelayPermille(c, n) \in 0..g
  <2>1. Grid!AtEvent(d, n, c.rotation) \in 0..most
    <3>1. c.rotation % Len(d) \in Nat
      BY <1>1, <1>4
    <3>2. (n + (c.rotation % Len(d))) % Len(d) \in 0..(Len(d) - 1)
      BY <1>4, <3>1
    <3>3. ((n + (c.rotation % Len(d))) % Len(d)) + 1 \in DOMAIN d
      BY <1>4, <3>2
    <3> QED
      BY <1>3, <1>4, <3>3 DEF Grid!AtEvent
  <2> DEFINE a == Grid!AtEvent(d, n, c.rotation)
  <2> HIDE DEF a
  <2>2. a \in 0..most
    BY <2>1 DEF a
  <2>3. a * k \in Nat /\ a * k <= most * k
    BY <1>2, <1>3, <2>2, TimesKeepsOrder
  <2>4. (a * k) \div 100 \in Nat /\ (a * k) \div 100 <= (most * k) \div 100
    BY <1>8, <2>3, SharesKeepOrder
  <2> QED
    BY <1>5, <1>6, <1>7, <1>9, <2>4 DEF a
<1>11. g \in 0..320 /\ \A n \in Nat : Grid!DelayPermille(c, n) \in 0..g
  BY <1>9, <1>10
<1> QED
  BY <1>11 DEF g

\* effectiveHumanizeUs: twice the largest displacement, Swing and Groove leave a tick of the
\* interval.
LEMMA HumanizeLeavesATick ==
  ASSUME Grid!GridAssumption, NEW c \in Configurations
  PROVE  LET base == Grid!BaseIntervalUs(c)
             most == Grid!EffectiveHumanizeUs(c) \div TickUs
         IN  /\ base \in Nat /\ TickUs <= base /\ Grid!EffectiveHumanizeUs(c) \in Nat /\ most \in Nat
             /\ c.humanize = 0 => most = 0
             /\ most > 0 => (2 * most) * TickUs + (base * Grid!Lower(c.swing, 50)) \div 100
                              + (base * Grid!MaximumDelayPermille(c)) \div 1000 + TickUs <= base
<1> DEFINE base == Grid!BaseIntervalUs(c)
           t == TickUs
           s == Grid!Lower(c.swing, 50)
           g == Grid!MaximumDelayPermille(c)
           delay == (base * s) \div 100 + (base * g) \div 1000
           shortest == base - Grid!Lower(delay, base - t)
           half == (shortest - t) \div 2
           safe == (half \div t) * t
           asked == Grid!Lower(c.humanize, MaxHumanize)
           e == Grid!EffectiveHumanizeUs(c)
           most == e \div t
<1>0. /\ TickUs \in Nat \ {0} /\ MaxHumanize \in Nat /\ c.humanize \in Nat /\ c.swing \in Nat
      /\ g \in 0..320
  BY ConfigurationTypes, DelayBelowMaximum
<1>1. /\ t \in Nat \ {0} /\ s \in Nat /\ g \in Nat /\ c.humanize \in Nat
      /\ asked \in Nat /\ (c.humanize = 0 => asked = 0)
  BY <1>0 DEF Grid!Lower
<1>2. base \in Nat /\ t <= base
  <2> DEFINE r == Grid!ChannelRate(c)
             num == t * c.tempo.den * r.den
             den == c.tempo.num * r.num
  <2>1. num \in Nat /\ den \in Nat \ {0}
    BY <1>1, ConfigurationTypes, RateIsPositive
  <2>2. base = Grid!Upper(num \div den, t)
    BY DEF Grid!BaseIntervalUs
  <2> HIDE DEF base, num, den
  <2>3. num \div den \in Nat
    BY <2>1, DivMod
  <2> QED
    BY <1>1, <2>2, <2>3 DEF Grid!Upper
<1>3. e = IF shortest <= t THEN 0 ELSE Grid!Lower(asked, safe)
  BY DEF Grid!EffectiveHumanizeUs
<1> HIDE DEF base, t, s, g, asked, e
<1>4. delay \in Nat
  <2>1. base * s \in Nat /\ base * g \in Nat
    BY <1>1, <1>2
  <2> QED
    BY <2>1, SharesKeepOrder
<1> HIDE DEF delay
<1>5. shortest \in Nat /\ (shortest > t => shortest = base - delay)
  BY <1>1, <1>2, <1>4 DEF Grid!Lower
<1>6. CASE shortest <= t
  <2>1. e = 0 /\ 0 \div t = 0
    BY <1>1, <1>3, <1>6
  <2> QED
    BY <1>2, <2>1 DEF base, t, e
<1>7. CASE ~(shortest <= t)
  <2>1. half \in Nat /\ 2 * half <= shortest - t
    BY <1>1, <1>5, <1>7
  <2>2. shortest = base - delay
    BY <1>1, <1>5, <1>7
  <2> HIDE DEF shortest, half
  <2>3. half \div t \in Nat /\ half % t \in 0..(t - 1) /\ half = t * (half \div t) + (half % t)
    BY <1>1, <2>1, DivMod
  <2>4. safe \in Nat /\ safe <= half
    <3> DEFINE k == half \div t
    <3> HIDE DEF k
    <3>1. k \in Nat /\ half % t \in Nat /\ half = t * k + (half % t) /\ k * t = t * k /\ t * k \in Nat
      BY <1>1, <2>3 DEF k
    <3>2. k * t \in Nat /\ k * t <= half
      BY <2>1, <3>1
    <3> QED
      BY <3>2 DEF k
  <2> HIDE DEF safe
  <2>5. e \in Nat /\ e <= half /\ (asked = 0 => e = 0)
    BY <1>1, <1>3, <1>7, <2>1, <2>4 DEF Grid!Lower
  <2>6. most \in Nat /\ e % t \in 0..(t - 1) /\ e = t * most + (e % t)
    BY <1>1, <2>5, DivMod
  <2>7. e = 0 => most = 0
    BY <1>1
  <2> HIDE DEF most
  <2>8. (2 * most) * t = 2 * (t * most)
    BY <1>1, <2>6
  <2>9. t * most <= e
    BY <1>1, <2>6
  <2>10. t * most \in Nat
    BY <1>1, <2>6
  <2>11. (2 * most) * t + delay + t <= base
    BY <1>1, <1>2, <1>4, <2>1, <2>2, <2>5, <2>8, <2>9, <2>10
  <2>12. (2 * most) * t + (base * s) \div 100 + (base * g) \div 1000 + t <= base
    <3> HIDE DEF most
    <3>1. (2 * most) * t \in Int /\ (base * s) \div 100 \in Int /\ (base * g) \div 1000 \in Int
      BY <1>1, <1>2, <2>6
    <3> QED
      BY <1>1, <1>2, <2>11, <3>1 DEF delay
  <2>13. base \in Nat /\ t <= base /\ e \in Nat /\ most \in Nat /\ (c.humanize = 0 => most = 0)
    BY <1>1, <1>2, <2>5, <2>6, <2>7
  <2> QED
    BY <2>12, <2>13 DEF base, t, s, g, most, e
<1> QED
  BY <1>6, <1>7

\* Swing and a factory Groove take what they ask for, and at most the room above a quantum.
LEMMA FactoryShapeFits ==
  ASSUME Grid!GridAssumption, NEW c \in Configurations, NEW n \in Nat
  PROVE  LET i == Grid!BaseInterval(c)
             f == 10 * Grid!Lower(c.swing, 50) + Grid!MaximumDelayPermille(c)
         IN  /\ Grid!FactoryShape(c, n) \in 0..Grid!Room(c)
             /\ Grid!Lower(c.swing, 50) \in 0..50
             /\ 1000 * Grid!FactoryShape(c, n) <= i * f
<1> DEFINE i == Grid!BaseInterval(c)
           s == Grid!Lower(c.swing, 50)
           g == Grid!MaximumDelayPermille(c)
           room == Grid!Room(c)
           swung == Grid!SwingAt(c, n)
           delay == Grid!DelayPermille(c, n)
           shape == Grid!FactoryShape(c, n)
<1>1. i \in Nat /\ room \in Nat /\ s \in 0..50 /\ g \in 0..320 /\ delay \in 0..g
  <2>1. i \in Nat /\ room \in Nat
    BY GridSteps DEF Grid!Room
  <2>2. s \in 0..50
    <3>1. c.swing \in Nat
      BY ConfigurationTypes
    <3> QED
      BY <3>1 DEF Grid!Lower
  <2>3. g \in 0..320 /\ delay \in 0..g
    BY DelayBelowMaximum
  <2> QED
    BY <2>1, <2>2, <2>3
<1>2. swung = IF n % 2 = 1 THEN Grid!Lower((i * s) \div 100, room) ELSE 0
  BY DEF Grid!SwingAt, Grid!SwingDelta
<1>3. shape = swung + Grid!Lower((i * delay) \div 1000, room - swung)
  BY DEF Grid!FactoryShape
<1> HIDE DEF i, s, g, room, swung, delay, shape
<1>4. i * s \in Nat /\ i * delay \in Nat /\ i * g \in Nat /\ i * delay <= i * g
  <2>1. delay * i <= g * i
    BY <1>1, TimesKeepsOrder
  <2> QED
    BY <1>1, <2>1
<1>5. /\ (i * s) \div 100 \in Nat /\ 100 * ((i * s) \div 100) <= i * s
      /\ (i * delay) \div 1000 \in Nat /\ 1000 * ((i * delay) \div 1000) <= i * delay
  BY <1>4, SharesKeepOrder
<1> DEFINE a == (i * s) \div 100
           b == (i * delay) \div 1000
<1>6. swung \in 0..room /\ swung <= a
  BY <1>1, <1>2, <1>5 DEF Grid!Lower
<1>7. shape = swung + Grid!Lower(b, room - swung) /\ b \in Nat
  BY <1>3, <1>5
<1> DEFINE is == i * s
           ig == i * g
<1>8. /\ 100 * a <= is /\ 1000 * b <= ig /\ is \in Nat /\ ig \in Nat /\ a \in Nat
  BY <1>4, <1>5
<1>9. i * (10 * s + g) = 10 * is + ig
  BY <1>1
<1> HIDE DEF a, b, is, ig
<1>10. shape \in 0..room /\ shape <= a + b
  BY <1>1, <1>6, <1>7, <1>8 DEF Grid!Lower
<1>11. 1000 * shape <= i * (10 * s + g)
  BY <1>1, <1>7, <1>8, <1>9, <1>10
<1> QED
  BY <1>1, <1>10, <1>11 DEF i, s, g, room, shape

\* A custom Groove moves an event by at most half the room, either way.
LEMMA CustomShapeFits ==
  ASSUME Grid!GridAssumption, NEW c \in Configurations, NEW n \in Nat, c.preset = "Custom"
  PROVE  LET l == Grid!Room(c) \div 2
         IN  l \in Nat /\ 2 * l <= Grid!Room(c) /\ Grid!CustomShape(c, n) \in (-l)..l
<1> DEFINE l == Grid!Room(c) \div 2
           i == Grid!BaseInterval(c)
           turned == (n + (c.rotation % Len(c.custom))) % Len(c.custom)
           at == Grid!AtEvent(c.custom, n, c.rotation)
           k == Grid!Lower(c.amount, 100)
           o == Grid!CustomOffset256(c, n)
           swung == Grid!SwingAt(c, n)
           asked == swung + Grid!Quotient(i * o, 256)
<1>1. i \in Nat /\ Grid!Room(c) \in Nat /\ k \in Nat /\ c.rotation \in Nat /\ c.swing \in Nat
  BY GridSteps, ConfigurationTypes DEF Grid!Room, Grid!Lower
<1>2. c.custom \in Seq(-120..120) /\ Len(c.custom) \in Nat \ {0}
  <2>1. c \in Grid!Configuration /\ c.custom # <<>>
    BY DEF Grid!GridAssumption
  <2>2. c.custom \in Seq(Grid!Offsets)
    BY <2>1, Zenon DEF Grid!Configuration
  <2>3. Grid!Offsets = -120..120
    BY DEF Grid!Offsets
  <2>4. c.custom \in Seq(-120..120)
    BY <2>2, <2>3, Zenon
  <2> QED
    BY <2>1, <2>4
<1>3. at \in Int
  <2>1. c.rotation % Len(c.custom) \in Nat
    BY <1>1, <1>2
  <2>2. turned \in 0..(Len(c.custom) - 1)
    BY <1>2, <2>1
  <2>3. turned + 1 \in 1..Len(c.custom)
    BY <1>2, <2>2
  <2>4. at = c.custom[turned + 1]
    BY DEF Grid!AtEvent
  <2> HIDE DEF turned, at
  <2>5. ASSUME NEW S, NEW s \in Seq(S), NEW j \in 1..Len(s) PROVE s[j] \in S
    OBVIOUS
  <2>6. c.custom[turned + 1] \in -120..120
    BY <1>2, <2>3, <2>5
  <2> QED
    BY <2>4, <2>6
<1>4. \A a \in Int : Grid!Quotient(a, 100) \in Int /\ Grid!Quotient(a, 256) \in Int
  BY DEF Grid!Quotient
<1>5. o \in Int
  <2>1. o = Grid!Quotient(at * k, 100)
    BY DEF Grid!CustomOffset256
  <2> HIDE DEF at, k, o
  <2>2. at * k \in Int
    BY <1>1, <1>3
  <2> QED
    BY <1>4, <2>1, <2>2
<1>6. swung \in Int
  <2>1. (i * Grid!Lower(c.swing, 50)) \div 100 \in Int
    <3>1. Grid!Lower(c.swing, 50) \in Nat
      BY <1>1 DEF Grid!Lower
    <3>2. i * Grid!Lower(c.swing, 50) \in Nat
      BY <1>1, <3>1
    <3> QED
      BY <3>2
  <2> QED
    BY <1>1, <2>1 DEF Grid!SwingAt, Grid!SwingDelta, Grid!Lower
<1>7. Grid!CustomShape(c, n) = Grid!Upper(-l, Grid!Lower(asked, l))
  BY DEF Grid!CustomShape
<1>8. asked \in Int
  <2> HIDE DEF i, o, swung
  <2>1. i * o \in Int
    BY <1>1, <1>5
  <2> QED
    BY <1>4, <1>6, <2>1
<1>9. l \in Nat /\ 2 * l <= Grid!Room(c)
  BY <1>1
<1> HIDE DEF asked, l
<1>10. Grid!CustomShape(c, n) \in (-l)..l
  BY <1>7, <1>8, <1>9 DEF Grid!Upper, Grid!Lower
<1> QED
  BY <1>9, <1>10 DEF l

\* The interval in microseconds and the interval in units measure the same time, each to
\* its own rounding.
LEMMA IntervalsAgree ==
  ASSUME Grid!GridAssumption, NEW c \in Configurations, Grid!BaseIntervalUs(c) > TickUs
  PROVE  Grid!BaseIntervalUs(c) * (Grid!MinimumInterval(c) - 1)
           <= TickUs * (Grid!BaseInterval(c) + 1)
<1> DEFINE base == Grid!BaseIntervalUs(c)
           q == Grid!MinimumInterval(c)
           i == Grid!BaseInterval(c)
           int == Grid!Interval(c)
           r == Grid!ChannelRate(c)
           t == TickUs
           a == c.tempo.num
           d == c.tempo.den
           one == GridOne
           num == t * d * r.den
           den == a * r.num
<1>1. /\ t \in Nat \ {0} /\ a \in Nat \ {0} /\ d \in Nat \ {0} /\ one \in Nat \ {0}
  BY ConfigurationTypes
<1>2. r.num \in Nat \ {0} /\ r.den \in Nat \ {0}
  BY RateIsPositive
<1>3. /\ q \in Nat \ {0} /\ q * d < a * one + d
      /\ int \in Nat /\ r.den * one < int * r.num + r.num
  BY IntervalsRound
<1>4. i \in Nat /\ int <= i
  BY <1>3, GridSteps
<1>5. base = Grid!Upper(num \div den, t) /\ base > t
  BY DEF Grid!BaseIntervalUs
<1> HIDE DEF base, q, i, int, r, t, a, d, one
<1>6. num \in Nat /\ den \in Nat \ {0}
  BY <1>1, <1>2
<1> HIDE DEF num, den
<1>7. base \in Nat /\ base * den <= num
  <2>1. num \div den \in Nat /\ num % den \in 0..(den - 1) /\ num = den * (num \div den) + (num % den)
    BY <1>6, DivMod
  <2>2. base = num \div den
    BY <1>1, <1>5, <2>1 DEF Grid!Upper
  <2>3. base \in Nat /\ num % den \in Nat /\ num = den * base + (num % den)
    BY <1>6, <2>1, <2>2
  <2> QED
    BY <1>6, <2>3
<1> DEFINE n == r.num
           m == a * one
<1>8. base * m * n <= t * d * (r.den * one)
  <2>1. (base * den) * one <= num * one
    BY <1>1, <1>6, <1>7, TimesKeepsOrder
  <2>2. (base * den) * one = base * m * n
    BY <1>1, <1>2, <1>7 DEF den
  <2>3. num * one = t * d * (r.den * one)
    BY <1>1, <1>2 DEF num
  <2> QED
    BY <2>1, <2>2, <2>3
<1>9. r.den * one <= (i + 1) * n
  <2>1. int * n <= i * n
    BY <1>2, <1>3, <1>4, TimesKeepsOrder
  <2>2. (i + 1) * n = i * n + n /\ i * n \in Nat /\ int * n \in Nat /\ r.den * one \in Nat
    BY <1>1, <1>2, <1>3, <1>4
  <2> QED
    BY <1>2, <1>3, <2>1, <2>2
<1>10. base * m <= t * d * (i + 1)
  <2> DEFINE td == t * d
  <2>1. td \in Nat /\ m \in Nat /\ n \in Nat \ {0} /\ r.den * one \in Nat
    BY <1>1, <1>2
  <2>2. base * m \in Nat /\ td * (i + 1) \in Nat /\ (i + 1) * n \in Nat
    BY <1>4, <1>7, <2>1
  <2>3. (r.den * one) * td <= ((i + 1) * n) * td
    BY <1>9, <2>1, <2>2, TimesKeepsOrder
  <2>4. (r.den * one) * td = t * d * (r.den * one)
    BY <1>1, <2>1
  <2>5. ((i + 1) * n) * td = (td * (i + 1)) * n
    BY <1>4, <2>1
  <2> DEFINE v == t * d * (r.den * one)
             w == (r.den * one) * td
             x == ((i + 1) * n) * td
             y == (td * (i + 1)) * n
             z == base * m * n
  <2>6. v \in Int /\ w \in Int /\ x \in Int /\ y \in Int /\ z \in Int
    BY <1>1, <1>2, <1>4, <1>7
  <2>7. z <= v /\ w <= x /\ w = v /\ x = y
    BY <1>8, <2>3, <2>4, <2>5
  <2> HIDE DEF v, w, x, y, z
  <2>8. z <= y
    BY <2>6, <2>7
  <2>9. (base * m) * n <= (td * (i + 1)) * n
    BY <2>8 DEF y, z
  <2> HIDE DEF td, m, n
  <2>10. base * m <= td * (i + 1)
    BY <2>1, <2>2, <2>9, TimesReflectsWeakOrder
  <2> QED
    BY <2>10 DEF td
<1>11. (q - 1) * d < m + 1
  BY <1>1, <1>3
<1>12. (base * (q - 1)) * d <= (t * (i + 1)) * d
  <2>1. (q - 1) * d \in Nat /\ m \in Nat /\ (q - 1) * d <= m
    BY <1>1, <1>3, <1>11
  <2>2. ((q - 1) * d) * base <= m * base
    BY <1>7, <2>1, TimesKeepsOrder
  <2>3. ((q - 1) * d) * base = (base * (q - 1)) * d /\ m * base = base * m
    BY <1>1, <1>3, <1>7, <2>1
  <2>4. t * d * (i + 1) = (t * (i + 1)) * d
    BY <1>1, <1>4
  <2> DEFINE v == ((q - 1) * d) * base
             w == m * base
             x == base * m
             y == t * d * (i + 1)
  <2>5. v \in Int /\ w \in Int /\ x \in Int /\ y \in Int
    BY <1>1, <1>3, <1>4, <1>7, <2>1
  <2>6. v <= w /\ w = x /\ x <= y
    BY <1>10, <2>2, <2>3
  <2> HIDE DEF v, w, x, y
  <2>7. v <= y
    BY <2>5, <2>6
  <2> QED
    BY <2>3, <2>4, <2>7 DEF v, y
<1>13. base * (q - 1) <= t * (i + 1)
  <2> DEFINE x == base * (q - 1)
             y == t * (i + 1)
  <2>1. x \in Nat /\ y \in Nat /\ x * d <= y * d
    BY <1>1, <1>3, <1>4, <1>7, <1>12
  <2> HIDE DEF x, y
  <2>2. x <= y
    BY <1>1, <2>1, TimesReflectsWeakOrder
  <2> QED
    BY <2>2 DEF x, y
<1> QED
  BY <1>13 DEF base, q, i, t

\* What Humanize, Swing and Groove take together exceeds the interval by no more than what the
\* divisions lose.
LEMMA RoundingCoversHumanize ==
  ASSUME Grid!GridAssumption, NEW c \in Configurations,
         Grid!EffectiveHumanizeUs(c) \div TickUs > 0
  PROVE  LET q == Grid!MinimumInterval(c)
             i == Grid!BaseInterval(c)
             most == Grid!EffectiveHumanizeUs(c) \div TickUs
             f == 10 * Grid!Lower(c.swing, 50) + Grid!MaximumDelayPermille(c)
         IN  1000 * ((2 * most + 1) * q - (Grid!CeilDiv(2 * q, TickUs) + 2 * (most + 1)))
               <= i * (1000 - f)
<1> DEFINE q == Grid!MinimumInterval(c)
           i == Grid!BaseInterval(c)
           t == TickUs
           base == Grid!BaseIntervalUs(c)
           most == Grid!EffectiveHumanizeUs(c) \div t
           s == Grid!Lower(c.swing, 50)
           g == Grid!MaximumDelayPermille(c)
           rest == 1000 - (10 * s + g)
           lost == Grid!CeilDiv(2 * q, t)
           x == 2 * most
           p == q - 1
<1>1. t \in Nat \ {0} /\ s \in 0..50 /\ g \in 0..320
  <2>1. c.swing \in Nat /\ t \in Nat \ {0}
    BY ConfigurationTypes
  <2>2. s \in 0..50
    BY <2>1 DEF Grid!Lower
  <2> QED
    BY <2>1, <2>2, DelayBelowMaximum
<1>2. q \in Nat \ {0} /\ i \in Nat
  BY GridSteps
<1>3. /\ base \in Nat /\ most \in Nat /\ most > 0
      /\ x * t + (base * s) \div 100 + (base * g) \div 1000 + t <= base
  BY HumanizeLeavesATick
<1>4. base > t => base * p <= t * (i + 1)
  BY IntervalsAgree
<1>5. lost = (2 * q + t - 1) \div t
  BY DEF Grid!CeilDiv
<1> HIDE DEF q, i, t, base, most, s, g, lost
<1>6. lost \in Nat /\ 2 * q <= lost * t
  <2> DEFINE o == 2 * q + t - 1
  <2>1. o \in Nat
    BY <1>1, <1>2
  <2>2. o \div t \in Nat /\ o % t \in 0..(t - 1) /\ o = t * (o \div t) + (o % t)
    <3> HIDE DEF o
    <3> QED
      BY <1>1, <2>1, DivMod
  <2>3. lost \in Nat /\ o % t \in 0..(t - 1) /\ o = t * lost + (o % t)
    BY <1>5, <2>2
  <2>4. t * lost \in Nat /\ t * lost = lost * t
    BY <1>1, <2>3
  <2> DEFINE m == o % t
  <2> HIDE DEF m
  <2>5. m \in 0..(t - 1) /\ 2 * q + t - 1 = lost * t + m
    BY <2>3, <2>4 DEF m, o
  <2>6. 2 * q <= lost * t
    BY <1>1, <1>2, <2>4, <2>5
  <2> QED
    BY <2>3, <2>6
<1>7. rest \in 180..1000 /\ x \in Nat /\ x > 0 /\ p \in Nat /\ q = p + 1
  BY <1>1, <1>2, <1>3
<1>8. 1000 * ((x + 1) * t) <= base * rest + 1989
  <2> DEFINE bs == base * s
             bg == base * g
  <2>1. bs \in Nat /\ bg \in Nat /\ base * rest = 1000 * base - 10 * bs - bg
    BY <1>1, <1>3
  <2>2. (x + 1) * t = x * t + t /\ x * t \in Nat
    BY <1>1, <1>7
  <2> DEFINE xt == x * t
  <2>3. x * t + bs \div 100 + bg \div 1000 + t <= base
    BY <1>3
  <2> HIDE DEF bs, bg, rest, x
  <2>4. /\ bs \div 100 \in Nat /\ bs <= 100 * (bs \div 100) + 99
        /\ bg \div 1000 \in Nat /\ bg <= 1000 * (bg \div 1000) + 999
    BY <2>1, SharesKeepOrder
  <2> DEFINE a == bs \div 100
             b == bg \div 1000
  <2>5. /\ a \in Nat /\ bs <= 100 * a + 99 /\ b \in Nat /\ bg <= 1000 * b + 999
        /\ xt + a + b + t <= base /\ xt \in Nat /\ (x + 1) * t = xt + t
    BY <2>2, <2>3, <2>4
  <2> HIDE DEF a, b, xt
  <2> QED
    BY <1>1, <1>3, <2>1, <2>5
<1>9. base > t
  <2>1. x * t \in Nat \ {0}
    BY <1>1, <1>7
  <2>2. (base * s) \div 100 \in Nat /\ (base * g) \div 1000 \in Nat
    <3>1. base * s \in Nat /\ base * g \in Nat
      BY <1>1, <1>3
    <3> QED
      BY <3>1, SharesKeepOrder
  <2> QED
    BY <1>1, <1>3, <2>1, <2>2
<1> DEFINE u == (x + 1) * t * p
           v == base * p * rest
           w == i * rest * t
           y == t * rest
           z == lost * t
<1> HIDE DEF x, p, rest
<1>10. u \in Nat /\ v \in Nat /\ w \in Nat /\ y \in Nat /\ z \in Nat
  <2>1. \A a, b \in Nat : a * b \in Nat
    OBVIOUS
  <2>2. rest \in Nat /\ x + 1 \in Nat /\ t \in Nat /\ q \in Nat
    BY <1>1, <1>2, <1>7
  <2> QED
    BY <1>2, <1>3, <1>6, <1>7, <2>1, <2>2
<1>11. 1000 * u <= v + 1989 * p
  <2> DEFINE l == 1000 * ((x + 1) * t)
             r == base * rest + 1989
  <2>1. l \in Nat /\ r \in Nat /\ l <= r
    BY <1>1, <1>3, <1>7, <1>8
  <2>2. l * p <= r * p
    <3> HIDE DEF l, r
    <3> QED
      BY <1>7, <2>1, TimesKeepsOrder
  <2>3. l * p = 1000 * u
    BY <1>1, <1>7
  <2>4. r * p = v + 1989 * p
    BY <1>3, <1>7
  <2> HIDE DEF l, r, u, v
  <2> QED
    BY <2>2, <2>3, <2>4
<1>12. v <= w + y
  <2> DEFINE l == base * p
             r == t * (i + 1)
  <2>1. l \in Nat /\ r \in Nat /\ l <= r
    BY <1>1, <1>2, <1>3, <1>4, <1>7, <1>9
  <2>2. l * rest <= r * rest
    <3> HIDE DEF l, r
    <3> QED
      BY <1>7, <2>1, TimesKeepsOrder
  <2>3. l * rest = v
    BY <1>3, <1>7
  <2>4. r * rest = w + y
    BY <1>1, <1>2, <1>7
  <2> HIDE DEF l, r, v, w, y
  <2> QED
    BY <2>2, <2>3, <2>4
<1>13. y <= 1000 * t
  <2>1. rest * t <= 1000 * t
    BY <1>1, <1>7, TimesKeepsOrder
  <2> QED
    BY <1>1, <1>7, <2>1
<1> DEFINE over == (x + 1) * q - (lost + (x + 2))
<1>14. over \in Int /\ (1000 * over) * t = 1000 * u - 1000 * t - 1000 * z
  <2>1. over = (x + 1) * p + (x + 1) - lost - x - 2
    BY <1>6, <1>7
  <2>2. over = (x + 1) * p - 1 - lost
    BY <1>6, <1>7, <2>1
  <2> DEFINE k == (x + 1) * p
  <2>3. k \in Int /\ k * t = u
    BY <1>1, <1>7
  <2> HIDE DEF k, over, u
  <2>4. over = k - 1 - lost
    BY <2>2 DEF k
  <2>5. over \in Int
    BY <1>6, <2>3, <2>4
  <2>6. (1000 * over) * t = 1000 * (k * t) - 1000 * t - 1000 * (lost * t)
    BY <1>1, <1>6, <2>3, <2>4
  <2> QED
    BY <2>3, <2>5, <2>6
<1>15. (1000 * over) * t <= (i * rest) * t
  <2>1. 2 * p + 2 <= z
    BY <1>6, <1>7
  <2> HIDE DEF u, v, w, y, z
  <2>2. 1000 * u - 1000 * t - 1000 * z <= w
    BY <1>1, <1>7, <1>10, <1>11, <1>12, <1>13, <2>1
  <2> QED
    BY <1>14, <2>2 DEF w
<1>16. 1000 * over <= i * rest
  <2>1. 1000 * over \in Int /\ i * rest \in Int
    BY <1>2, <1>7, <1>14
  <2> HIDE DEF over
  <2> QED
    BY <1>1, <1>15, <2>1, TimesReflectsWeakOrder
<1>17. x + 2 = 2 * (most + 1) /\ x = 2 * most
  BY <1>3 DEF x
<1>18. 1000 * ((2 * most + 1) * q - (lost + 2 * (most + 1))) <= i * (1000 - (10 * s + g))
  BY <1>16, <1>17 DEF rest
<1> QED
  BY <1>18 DEF q, i, t, most, s, g, lost

\* What rounding may cost two neighbours of a configuration.
Tolerance(c) ==
  Grid!CeilDiv(2 * Grid!MinimumInterval(c), TickUs) + 2 * (Grid!EffectiveHumanizeUs(c) \div TickUs + 1)

LEMMA ToleranceIsNatural ==
  ASSUME Grid!GridAssumption, NEW c \in Configurations
  PROVE  Tolerance(c) \in Nat
<1> DEFINE q == Grid!MinimumInterval(c)
           most == Grid!EffectiveHumanizeUs(c) \div TickUs
           lost == Grid!CeilDiv(2 * q, TickUs)
<1>1. q \in Nat \ {0} /\ TickUs \in Nat \ {0} /\ most \in Nat
  BY GridSteps, ConfigurationTypes, HumanizeLeavesATick
<1>2. lost = (2 * q + TickUs - 1) \div TickUs
  BY DEF Grid!CeilDiv
<1> HIDE DEF q, lost
<1>3. lost \in Nat
  <2>1. 2 * q + TickUs - 1 \in Nat
    BY <1>1
  <2> QED
    BY <1>1, <1>2, <2>1, DivMod
<1> HIDE DEF most
<1>4. lost + 2 * (most + 1) \in Nat
  BY <1>1, <1>3
<1> QED
  BY <1>4 DEF Tolerance, q, most, lost

\* With a factory Groove an event is never early: Humanize apart it lies between its place on the
\* grid and that place and its share.
LEMMA FactoryPosition ==
  ASSUME Grid!GridAssumption, NEW c \in Configurations, NEW n \in Nat, NEW k \in Int,
         c.preset # "Custom"
  PROVE  LET phase == Grid!PhaseOffset(c)
             due == phase + Grid!BaseOffset(c, n) + Grid!FactoryShape(c, n)
                      + k * Grid!MinimumInterval(c)
         IN  /\ phase \in Nat /\ Grid!Position(c, n, k) \in Int
             /\ due <= Grid!Position(c, n, k)
             /\ Grid!Position(c, n, k) = due \/ Grid!Position(c, n, k) = phase
<1> DEFINE phase == Grid!PhaseOffset(c)
           b == Grid!BaseOffset(c, n)
           shape == Grid!FactoryShape(c, n)
           q == Grid!MinimumInterval(c)
           kq == k * q
           due == phase + b + shape + kq
<1>1. b \in Nat /\ q \in Nat /\ Grid!BaseInterval(c) \in Nat
  BY GridSteps
<1>2. shape \in Nat
  BY FactoryShapeFits
<1>3. phase \in Nat
  <2>1. Grid!Lower(c.phase, 99) \in Nat
    <3>1. c.phase \in Nat
      BY ConfigurationTypes
    <3> QED
      BY <3>1 DEF Grid!Lower
  <2>2. Grid!BaseInterval(c) * Grid!Lower(c.phase, 99) \in Nat
    BY <1>1, <2>1
  <2> QED
    BY <2>2, SharesKeepOrder DEF Grid!PhaseOffset
<1>4. Grid!ShapedPosition(c, n) = phase + b + shape
  BY DEF Grid!ShapedPosition
<1>5. Grid!Position(c, n, k) = Grid!Upper(due, phase)
  BY <1>4 DEF Grid!Position, Grid!Advanced
<1>6. kq \in Int
  BY <1>1
<1> HIDE DEF phase, b, shape, q, kq
<1>7. due \in Int
  BY <1>1, <1>2, <1>3, <1>6
<1> HIDE DEF due
<1>8. /\ Grid!Position(c, n, k) \in Int /\ due <= Grid!Position(c, n, k)
      /\ Grid!Position(c, n, k) = due \/ Grid!Position(c, n, k) = phase
  BY <1>3, <1>5, <1>7 DEF Grid!Upper
<1> QED
  BY <1>3, <1>8 DEF due, phase, b, shape, q, kq

\* Two events of a channel with a factory Groove, whatever Humanize chooses for either.
LEMMA FactoryNeighbours ==
  ASSUME Grid!GridAssumption, NEW c \in Configurations, NEW n \in Nat, c.preset # "Custom",
         NEW k \in Grid!Displacements(c, n), NEW h \in Grid!Displacements(c, n + 1)
  PROVE  Grid!Position(c, n + 1, h) - Grid!Position(c, n, k)
           >= Grid!MinimumInterval(c) - Tolerance(c)
<1> DEFINE q == Grid!MinimumInterval(c)
           i == Grid!BaseInterval(c)
           most == Grid!EffectiveHumanizeUs(c) \div TickUs
           phase == Grid!PhaseOffset(c)
           b == Grid!BaseOffset(c, n)
           b1 == Grid!BaseOffset(c, n + 1)
           s == Grid!FactoryShape(c, n)
           s1 == Grid!FactoryShape(c, n + 1)
           f == 10 * Grid!Lower(c.swing, 50) + Grid!MaximumDelayPermille(c)
           here == Grid!Position(c, n, k)
           there == Grid!Position(c, n + 1, h)
           lost == Tolerance(c)
<1>1. q \in Nat \ {0} /\ i \in Nat /\ q <= i /\ b \in Nat /\ b1 \in Nat /\ b + i <= b1
  BY GridSteps
<1>2. most \in Nat
  BY HumanizeLeavesATick
<1>3. k \in (-most)..most /\ h \in (-most)..most
  BY <1>2 DEF Grid!Displacements
<1>4. /\ s \in 0..Grid!Room(c) /\ s1 \in Nat /\ 1000 * s <= i * f
      /\ Grid!Room(c) = i - q
  <2>1. n + 1 \in Nat /\ Grid!Room(c) = i - q
    BY DEF Grid!Room
  <2> QED
    BY <2>1, FactoryShapeFits
<1>5. /\ phase \in Nat /\ here \in Int /\ there \in Int
      /\ here = phase + b + s + k * q \/ here = phase
      /\ phase + b1 + s1 + h * q <= there
  BY <1>3, FactoryPosition
<1>6. lost \in Nat
  BY ToleranceIsNatural
<1>7. most > 0 => 1000 * ((2 * most + 1) * q - lost) <= i * (1000 - f)
  BY RoundingCoversHumanize DEF Tolerance
<1>8. f \in Nat
  <2>1. Grid!Lower(c.swing, 50) \in Nat
    BY FactoryShapeFits
  <2>2. Grid!MaximumDelayPermille(c) \in 0..320
    BY DelayBelowMaximum, Zenon
  <2> DEFINE g == Grid!MaximumDelayPermille(c)
             w == Grid!Lower(c.swing, 50)
  <2>3. w \in Nat /\ g \in 0..320
    BY <2>1, <2>2
  <2> HIDE DEF g, w
  <2>4. 10 * w + g \in Nat
    BY <2>3
  <2> QED
    BY <2>4 DEF g, w
<1> HIDE DEF q, i, most, phase, b, b1, s, s1, f, here, there, lost
<1> DEFINE mq == most * q
<1>9. mq \in Nat /\ k * q <= mq /\ -mq <= h * q /\ k * q \in Int /\ h * q \in Int
  <2>1. k * q <= most * q /\ (-most) * q <= h * q
    BY <1>1, <1>2, <1>3, TimesKeepsOrder
  <2>2. (-most) * q = -(most * q) /\ most * q \in Nat
    BY <1>1, <1>2
  <2> QED
    BY <1>1, <1>3, <2>1, <2>2
<1>10. there - here >= i - s - 2 * mq
  <2> DEFINE kq == k * q
             hq == h * q
  <2>1. /\ kq \in Int /\ hq \in Int /\ kq <= mq /\ -mq <= hq /\ mq \in Nat
        /\ here = phase + b + s + kq \/ here = phase
        /\ phase + b1 + s1 + hq <= there /\ s \in Nat
    BY <1>1, <1>4, <1>5, <1>9
  <2> HIDE DEF kq, hq, mq
  <2>2. here <= phase + b + s + mq
    BY <1>1, <1>4, <1>5, <2>1
  <2>3. phase + b + i - mq <= there
    BY <1>1, <1>4, <1>5, <2>1
  <2> QED
    BY <1>1, <1>4, <1>5, <2>1, <2>2, <2>3
<1>11. CASE most = 0
  <2>1. mq = 0
    BY <1>1, <1>11
  <2>2. there - here >= i - s /\ i - s >= q
    BY <1>1, <1>4, <1>5, <1>10, <2>1
  <2>3. there - here >= q - lost
    BY <1>1, <1>4, <1>5, <1>6, <2>2
  <2> QED
    BY <2>3 DEF q, here, there, lost
<1>12. CASE most > 0
  <2>1. (2 * most + 1) * q = 2 * mq + q
    BY <1>1, <1>2
  <2>2. i * (1000 - f) = 1000 * i - i * f /\ i * f \in Nat
    BY <1>1, <1>8
  <2> DEFINE if == i * f
             o == (2 * most + 1) * q
  <2>3. o = 2 * mq + q /\ 1000 * (o - lost) <= 1000 * i - if /\ if \in Nat /\ 1000 * s <= if
    BY <1>4, <1>7, <1>12, <2>1, <2>2
  <2> HIDE DEF if, o, mq
  <2>4. 1000 * (2 * mq + q - lost) <= 1000 * i - 1000 * s
    BY <1>1, <1>4, <1>6, <1>9, <2>3
  <2>5. i - s - 2 * mq >= q - lost
    BY <1>1, <1>4, <1>6, <1>9, <2>4
  <2>6. there - here >= q - lost
    BY <1>1, <1>4, <1>5, <1>6, <1>9, <1>10, <2>5
  <2> QED
    BY <2>6 DEF q, here, there, lost
<1> QED
  BY <1>2, <1>11, <1>12

\* Two events of a channel with a custom Groove that Humanize leaves alone.
LEMMA CustomNeighbours ==
  ASSUME Grid!GridAssumption, NEW c \in Configurations, NEW n \in Nat,
         c.preset = "Custom", c.humanize = 0,
         NEW k \in Grid!Displacements(c, n), NEW h \in Grid!Displacements(c, n + 1)
  PROVE  Grid!Position(c, n + 1, h) - Grid!Position(c, n, k)
           >= Grid!MinimumInterval(c) - Tolerance(c)
<1> DEFINE q == Grid!MinimumInterval(c)
           i == Grid!BaseInterval(c)
           phase == Grid!PhaseOffset(c)
           b == Grid!BaseOffset(c, n)
           b1 == Grid!BaseOffset(c, n + 1)
           s == Grid!CustomShape(c, n)
           s1 == Grid!CustomShape(c, n + 1)
           l == Grid!Room(c) \div 2
           here == Grid!Position(c, n, k)
           there == Grid!Position(c, n + 1, h)
           lost == Tolerance(c)
<1>1. q \in Nat \ {0} /\ i \in Nat /\ q <= i /\ b \in Nat /\ b1 \in Nat /\ b + i <= b1
  BY GridSteps
<1>2. k = 0 /\ h = 0
  <2>1. Grid!EffectiveHumanizeUs(c) \div TickUs = 0
    BY HumanizeLeavesATick
  <2> QED
    BY <2>1 DEF Grid!Displacements
<1>3. Grid!Room(c) = i - q /\ l \in Nat /\ 2 * l <= i - q /\ s \in (-l)..l /\ s1 \in (-l)..l
  <2>1. Grid!Room(c) = i - q /\ n + 1 \in Nat
    BY DEF Grid!Room
  <2> QED
    BY <2>1, CustomShapeFits
<1>4. phase \in Nat
  <2>1. Grid!Lower(c.phase, 99) \in Nat
    <3>1. c.phase \in Nat
      BY ConfigurationTypes
    <3> QED
      BY <3>1 DEF Grid!Lower
  <2>2. Grid!BaseInterval(c) * Grid!Lower(c.phase, 99) \in Nat
    BY <1>1, <2>1
  <2> QED
    BY <2>2, SharesKeepOrder DEF Grid!PhaseOffset
<1>5. /\ Grid!ShapedPosition(c, n) = Grid!Upper(phase + b + s, phase)
      /\ Grid!ShapedPosition(c, n + 1) = Grid!Upper(phase + b1 + s1, phase)
  BY DEF Grid!ShapedPosition, Grid!Advanced
<1>6. 0 * q = 0
  BY <1>1
<1>7. /\ here = Grid!Upper(Grid!Upper(phase + b + s, phase) + 0 * q, phase)
      /\ there = Grid!Upper(Grid!Upper(phase + b1 + s1, phase) + 0 * q, phase)
  BY <1>2, <1>5 DEF Grid!Position, Grid!Advanced
<1>8. lost \in Nat
  BY ToleranceIsNatural
<1> HIDE DEF q, i, phase, b, b1, s, s1, l, here, there, lost
<1>9. here = Grid!Upper(phase + b + s, phase) /\ there = Grid!Upper(phase + b1 + s1, phase)
  BY <1>1, <1>3, <1>4, <1>6, <1>7 DEF Grid!Upper
<1>10. here \in Int /\ there \in Int /\ here <= phase + b + l /\ phase + b1 - l <= there
  BY <1>1, <1>3, <1>4, <1>9 DEF Grid!Upper
<1>11. there - here >= q - lost
  BY <1>1, <1>3, <1>4, <1>8, <1>10
<1> QED
  BY <1>11 DEF q, here, there, lost

\* Every event is where its number puts it, and it keeps its distance from the one before it.
EventsOrdered ==
  /\ config \in Configurations /\ number \in Nat
  /\ \E k \in Grid!Displacements(config, number) : upcoming = Grid!Position(config, number, k)
  /\ Grid!OrderedButForHumanizedCustom

LEMMA FiringKeepsOrder ==
  ASSUME Grid!GridAssumption, EventsOrdered, NEW h \in Grid!Displacements(config, number + 1),
         Grid!FireEvent(h)
  PROVE  EventsOrdered'
<1> DEFINE q == Grid!MinimumInterval(config)
           lost == Tolerance(config)
<1>1. /\ config' = config /\ number' = number + 1 /\ preceding' = upcoming
      /\ upcoming' = Grid!Position(config, number + 1, h)
  BY DEF Grid!FireEvent
<1>2. PICK k \in Grid!Displacements(config, number) : upcoming = Grid!Position(config, number, k)
  BY DEF EventsOrdered
<1>3. config \in Configurations /\ number \in Nat
  BY DEF EventsOrdered
<1>4. config.preset # "Custom" \/ config.humanize = 0 => upcoming' - preceding' >= q - lost
  BY <1>1, <1>2, <1>3, FactoryNeighbours, CustomNeighbours
<1>5. Grid!OrderedButForHumanizedCustom'
  BY <1>1, <1>4 DEF Grid!OrderedButForHumanizedCustom, Grid!AdjacentEventsOrdered, Grid!Rounding, Tolerance
<1>6. \E j \in Grid!Displacements(config, number') : upcoming' = Grid!Position(config, number', j)
  BY <1>1
<1>7. number' \in Nat
  BY <1>1, <1>3
<1> QED
  BY <1>1, <1>3, <1>5, <1>6, <1>7 DEF EventsOrdered

\* OrderedButForHumanizedCustom: on every channel that no Humanize moves on top of a custom
\* Groove, neighbouring events stay a scheduler quantum apart, but for what the divisions lose:
\* for every tempo, rate, phase, Swing, Groove and Humanize.
THEOREM EventsAlwaysOrdered ==
  ASSUME Grid!GridAssumption
  PROVE  Grid!Spec => []Grid!OrderedButForHumanizedCustom
<1>1. Grid!Init => EventsOrdered
  <2> SUFFICES ASSUME Grid!Init PROVE EventsOrdered
    OBVIOUS
  <2>1. config \in Configurations /\ number = 0 /\ upcoming = Grid!Position(config, 0, 0) /\ preceding = -1
    BY DEF Grid!Init
  <2>2. 0 \in Grid!Displacements(config, 0)
    BY DEF Grid!Displacements
  <2>3. \E k \in Grid!Displacements(config, number) : upcoming = Grid!Position(config, number, k)
    BY <2>1, <2>2
  <2>4. Grid!OrderedButForHumanizedCustom
    BY <2>1 DEF Grid!OrderedButForHumanizedCustom, Grid!AdjacentEventsOrdered
  <2> QED
    BY <2>1, <2>3, <2>4 DEF EventsOrdered
<1>2. EventsOrdered /\ [Grid!Next]_(Grid!vars) => EventsOrdered'
  <2> SUFFICES ASSUME EventsOrdered, [Grid!Next]_(Grid!vars) PROVE EventsOrdered'
    OBVIOUS
  <2>1. CASE Grid!Tick
    <3>1. config' = config /\ number' = number /\ upcoming' = upcoming /\ preceding' = preceding
      BY <2>1 DEF Grid!Tick
    <3> QED
      BY <3>1 DEF EventsOrdered, Grid!OrderedButForHumanizedCustom, Grid!AdjacentEventsOrdered,
                  Grid!Rounding
  <2>2. CASE \E h \in Grid!Displacements(config, number + 1) : Grid!FireEvent(h)
    BY <2>2, FiringKeepsOrder
  <2>3. CASE UNCHANGED Grid!vars
    <3>1. config' = config /\ number' = number /\ upcoming' = upcoming /\ preceding' = preceding
      BY <2>3 DEF Grid!vars
    <3> QED
      BY <3>1 DEF EventsOrdered, Grid!OrderedButForHumanizedCustom, Grid!AdjacentEventsOrdered,
                  Grid!Rounding
  <2> QED
    BY <2>1, <2>2, <2>3 DEF Grid!Next
<1>3. EventsOrdered => Grid!OrderedButForHumanizedCustom
  BY DEF EventsOrdered
<1> QED
  BY <1>1, <1>2, <1>3, PTL DEF Grid!Spec

\* A straight grid: nothing moves its events.
LEMMA StraightPosition ==
  ASSUME Grid!GridAssumption, config \in Configurations, Grid!Unshaped, NEW n \in Nat,
         NEW h \in Grid!Displacements(config, n)
  PROVE  Grid!Position(config, n, h) = Grid!BaseOffset(config, n)
<1> DEFINE phase == Grid!PhaseOffset(config)
           b == Grid!BaseOffset(config, n)
           shape == Grid!FactoryShape(config, n)
           q == Grid!MinimumInterval(config)
           i == Grid!BaseInterval(config)
<1>1. b \in Nat /\ q \in Nat /\ i \in Nat
  BY GridSteps
<1>2. config.swing = 0 /\ config.preset = "Off" /\ config.humanize = 0 /\ config.phase = 0
  BY DEF Grid!Unshaped
<1>3. h = 0
  <2>1. Grid!EffectiveHumanizeUs(config) \div TickUs = 0
    BY <1>2, HumanizeLeavesATick
  <2> QED
    BY <2>1 DEF Grid!Displacements
<1>4. phase = 0
  <2>1. Grid!Lower(config.phase, 99) = 0 /\ i * 0 = 0 /\ 0 \div 100 = 0
    BY <1>1, <1>2 DEF Grid!Lower
  <2> QED
    BY <2>1 DEF Grid!PhaseOffset
<1>5. shape = 0
  <2>1. Grid!Lower(config.swing, 50) = 0
    BY <1>2 DEF Grid!Lower
  <2>2. Grid!MaximumDelayPermille(config) = 0
    <3> DEFINE S == {Grid!Delays(config.preset)[j] : j \in DOMAIN Grid!Delays(config.preset)}
               k == Grid!Lower(config.amount, 100)
    <3>1. S = {0}
      BY <1>2 DEF Grid!Delays
    <3>2. Grid!Max(S) = 0
      <4>1. Grid!Max(S) = CHOOSE x \in S : \A y \in S : x >= y
        BY DEF Grid!Max
      <4> HIDE DEF S
      <4> QED
        BY <3>1, <4>1
    <3>3. k \in Nat
      <4>1. config.amount \in Nat
        BY ConfigurationTypes
      <4> QED
        BY <4>1 DEF Grid!Lower
    <3>4. Grid!MaximumDelayPermille(config) = (Grid!Max(S) * k) \div 100
      BY DEF Grid!MaximumDelayPermille
    <3> HIDE DEF S, k
    <3> QED
      BY <3>2, <3>3, <3>4
  <2>3. shape \in 0..Grid!Room(config) /\ 1000 * shape <= i * (10 * 0 + 0) /\ Grid!Room(config) = i - q
    BY <2>1, <2>2, FactoryShapeFits DEF Grid!Room
  <2> HIDE DEF shape, i, q
  <2> QED
    BY <1>1, <2>3
<1>6. Grid!ShapedPosition(config, n) = phase + b + shape
  BY <1>2 DEF Grid!ShapedPosition
<1>7. Grid!Position(config, n, h) = Grid!Upper(phase + b + shape + h * q, phase)
  BY <1>6 DEF Grid!Position, Grid!Advanced
<1> HIDE DEF phase, b, shape, q
<1>8. Grid!Position(config, n, h) = b
  BY <1>1, <1>3, <1>4, <1>5, <1>7 DEF Grid!Upper
<1> QED
  BY <1>8 DEF b

\* The master position is where the ticks put it, to the remainder it keeps; on a straight grid
\* the next event is never a tick overdue, and no tick fires two.
EventsOnTime ==
  LET m == config.tempo.num * GridOne
      d == config.tempo.den
  IN  /\ config \in Configurations /\ {number, interrupts, reached} \subseteq Nat
      /\ fraction \in 0..(d - 1) /\ reached * d + fraction = interrupts * m
      /\ Grid!Unshaped =>
           /\ upcoming = Grid!BaseOffset(config, number)
           /\ interrupts * m < upcoming * d + m
           /\ inTick = 0 \/ (inTick = 1 /\ reached < upcoming)

\* EventsKeepTime says no more than that of an event that is due.
LEMMA OnTimeMeansKept ==
  ASSUME Grid!GridAssumption, EventsOnTime
  PROVE  Grid!EventsKeepTime
<1> DEFINE a == config.tempo.num
           d == config.tempo.den
           r == Grid!ChannelRate(config)
           n == r.num
           one == GridOne
           m == a * one
           p == r.den * one
           u == upcoming
           late == interrupts * a * n - number * r.den * d
<1> SUFFICES ASSUME Grid!Unshaped, Grid!Due
             PROVE  late < a * n /\ late * one > -(d * n)
  BY DEF Grid!EventsKeepTime
<1>1. config \in Configurations
  BY DEF EventsOnTime
<1>2. a \in Nat \ {0} /\ d \in Nat \ {0} /\ n \in Nat \ {0} /\ r.den \in Nat \ {0} /\ one \in Nat \ {0}
  BY <1>1, ConfigurationTypes, RateIsPositive
<1>3. /\ number \in Nat /\ interrupts \in Nat /\ reached \in Nat /\ fraction \in 0..(d - 1)
      /\ reached * d + fraction = interrupts * m
      /\ u = Grid!BaseOffset(config, number) /\ interrupts * m < u * d + m
  BY DEF EventsOnTime
<1>4. reached >= u
  BY DEF Grid!Due
<1>5. u \in Nat /\ u * n <= number * p /\ number * p < u * n + n
  <2>1. Grid!Interval(config) >= Grid!MinimumInterval(config)
    BY DEF Grid!Unshaped
  <2> QED
    BY <1>1, <1>3, <2>1, OffsetRoundsOnce
<1> HIDE DEF a, d, r, n, one, u
<1>6. late \in Int /\ m \in Nat \ {0} /\ p \in Nat
  BY <1>2, <1>3
<1> DEFINE x == interrupts * m
           y == number * p
           l == late * one
<1>7. x \in Nat /\ y \in Nat /\ l \in Int
  BY <1>2, <1>3, <1>6
<1>8. l = x * n - y * d
  BY <1>2, <1>3
<1> HIDE DEF x, y, l, m, p, late
<1>9. l < m * n
  <2>1. (x - (u * d + m)) * n < 0 * n
    <3>1. x - (u * d + m) + 1 <= 0 /\ x - (u * d + m) + 1 \in Int
      BY <1>2, <1>3, <1>5, <1>6, <1>7 DEF x
    <3>2. (x - (u * d + m) + 1) * n <= 0 * n
      BY <1>2, <3>1, TimesKeepsOrder
    <3> DEFINE w == x - (u * d + m)
    <3>3. w \in Int /\ (w + 1) * n <= 0
      BY <1>2, <1>5, <1>6, <1>7, <3>2
    <3> HIDE DEF w
    <3>4. w * n < 0
      BY <1>2, <3>3
    <3> QED
      BY <1>2, <3>4 DEF w
  <2>2. (x - (u * d + m)) * n = x * n - u * d * n - m * n
    BY <1>2, <1>5, <1>6, <1>7
  <2>3. (u * n) * d <= y * d
    BY <1>2, <1>5, <1>7, TimesKeepsOrder DEF y
  <2>4. (u * n) * d = u * d * n
    BY <1>2, <1>5
  <2> DEFINE udn == u * d * n
             xn == x * n
             mn == m * n
             yd == y * d
  <2>5. udn \in Int /\ xn \in Int /\ mn \in Int /\ yd \in Int
    BY <1>2, <1>5, <1>6, <1>7
  <2>6. xn - udn - mn < 0 /\ udn <= yd /\ l = xn - yd
    BY <1>2, <1>8, <2>1, <2>2, <2>3, <2>4
  <2> HIDE DEF udn, xn, mn, yd
  <2>7. l < mn
    BY <2>5, <2>6
  <2> QED
    BY <2>7 DEF mn
<1>10. late < a * n
  <2>1. m * n = (a * n) * one
    BY <1>2 DEF m
  <2>2. late * one < (a * n) * one
    BY <1>9, <2>1 DEF l
  <2>3. a * n \in Int
    BY <1>2
  <2> QED
    BY <1>2, <1>6, <2>2, <2>3, TimesReflectsOrder
<1>11. l > -(d * n)
  <2>1. u * d <= x
    <3>1. u * d <= reached * d
      BY <1>2, <1>3, <1>4, <1>5, TimesKeepsOrder
    <3> QED
      BY <1>2, <1>3, <1>5, <1>7, <3>1 DEF x
  <2>2. (u * d) * n <= x * n
    <3>1. u * d \in Int
      BY <1>2, <1>5
    <3> QED
      BY <1>2, <1>7, <2>1, <3>1, TimesKeepsOrder
  <2>3. y * d < (u * n + n) * d
    <3>1. y + 1 <= u * n + n /\ u * n + n \in Int
      BY <1>2, <1>5, <1>7 DEF y
    <3>2. (y + 1) * d <= (u * n + n) * d
      BY <1>2, <1>7, <3>1, TimesKeepsOrder
    <3>3. (y + 1) * d = y * d + d /\ y * d \in Int /\ (u * n + n) * d \in Int
      BY <1>2, <1>7, <3>1
    <3> QED
      BY <1>2, <3>2, <3>3
  <2>4. (u * n + n) * d = (u * d) * n + d * n
    BY <1>2, <1>5
  <2> DEFINE udn == (u * d) * n
             xn == x * n
             dn == d * n
             yd == y * d
             o == (u * n + n) * d
  <2>5. udn \in Int /\ xn \in Int /\ dn \in Int /\ yd \in Int /\ o \in Int
    BY <1>2, <1>5, <1>6, <1>7
  <2>6. udn <= xn /\ yd < o /\ o = udn + dn /\ l = xn - yd
    BY <1>8, <2>2, <2>3, <2>4
  <2> HIDE DEF udn, xn, dn, yd, o
  <2>7. l > -dn
    BY <2>5, <2>6
  <2> QED
    BY <2>7 DEF dn
<1> QED
  BY <1>10, <1>11 DEF l, late

\* A tick adds the tempo's share to the master position and loses nothing of it.
LEMMA TickKeepsTime ==
  ASSUME Grid!GridAssumption, EventsOnTime, Grid!Tick
  PROVE  EventsOnTime'
<1> DEFINE m == config.tempo.num * GridOne
           d == config.tempo.den
           scaled == m + fraction
<1>1. /\ config' = config /\ number' = number /\ upcoming' = upcoming
      /\ interrupts' = interrupts + 1 /\ inTick' = 0
      /\ reached' = reached + scaled \div d /\ fraction' = scaled % d
      /\ ~(reached >= upcoming /\ inTick < 8)
  BY DEF Grid!Tick, Grid!AdvanceMaster, Grid!Due
<1>2. config \in Configurations
  BY DEF EventsOnTime
<1>3. m \in Nat \ {0} /\ d \in Nat \ {0}
  BY <1>2, ConfigurationTypes
<1>4. /\ number \in Nat /\ interrupts \in Nat /\ reached \in Nat /\ fraction \in 0..(d - 1)
      /\ reached * d + fraction = interrupts * m
  BY DEF EventsOnTime
<1>5. Grid!Unshaped => /\ upcoming = Grid!BaseOffset(config, number)
                       /\ reached < upcoming /\ upcoming \in Nat
  <2>1. Grid!Unshaped => /\ upcoming = Grid!BaseOffset(config, number)
                         /\ inTick = 0 \/ (inTick = 1 /\ reached < upcoming)
    BY DEF EventsOnTime
  <2>2. Grid!BaseOffset(config, number) \in Nat
    BY <1>2, <1>4, GridSteps
  <2>3. Grid!Unshaped => upcoming \in Nat
    BY <2>1, <2>2
  <2> QED
    BY <1>1, <1>4, <2>1, <2>3
<1>6. m' = m /\ d' = d /\ (Grid!Unshaped)' = Grid!Unshaped
      /\ Grid!BaseOffset(config, number)' = Grid!BaseOffset(config, number)
  BY <1>1 DEF Grid!Unshaped
<1> HIDE DEF m, d
<1>7. scaled \in Nat
  BY <1>3, <1>4
<1>8. scaled \div d \in Nat /\ scaled % d \in 0..(d - 1) /\ scaled = d * (scaled \div d) + (scaled % d)
  <2> HIDE DEF scaled
  <2> QED
    BY <1>3, <1>7, DivMod
<1>9. reached' \in Nat /\ fraction' \in 0..(d - 1) /\ interrupts' \in Nat
  BY <1>1, <1>4, <1>8
<1>10. reached' * d + fraction' = interrupts' * m
  <2> DEFINE k == scaled \div d
             o == scaled % d
  <2>1. /\ k \in Nat /\ o \in Nat /\ m + fraction = d * k + o
        /\ reached' = reached + k /\ fraction' = o
    BY <1>1, <1>8
  <2> HIDE DEF k, o, scaled
  <2>2. (reached + k) * d = reached * d + d * k /\ (interrupts + 1) * m = interrupts * m + m
    BY <1>3, <1>4, <2>1
  <2>3. /\ reached * d \in Nat /\ d * k \in Nat /\ interrupts * m \in Nat
    BY <1>3, <1>4, <2>1
  <2>4. (reached + k) * d + o = (interrupts + 1) * m
    BY <1>3, <1>4, <2>1, <2>2, <2>3
  <2> QED
    BY <1>1, <2>1, <2>4
<1>11. Grid!Unshaped => interrupts' * m < upcoming * d + m
  <2> SUFFICES ASSUME Grid!Unshaped PROVE interrupts' * m < upcoming * d + m
    OBVIOUS
  <2>1. (reached + 1) * d <= upcoming * d
    BY <1>3, <1>4, <1>5, TimesKeepsOrder
  <2>2. (reached + 1) * d = reached * d + d /\ reached * d \in Nat /\ upcoming * d \in Nat
    BY <1>3, <1>4, <1>5
  <2>3. interrupts * m < upcoming * d
    BY <1>3, <1>4, <2>1, <2>2
  <2>4. interrupts' * m = interrupts * m + m /\ interrupts * m \in Nat
    BY <1>1, <1>3, <1>4
  <2> QED
    BY <1>3, <2>2, <2>3, <2>4
<1>12. (Grid!Unshaped)' => /\ upcoming' = Grid!BaseOffset(config, number)'
                           /\ interrupts' * m' < upcoming' * d' + m'
                           /\ inTick' = 0 \/ (inTick' = 1 /\ reached' < upcoming')
  BY <1>1, <1>5, <1>6, <1>11
<1>13. /\ config' \in Configurations /\ {number, interrupts, reached}' \subseteq Nat
       /\ fraction' \in 0..(d' - 1) /\ reached' * d' + fraction' = interrupts' * m'
  BY <1>1, <1>2, <1>4, <1>6, <1>9, <1>10
<1> QED
  BY <1>12, <1>13 DEF EventsOnTime, m, d

\* Firing an event moves the next one an interval on, which is more than a tick's share.
LEMMA FiringKeepsTime ==
  ASSUME Grid!GridAssumption, EventsOnTime, NEW h \in Grid!Displacements(config, number + 1),
         Grid!FireEvent(h)
  PROVE  EventsOnTime'
<1> DEFINE m == config.tempo.num * GridOne
           d == config.tempo.den
           q == Grid!MinimumInterval(config)
           b == Grid!BaseOffset(config, number)
           b1 == Grid!BaseOffset(config, number + 1)
<1>1. /\ config' = config /\ number' = number + 1 /\ inTick' = inTick + 1
      /\ upcoming' = Grid!Position(config, number + 1, h)
      /\ interrupts' = interrupts /\ reached' = reached /\ fraction' = fraction
      /\ reached >= upcoming
  BY DEF Grid!FireEvent, Grid!Due
<1>2. config \in Configurations
  BY DEF EventsOnTime
<1>3. /\ m \in Nat \ {0} /\ d \in Nat \ {0} /\ q \in Nat /\ m <= q * d
  BY <1>2, ConfigurationTypes, IntervalsRound
<1>4. /\ number \in Nat /\ interrupts \in Nat /\ reached \in Nat /\ fraction \in 0..(d - 1)
      /\ reached * d + fraction = interrupts * m
  BY DEF EventsOnTime
<1>5. Grid!Unshaped => /\ upcoming = b /\ interrupts * m < upcoming * d + m
                       /\ inTick = 0 \/ (inTick = 1 /\ reached < upcoming)
  BY DEF EventsOnTime
<1>6. b \in Nat /\ b1 \in Nat /\ b + q <= b1
  <2>1. b \in Nat /\ b1 \in Nat /\ b + Grid!BaseInterval(config) <= b1
    BY <1>2, <1>4, GridSteps
  <2>2. q <= Grid!BaseInterval(config) /\ Grid!BaseInterval(config) \in Nat
    BY <1>2, GridSteps
  <2> QED
    BY <1>3, <2>1, <2>2
<1>7. Grid!Unshaped => upcoming' = b1
  <2>1. number + 1 \in Nat
    BY <1>4
  <2> QED
    BY <1>1, <1>2, <2>1, StraightPosition
<1>8. m' = m /\ d' = d /\ (Grid!Unshaped)' = Grid!Unshaped
      /\ Grid!BaseOffset(config, number)' = b1
  BY <1>1 DEF Grid!Unshaped
<1> HIDE DEF m, d, q, b, b1
<1>9. Grid!Unshaped => reached < b1 /\ interrupts * m < b1 * d + m
  <2> SUFFICES ASSUME Grid!Unshaped PROVE reached < b1 /\ interrupts * m < b1 * d + m
    OBVIOUS
  <2>1. (b + q) * d <= b1 * d
    BY <1>3, <1>6, TimesKeepsOrder
  <2>2. (b + q) * d = b * d + q * d /\ b * d \in Nat /\ q * d \in Nat /\ b1 * d \in Nat
    BY <1>3, <1>6
  <2>3. interrupts * m < b * d + m /\ interrupts * m \in Nat
    BY <1>3, <1>4, <1>5
  <2>4. interrupts * m < b1 * d
    BY <1>3, <2>1, <2>2, <2>3
  <2>5. reached * d < b1 * d
    <3>1. reached * d \in Nat
      BY <1>3, <1>4
    <3> QED
      BY <1>3, <1>4, <2>2, <2>3, <2>4, <3>1
  <2>6. reached < b1
    BY <1>3, <1>4, <1>6, <2>5, TimesReflectsOrder
  <2> QED
    BY <1>3, <2>2, <2>3, <2>4, <2>6
<1>10. Grid!Unshaped => inTick' = 1
  <2> SUFFICES ASSUME Grid!Unshaped PROVE inTick' = 1
    OBVIOUS
  <2>1. inTick = 0
    BY <1>1, <1>4, <1>5, <1>6
  <2> QED
    BY <1>1, <2>1
<1>11. (Grid!Unshaped)' => /\ upcoming' = Grid!BaseOffset(config, number)'
                           /\ interrupts' * m' < upcoming' * d' + m'
                           /\ inTick' = 1 /\ reached' < upcoming'
  BY <1>1, <1>7, <1>8, <1>9, <1>10
<1>12. /\ config' \in Configurations /\ {number, interrupts, reached}' \subseteq Nat
       /\ fraction' \in 0..(d' - 1) /\ reached' * d' + fraction' = interrupts' * m'
  BY <1>1, <1>2, <1>4, <1>8
<1> QED
  BY <1>11, <1>12 DEF EventsOnTime, m, d

\* EventsKeepTime: however long the clock has run and whatever fractions tempo and rate leave, an
\* event of a straight grid is fired by the first tick that reaches its exact time.
THEOREM EventsAlwaysKeepTime ==
  ASSUME Grid!GridAssumption
  PROVE  Grid!Spec => []Grid!EventsKeepTime
<1>1. Grid!Init => EventsOnTime
  <2> SUFFICES ASSUME Grid!Init PROVE EventsOnTime
    OBVIOUS
  <2> DEFINE m == config.tempo.num * GridOne
             d == config.tempo.den
  <2>1. /\ config \in Configurations /\ number = 0 /\ upcoming = Grid!Position(config, 0, 0)
        /\ interrupts = 0 /\ reached = 0 /\ fraction = 0 /\ inTick = 0
    BY DEF Grid!Init
  <2>2. m \in Nat \ {0} /\ d \in Nat \ {0}
    BY <2>1, ConfigurationTypes
  <2>3. 0 \in Grid!Displacements(config, 0)
    BY DEF Grid!Displacements
  <2>4. Grid!Unshaped => upcoming = Grid!BaseOffset(config, number)
    BY <2>1, <2>3, StraightPosition
  <2>5. Grid!BaseOffset(config, number) = 0
    BY <2>1, GridSteps
  <2> HIDE DEF m, d
  <2>6. 0 * d = 0 /\ 0 * m = 0 /\ 0 \in 0..(d - 1)
    BY <2>2
  <2>7. /\ {number, interrupts, reached} \subseteq Nat /\ fraction \in 0..(d - 1)
        /\ reached * d + fraction = interrupts * m
    BY <2>1, <2>6
  <2>8. Grid!Unshaped => interrupts * m < upcoming * d + m
    BY <2>1, <2>2, <2>4, <2>5, <2>6
  <2>9. Grid!Unshaped => /\ upcoming = Grid!BaseOffset(config, number)
                         /\ interrupts * m < upcoming * d + m
                         /\ inTick = 0 \/ (inTick = 1 /\ reached < upcoming)
    BY <2>1, <2>4, <2>8
  <2>10. config \in Configurations
    BY <2>1
  <2> QED
    BY <2>7, <2>9, <2>10 DEF EventsOnTime, m, d
<1>2. EventsOnTime /\ [Grid!Next]_(Grid!vars) => EventsOnTime'
  <2> SUFFICES ASSUME EventsOnTime, [Grid!Next]_(Grid!vars) PROVE EventsOnTime'
    OBVIOUS
  <2>1. CASE Grid!Tick
    BY <2>1, TickKeepsTime
  <2>2. CASE \E h \in Grid!Displacements(config, number + 1) : Grid!FireEvent(h)
    BY <2>2, FiringKeepsTime
  <2>3. CASE UNCHANGED Grid!vars
    BY <2>3 DEF EventsOnTime, Grid!vars, Grid!Unshaped
  <2> QED
    BY <2>1, <2>2, <2>3 DEF Grid!Next
<1>3. EventsOnTime => Grid!EventsKeepTime
  BY OnTimeMeansKept
<1> QED
  BY <1>1, <1>2, <1>3, PTL DEF Grid!Spec
=============================================================================
