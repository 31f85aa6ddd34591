------------------------------ MODULE HostProofs ------------------------------
(* Theorems about what connects the firmware to its hosts: the two threads and  *)
(* the jacks of the Rack module, the cables and the buttons of the simulator, the *)
(* file it keeps its state in, the stories that the Storybook tool accepts, their *)
(* frames and what it publishes.  Each holds for every value of the constants its *)
(* component allows.                                                            *)
EXTENDS Integers, Sequences, SequenceTheorems, TLAPS

\* The components' constants and variables, under their own names; a name that two of them
\* use stands for either, since no theorem is about both.
CONSTANTS Gestures, Arm, Pulse, MaxTurned, Holds, Capacity, MaxTicks, MaxEdges,
          Images, Erased, Missing, FlushPeriod, Keys, MinPulse, Debounce, MaxPending,
          Commands, MaxRuns, Absent,
          PeriodNum, PeriodDen, Durations, Texts, Faces, Linger, MaxTime, MaxScenes, None,
          Entries, WellFormed, Regions, Malformed

VARIABLES mode, clicked, held, gesture, pointer, detents, settings, at, seen, pending,
          pulse, pressed, meanings, handler, heard, connected, sampled, level, edges, delivered, overflowed,
          host, life, sync, reset, told, locked, followed,
          process, powered, flash, file, last, since, late,
          keysDown, clicking, button, contact, owed, missed, turning, turned, counted,
          command, staging, output, previous, runs, step, had, result, was, failure,
          sparse, now, scene, subtitle, todo, beat, face, panel, count, frame, static, cues, spoken,
          place, filled, checked, run

Rack == INSTANCE RackEncoder
Jack == INSTANCE RackInput
Cables == INSTANCE SimulatorJacks
File == INSTANCE SimulatorFile
Panel == INSTANCE SimulatorPanel
Out == INSTANCE StoryOutput
Film == INSTANCE StoryFrames
Story == INSTANCE StoryRules

-----------------------------------------------------------------------------
(* The Rack module's threads. *)

\* What the mouse does decides the mode, and the mode what the gesture was taken for:
\* one that is undecided for nothing yet, and a later one for nothing.
ModeIsMeant ==
  /\ meanings \in [Gestures -> {{}, {"click"}, {"push"}, {"rotation"}}]
  /\ mode \in {"Idle", "Pending", "Press", "Rotate"}
  /\ pointer \in [down : BOOLEAN, rotating : BOOLEAN]
  /\ gesture \in Nat
  /\ \A g \in Gestures : g > gesture => meanings[g] = {}
  /\ pointer.down = (mode # "Idle")
  /\ pointer.down => /\ gesture \in Gestures
                     /\ mode = "Pending" => meanings[gesture] = {}
                     /\ mode = "Press" => meanings[gesture] = {"push"}
                     /\ mode = "Rotate" => meanings[gesture] = {"rotation"}
  /\ pointer.down /\ pointer.rotating => mode = "Rotate"

\* A gesture presses the encoder.
APress == \E g \in Gestures : meanings[g] \cap {"click", "push"} # {}

\* Something presses control c in this call of process.
Pressing(c) ==
  \/ \E i \in DOMAIN Holds : Holds[i].control = c /\ Holds[i].key \in held.during
  \/ c = "encoder" /\ APress

\* What the audio thread has on its way to the panel: nothing without a cause, and each
\* level it has read that was up all the time.
LevelsAreMeant ==
  /\ held \in [now : SUBSET Rack!Keys, during : SUBSET Rack!Keys, through : SUBSET Rack!Keys]
  /\ held.through \subseteq held.now /\ held.now \subseteq held.during
  /\ pulse \in Nat
  /\ clicked \/ handler = "click" \/ pulse > 0 => APress
  /\ at = "click" /\ seen.mode = "Press" => APress
  /\ at = "keys" =>
       /\ heard.next \in Nat \ {0}
       /\ \A i \in DOMAIN Holds :
            i < heard.next /\ Holds[i].key \in held.through => Holds[i].control \in heard.controls
       /\ \A c \in heard.controls : Pressing(c)
  /\ at = "start" =>
       /\ \A i \in DOMAIN Holds : Holds[i].key \in held.through => Holds[i].control \in pressed
       /\ \A c \in pressed : Pressing(c)

\* The counts of detents add up, and a request that was taken is put back or served.
TurnsAreKept ==
  /\ detents \in [queued : Int, turned : Int, given : Int]
  /\ settings \in [requested : BOOLEAN, wanted : BOOLEAN]
  /\ detents.turned = detents.given + detents.queued
  /\ settings.wanted => settings.requested \/ at = "again"

LEMMA ModeIsMeantInitially ==
  ASSUME Rack!RackEncoderAssumption, Rack!Init PROVE ModeIsMeant
BY DEF ModeIsMeant, Rack!RackEncoderAssumption, Rack!Init

LEMMA ModeIsMeantStep ==
  ASSUME Rack!RackEncoderAssumption, ModeIsMeant, [Rack!Next]_Rack!vars PROVE ModeIsMeant'
<1> USE DEF ModeIsMeant, Rack!RackEncoderAssumption
<1>1. CASE Rack!PointerDown
  <2>1. /\ gesture' = gesture + 1 /\ gesture + 1 \in Gestures /\ mode' = "Pending"
        /\ pointer' = [down |-> TRUE, rotating |-> FALSE] /\ meanings' = meanings
    BY <1>1 DEF Rack!PointerDown
  <2>2. meanings[gesture + 1] = {} /\ gesture + 1 \in Nat
    BY <2>1
  <2>3. \A g \in Gestures : g > gesture + 1 => g > gesture
    BY SMT
  <2> QED
    BY <2>1, <2>2, <2>3
<1>2. CASE Rack!DragMove
  <2>1. CASE pointer.rotating \/ Rack!ClaimRotation
    <3>1. pointer.down /\ mode \in {"Pending", "Rotate"} /\ gesture \in Gestures
      BY <1>2, <2>1 DEF Rack!DragMove, Rack!ClaimRotation
    <3>2. /\ meanings' = [meanings EXCEPT ![gesture] = @ \cup {"rotation"}]
          /\ mode' = "Rotate" /\ gesture' = gesture
          /\ pointer' = [pointer EXCEPT !.rotating = TRUE]
      BY <1>2, <2>1, <3>1 DEF Rack!DragMove, Rack!ClaimRotation, Rack!Meant
    <3>3. meanings[gesture] \cup {"rotation"} = {"rotation"}
      BY <3>1
    <3>4. /\ meanings' \in [Gestures -> {{}, {"click"}, {"push"}, {"rotation"}}]
          /\ meanings'[gesture] = {"rotation"}
          /\ \A g \in Gestures : g > gesture => meanings'[g] = {}
      BY <3>1, <3>2, <3>3
    <3>5. /\ pointer' \in [down : BOOLEAN, rotating : BOOLEAN]
          /\ pointer'.down /\ pointer'.rotating
      BY <3>1, <3>2
    <3> QED
      BY <3>1, <3>2, <3>4, <3>5
  <2>2. CASE ~(pointer.rotating \/ Rack!ClaimRotation)
    BY <1>2, <2>2 DEF Rack!DragMove
  <2> QED
    BY <2>1, <2>2
<1>3. CASE Rack!PointerUp
  <2>1. pointer.down /\ mode' = "Idle" /\ pointer' = [down |-> FALSE, rotating |-> FALSE]
        /\ gesture' = gesture /\ gesture \in Gestures
    BY <1>3 DEF Rack!PointerUp
  <2>2. /\ meanings' \in [Gestures -> {{}, {"click"}, {"push"}, {"rotation"}}]
        /\ \A g \in Gestures : g > gesture => meanings'[g] = {}
    <3>1. CASE mode = "Pending"
      <4>1. meanings' = [meanings EXCEPT ![gesture] = @ \cup {"click"}]
        BY <1>3, <3>1 DEF Rack!PointerUp, Rack!Meant
      <4>2. meanings[gesture] \cup {"click"} = {"click"}
        BY <2>1, <3>1
      <4> QED
        BY <2>1, <4>1, <4>2
    <3>2. CASE mode # "Pending"
      BY <1>3, <3>2 DEF Rack!PointerUp
    <3> QED
      BY <3>1, <3>2
  <2> QED
    BY <2>1, <2>2
<1>4. CASE Rack!ArmPush
  <2>1. CASE mode \in {"Pending", "Press"}
    <3>1. /\ meanings' = [meanings EXCEPT ![gesture] = @ \cup {"push"}]
          /\ mode' = "Press" /\ gesture' = gesture /\ pointer' = pointer
      BY <1>4, <2>1 DEF Rack!ArmPush, Rack!Meant
    <3>2. pointer.down /\ gesture \in Gestures /\ meanings[gesture] \cup {"push"} = {"push"}
      BY <2>1
    <3>3. /\ meanings' \in [Gestures -> {{}, {"click"}, {"push"}, {"rotation"}}]
          /\ meanings'[gesture] = {"push"}
          /\ \A g \in Gestures : g > gesture => meanings'[g] = {}
      BY <3>1, <3>2
    <3>4. ~pointer.rotating
      BY <2>1, <3>2
    <3> QED
      BY <3>1, <3>2, <3>3, <3>4
  <2>2. CASE mode \notin {"Pending", "Press"}
    BY <1>4, <2>2 DEF Rack!ArmPush
  <2> QED
    BY <2>1, <2>2
<1>5. ASSUME UNCHANGED <<mode, gesture, pointer, meanings>> PROVE ModeIsMeant'
  BY <1>5
<1> QED
  BY <1>1, <1>2, <1>3, <1>4, <1>5
  DEF Rack!Next, Rack!User, Rack!Audio, Rack!vars, Rack!audio, Rack!ReportClick, Rack!Hold,
      Rack!Turn, Rack!AskForSettings, Rack!TakeRequest, Rack!PutRequestBack, Rack!TakeDetents,
      Rack!ReadMode, Rack!TakeClick, Rack!ReadHold, Rack!SetControls

LEMMA TurnsAreKeptStep ==
  ASSUME Rack!RackEncoderAssumption, TurnsAreKept, [Rack!Next]_Rack!vars PROVE TurnsAreKept'
<1> USE DEF TurnsAreKept
<1>1. CASE \E d \in {-1, 0, 1} : Rack!Turn(d)
  <2>1. PICK d \in {-1, 0, 1} : Rack!Turn(d)
    BY <1>1
  <2>2. /\ detents' = [detents EXCEPT !.queued = detents.queued + d, !.turned = detents.turned + d]
        /\ settings' = settings /\ at' = at
    BY <2>1 DEF Rack!Turn, Rack!audio
  <2>3. /\ detents' \in [queued : Int, turned : Int, given : Int]
        /\ detents'.turned = detents.turned + d /\ detents'.queued = detents.queued + d
        /\ detents'.given = detents.given
    <3>1. d \in Int /\ detents.queued \in Int /\ detents.turned \in Int /\ detents.given \in Int
      OBVIOUS
    <3>2. detents' = [queued |-> detents.queued + d, turned |-> detents.turned + d,
                      given |-> detents.given]
      BY <2>2
    <3> QED
      BY <3>1, <3>2
  <2>4. detents'.turned = detents'.given + detents'.queued
    BY <2>3
  <2> QED
    BY <2>2, <2>3, <2>4
<1>2. CASE Rack!AskForSettings
  <2>1. settings' = [requested |-> TRUE, wanted |-> TRUE] /\ detents' = detents
    BY <1>2 DEF Rack!AskForSettings
  <2> QED
    BY <2>1
<1>3. CASE \E running \in BOOLEAN : Rack!TakeRequest(running)
  <2>1. PICK running \in BOOLEAN : Rack!TakeRequest(running)
    BY <1>3
  <2> DEFINE again == settings.requested /\ ~running
             wanted == settings.wanted /\ ~(settings.requested /\ running)
  <2>2. /\ settings' = [requested |-> FALSE, wanted |-> wanted] /\ detents' = detents
        /\ again => at' = "again"
    BY <2>1 DEF Rack!TakeRequest
  <2>3. wanted \in BOOLEAN /\ (wanted => again)
    BY <2>1 DEF Rack!TakeRequest
  <2> HIDE DEF again, wanted
  <2> QED
    BY <2>2, <2>3
<1>4. CASE Rack!PutRequestBack
  BY <1>4 DEF Rack!PutRequestBack
<1>5. CASE Rack!TakeDetents
  <2>1. /\ detents' = [queued |-> 0, turned |-> detents.turned,
                       given |-> detents.given + detents.queued]
        /\ settings' = settings /\ at = "turn"
    BY <1>5 DEF Rack!TakeDetents
  <2>2. detents.queued \in Int /\ detents.turned \in Int /\ detents.given \in Int
    OBVIOUS
  <2> QED
    BY <2>1, <2>2
<1>6. ASSUME UNCHANGED <<detents, settings>>, at = "again" => at' = "again" PROVE TurnsAreKept'
  <2>1. settings'.wanted => settings'.requested \/ at' = "again"
    BY <1>6
  <2> QED
    BY <1>6, <2>1
<1> QED
  BY <1>1, <1>2, <1>3, <1>4, <1>5, <1>6
  DEF Rack!Next, Rack!User, Rack!Audio, Rack!vars, Rack!shared, Rack!audio, Rack!PointerDown,
      Rack!DragMove, Rack!PointerUp, Rack!ReportClick, Rack!Hold, Rack!ReadMode, Rack!ArmPush,
      Rack!TakeClick, Rack!ReadHold, Rack!SetControls

\* What a gesture was taken for is never taken back.
LEMMA PressesStay ==
  ASSUME Rack!RackEncoderAssumption, ModeIsMeant, [Rack!Next]_Rack!vars
  PROVE  (APress => APress') /\ \A c : held.during \subseteq held'.during /\ Pressing(c) => Pressing(c)'
<1>1. meanings' = meanings \/ \E what : meanings' = Rack!Meant(what, gesture)
  BY DEF Rack!Next, Rack!User, Rack!Audio, Rack!vars, Rack!audio, Rack!PointerDown, Rack!DragMove,
      Rack!PointerUp, Rack!ReportClick, Rack!Hold, Rack!Turn, Rack!AskForSettings, Rack!TakeRequest,
      Rack!PutRequestBack, Rack!TakeDetents, Rack!ReadMode, Rack!ArmPush, Rack!TakeClick,
      Rack!ReadHold, Rack!SetControls
<1>2. \A g \in Gestures : meanings[g] \subseteq meanings'[g]
  BY <1>1 DEF ModeIsMeant, Rack!Meant
<1>3. APress => APress'
  BY <1>2 DEF APress
<1> QED
  BY <1>3 DEF Pressing

LEMMA LevelsAreMeantStep ==
  ASSUME Rack!RackEncoderAssumption, ModeIsMeant, ModeIsMeant', LevelsAreMeant, [Rack!Next]_Rack!vars
  PROVE  LevelsAreMeant'
<1> USE DEF LevelsAreMeant
<1>1. (APress => APress') /\ \A c : held.during \subseteq held'.during /\ Pressing(c) => Pressing(c)'
  BY PressesStay
<1>2. ASSUME mode' = "Press" PROVE APress'
  BY <1>2 DEF ModeIsMeant, APress
<1>3. DOMAIN Holds = 1..Len(Holds) /\ Len(Holds) \in Nat
  BY DEF Rack!RackEncoderAssumption
<1>4. CASE Rack!PointerUp
  <2>1. handler' = "click" => APress'
    BY <1>4 DEF Rack!PointerUp, Rack!Meant, ModeIsMeant, APress
  <2>2. UNCHANGED <<clicked, held, at, seen, pulse, heard, pressed>>
    BY <1>4 DEF Rack!PointerUp, Rack!audio
  <2> QED
    BY <1>1, <2>1, <2>2
<1>5. CASE Rack!ReportClick
  <2>1. APress /\ UNCHANGED <<held, at, seen, pulse, heard, pressed>>
    BY <1>5 DEF Rack!ReportClick, Rack!audio
  <2> QED
    BY <1>1, <2>1
<1>6. CASE \E k \in Rack!Keys, down \in BOOLEAN : Rack!Hold(k, down)
  <2>1. PICK k \in Rack!Keys, down \in BOOLEAN : Rack!Hold(k, down)
    BY <1>6
  <2>2. UNCHANGED <<clicked, handler, at, seen, pulse, heard, pressed, meanings>>
    BY <2>1 DEF Rack!Hold, Rack!audio
  <2>3. /\ held' \in [now : SUBSET Rack!Keys, during : SUBSET Rack!Keys, through : SUBSET Rack!Keys]
        /\ held'.through \subseteq held'.now /\ held'.now \subseteq held'.during
        /\ held.during \subseteq held'.during /\ held'.through \subseteq held.through
    BY <2>1 DEF Rack!Hold
  <2> QED
    BY <1>1, <2>2, <2>3
<1>7. CASE \E running \in BOOLEAN : Rack!TakeRequest(running)
  <2>1. PICK running \in BOOLEAN : Rack!TakeRequest(running)
    BY <1>7
  <2>2. /\ held' = [held EXCEPT !.during = held.now, !.through = held.now]
        /\ at' \in {"again", "turn"} /\ UNCHANGED <<clicked, handler, pulse, meanings>>
    BY <2>1 DEF Rack!TakeRequest
  <2>3. /\ held' \in [now : SUBSET Rack!Keys, during : SUBSET Rack!Keys, through : SUBSET Rack!Keys]
        /\ held'.through \subseteq held'.now /\ held'.now \subseteq held'.during
    BY <2>2
  <2> QED
    BY <1>1, <2>2, <2>3
<1>8. CASE Rack!ReadMode \/ Rack!ArmPush
  <2>1. at' = "arm" \/ (at' = "click" /\ (seen'.mode = "Press" => mode' = "Press"))
    BY <1>8 DEF Rack!ReadMode, Rack!ArmPush
  <2>2. UNCHANGED <<clicked, held, handler, pulse>>
    BY <1>8 DEF Rack!ReadMode, Rack!ArmPush
  <2> QED
    BY <1>1, <1>2, <2>1, <2>2
<1>9. CASE Rack!TakeClick
  <2>1. /\ at = "click" /\ at' = "keys" /\ clicked' = FALSE
        /\ heard' = [next |-> 1, controls |-> IF seen.mode = "Press" THEN {"encoder"} ELSE {}]
        /\ UNCHANGED <<held, handler, meanings>>
    BY <1>9 DEF Rack!TakeClick
  <2>2. pulse' \in Nat /\ (pulse' > 0 => APress)
    BY <1>9 DEF Rack!TakeClick, Rack!RackEncoderAssumption
  <2>3. heard'.next = 1 /\ \A c \in heard'.controls : c = "encoder" /\ APress
    BY <2>1
  <2>4. \A c \in heard'.controls : Pressing(c)'
    BY <1>1, <2>3 DEF Pressing
  <2>5. \A i \in DOMAIN Holds : ~(i < 1)
    BY <1>3
  <2> QED
    BY <1>1, <2>1, <2>2, <2>3, <2>4, <2>5
<1>10. CASE Rack!ReadHold
  <2> DEFINE hold == Holds[heard.next]
  <2>1. /\ at = "keys" /\ heard.next \in DOMAIN Holds
        /\ heard'.next = heard.next + 1
        /\ heard'.controls = heard.controls \cup (IF hold.key \in held.now THEN {hold.control} ELSE {})
        /\ UNCHANGED <<clicked, held, handler, at, seen, pulse, pressed, meanings>>
    BY <1>10 DEF Rack!ReadHold
  <2>2. ASSUME NEW i \in DOMAIN Holds, i < heard'.next, Holds[i].key \in held.through
        PROVE  Holds[i].control \in heard'.controls
    <3>1. i < heard.next \/ i = heard.next
      BY <1>3, <2>1, <2>2
    <3>2. CASE i = heard.next
      BY <2>1, <2>2, <3>2
    <3> QED
      BY <2>1, <2>2, <3>1, <3>2
  <2>3. \A c \in heard'.controls : Pressing(c)
    <3>1. hold.key \in held.now => Pressing(hold.control)
      BY <2>1 DEF Pressing
    <3> HIDE DEF hold
    <3> QED
      BY <2>1, <3>1
  <2>4. heard'.next \in Nat \ {0}
    BY <1>3, <2>1
  <2> HIDE DEF hold
  <2> QED
    BY <1>1, <2>1, <2>2, <2>3, <2>4
<1>11. CASE Rack!SetControls
  <2>1. /\ at = "keys" /\ heard.next \notin DOMAIN Holds /\ at' = "start"
        /\ pressed' = heard.controls \cup (IF pulse > 0 THEN {"encoder"} ELSE {})
        /\ pulse' = IF pulse > 0 THEN pulse - 1 ELSE 0
        /\ UNCHANGED <<clicked, held, handler, meanings>>
    BY <1>11 DEF Rack!SetControls
  <2>2. \A i \in DOMAIN Holds : i < heard.next
    BY <1>3, <2>1
  <2>3. \A c \in pressed' : Pressing(c)
    BY <2>1 DEF Pressing
  <2>4. pulse' \in Nat /\ (pulse' > 0 => APress)
    BY <2>1
  <2> QED
    BY <1>1, <2>1, <2>2, <2>3, <2>4
<1>12. ASSUME UNCHANGED <<clicked, held, pulse, seen, heard, pressed>>,
              handler' \in {handler, "none", "turn"},
              at' = at \/ at' \in {"turn", "read"}
       PROVE  LevelsAreMeant'
  BY <1>1, <1>12
<1> QED
  BY <1>4, <1>5, <1>6, <1>7, <1>8, <1>9, <1>10, <1>11, <1>12
  DEF Rack!Next, Rack!User, Rack!Audio, Rack!vars, Rack!audio, Rack!PointerDown, Rack!DragMove,
      Rack!Turn, Rack!AskForSettings, Rack!PutRequestBack, Rack!TakeDetents

\* A press of the mouse over the encoder is a click, a push or a rotation and stays what it
\* was, whatever the order of the two threads (CLOCK.cpp:199-208, 239-245, 269-289).
THEOREM GesturesHaveOneMeaning ==
  Rack!RackEncoderAssumption /\ Rack!Spec => []Rack!OneMeaning
<1> SUFFICES ASSUME Rack!RackEncoderAssumption PROVE Rack!Spec => []Rack!OneMeaning
  OBVIOUS
<1>1. Rack!Init => ModeIsMeant
  BY ModeIsMeantInitially
<1>2. ModeIsMeant /\ [Rack!Next]_Rack!vars => ModeIsMeant'
  BY ModeIsMeantStep
<1>3. ModeIsMeant => Rack!OneMeaning
  BY DEF ModeIsMeant, Rack!OneMeaning
<1> QED
  BY <1>1, <1>2, <1>3, PTL DEF Rack!Spec

\* No detent and no request for the settings is lost between the threads
\* (CLOCK.cpp:189-193, 211-213, 255-266).
THEOREM RackLosesNothing ==
  Rack!RackEncoderAssumption /\ Rack!Spec => []Rack!NothingIsLost
<1> SUFFICES ASSUME Rack!RackEncoderAssumption PROVE Rack!Spec => []Rack!NothingIsLost
  OBVIOUS
<1>1. Rack!Init => TurnsAreKept
  BY DEF Rack!Init, TurnsAreKept
<1>2. TurnsAreKept /\ [Rack!Next]_Rack!vars => TurnsAreKept'
  BY TurnsAreKeptStep
<1>3. TurnsAreKept => Rack!NothingIsLost
  BY DEF TurnsAreKept, Rack!NothingIsLost
<1> QED
  BY <1>1, <1>2, <1>3, PTL DEF Rack!Spec

\* The firmware is shown the controls that are held, and the encoder for a gesture that was
\* a click or a push; one that became a rotation never presses it (CLOCK.cpp:293-316).
THEOREM PanelShowsWhatIsHeld ==
  Rack!RackEncoderAssumption /\ Rack!Spec => []Rack!ControlsAreMeant
<1> SUFFICES ASSUME Rack!RackEncoderAssumption PROVE Rack!Spec => []Rack!ControlsAreMeant
  OBVIOUS
<1>1. Rack!Init => ModeIsMeant /\ LevelsAreMeant
  <2>1. Rack!Init => ModeIsMeant
    BY ModeIsMeantInitially
  <2>2. Rack!Init => LevelsAreMeant
    BY DEF Rack!Init, LevelsAreMeant
  <2> QED
    BY <2>1, <2>2
<1>2. ModeIsMeant /\ LevelsAreMeant /\ [Rack!Next]_Rack!vars => ModeIsMeant' /\ LevelsAreMeant'
  BY ModeIsMeantStep, LevelsAreMeantStep
<1>3. LevelsAreMeant => Rack!ControlsAreMeant
  BY DEF LevelsAreMeant, Pressing, APress, Rack!ControlsAreMeant
<1> QED
  BY <1>1, <1>2, <1>3, PTL DEF Rack!Spec

-----------------------------------------------------------------------------
(* The jacks of the Rack module. *)

Levels == BOOLEAN

LEMMA NothingWaits ==
  /\ <<>> \in Seq(Levels) /\ Len(<<>>) = 0
  /\ <<>> = <<>> \o <<>>
BY EmptySeq, ConcatEmptySeq

\* The queue continues what the scheduler has taken and ends on the level sampled last.
QueueIsInOrder ==
  /\ pending \in Seq(Levels) /\ Len(pending) <= Capacity
  /\ edges \in Seq(Levels) /\ delivered \in Seq(Levels)
  /\ sampled \in Levels /\ level \in Levels /\ overflowed \in BOOLEAN
  /\ Jack!EdgesArrive

\* Taking levels from the head of a queue leaves the rest of it.
LEMMA TakenAndRest ==
  ASSUME NEW queue \in Seq(Levels), NEW ticks \in Nat
  PROVE  LET taken == Jack!Taken(queue, ticks)
             rest == SubSeq(queue, Len(taken) + 1, Len(queue))
         IN /\ taken \in Seq(Levels) /\ rest \in Seq(Levels) /\ queue = taken \o rest
            /\ Len(taken) = (IF ticks < Len(queue) THEN ticks ELSE Len(queue))
            /\ Len(rest) <= Len(queue)
            /\ taken # <<>> => taken[Len(taken)] = queue[Len(taken)]
            /\ rest # <<>> => rest[Len(rest)] = queue[Len(queue)]
            /\ rest = <<>> <=> ticks >= Len(queue)
            /\ taken = <<>> <=> ticks = 0 \/ Len(queue) = 0
<1> DEFINE n == IF ticks < Len(queue) THEN ticks ELSE Len(queue)
           taken == SubSeq(queue, 1, n)
           rest == SubSeq(queue, n + 1, Len(queue))
<1>1. Len(queue) \in Nat /\ n \in 0..Len(queue)
  BY LenProperties
<1>2. \A i \in 1..Len(queue) : queue[i] \in Levels
  BY ElementOfSeq
<1> HIDE DEF n
<1>3. /\ taken \in Seq(Levels) /\ Len(taken) = n
      /\ \A i \in 1..n : taken[i] = queue[i]
  <2>1. \A i \in 1..n : queue[i] \in Levels
    BY <1>1, <1>2
  <2>2. /\ SubSeq(queue, 1, n) \in Seq(Levels)
        /\ Len(SubSeq(queue, 1, n)) = IF 1 <= n THEN n - 1 + 1 ELSE 0
        /\ \A i \in 1..n - 1 + 1 : SubSeq(queue, 1, n)[i] = queue[1 + i - 1]
    BY <1>1, <2>1, SubSeqProperties
  <2> QED
    BY <1>1, <2>2
<1>4. /\ rest \in Seq(Levels) /\ Len(rest) = Len(queue) - n
      /\ \A i \in 1..Len(queue) - n : rest[i] = queue[n + i]
  <2>1. \A i \in n + 1..Len(queue) : queue[i] \in Levels
    BY <1>1, <1>2
  <2>2. /\ SubSeq(queue, n + 1, Len(queue)) \in Seq(Levels)
        /\ Len(SubSeq(queue, n + 1, Len(queue)))
             = IF n + 1 <= Len(queue) THEN Len(queue) - (n + 1) + 1 ELSE 0
        /\ \A i \in 1..Len(queue) - (n + 1) + 1 :
             SubSeq(queue, n + 1, Len(queue))[i] = queue[n + 1 + i - 1]
    BY <1>1, <2>1, SubSeqProperties
  <2> QED
    BY <1>1, <2>2
<1>5. queue = taken \o rest
  <2>1. taken \o rest = SubSeq(queue, 1, Len(queue))
    <3>1. 1 \in 1..Len(queue) + 1 /\ n \in 1 - 1..Len(queue) /\ Len(queue) \in n..Len(queue)
      BY <1>1
    <3> QED
      BY <3>1, ConcatAdjacentSubSeq, Zenon
  <2> QED
    BY <2>1, SubSeqFull
<1>6. /\ taken # <<>> <=> n > 0
      /\ rest # <<>> <=> n < Len(queue)
  BY <1>1, <1>3, <1>4, EmptySeq
<1>7. Jack!Taken(queue, ticks) = taken
  BY DEF Jack!Taken, n
<1>8. /\ taken # <<>> => taken[Len(taken)] = queue[Len(taken)]
      /\ rest # <<>> => rest[Len(rest)] = queue[Len(queue)]
  <2>1. ASSUME taken # <<>> PROVE taken[Len(taken)] = queue[Len(taken)]
    BY <1>1, <1>3, <1>6, <2>1
  <2>2. ASSUME rest # <<>> PROVE rest[Len(rest)] = queue[Len(queue)]
    <3>1. Len(queue) - n \in 1..Len(queue) - n /\ n + (Len(queue) - n) = Len(queue)
      BY <1>1, <1>6, <2>2
    <3> QED
      BY <1>4, <3>1
  <2> QED
    BY <2>1, <2>2
<1>9. /\ rest = <<>> <=> ticks >= Len(queue)
      /\ taken = <<>> <=> ticks = 0 \/ Len(queue) = 0
  <2>1. /\ n > 0 <=> ticks # 0 /\ Len(queue) # 0
        /\ n < Len(queue) <=> ticks < Len(queue)
    BY <1>1 DEF n
  <2> QED
    BY <1>1, <1>6, <2>1
<1>10. Len(rest) <= Len(queue)
  BY <1>1, <1>4
<1> HIDE DEF taken, rest
<1> QED
  BY <1>3, <1>4, <1>5, <1>7, <1>8, <1>9, <1>10 DEF n, rest

LEMMA QueueIsInOrderStep ==
  ASSUME Jack!RackInputAssumption, QueueIsInOrder, [Jack!Next]_Jack!vars PROVE QueueIsInOrder'
<1>1. ASSUME NEW voltage \in {"low", "between", "high"}, NEW ticks \in 0..MaxTicks,
             Jack!Sample(voltage, ticks)
      PROVE  QueueIsInOrder'
  <2> DEFINE high == Jack!Seen(voltage, sampled)
             queue == Jack!Queued(high)
             taken == Jack!Taken(queue, ticks)
             rest == SubSeq(queue, Len(taken) + 1, Len(queue))
  <2>1. /\ edges' = (IF high = sampled THEN edges ELSE Append(edges, high))
        /\ sampled' = high /\ pending' = rest
        /\ level' = (IF ticks > Len(queue) THEN high
                     ELSE IF taken = <<>> THEN level ELSE taken[Len(taken)])
        /\ delivered' = delivered \o taken
        /\ overflowed' = (overflowed \/ (high # sampled /\ Len(pending) = Capacity))
    BY <1>1 DEF Jack!Sample
  <2>2. high \in Levels
    BY DEF Jack!Seen, QueueIsInOrder, Levels
  <2> HIDE DEF high
  <2>3. /\ queue \in Seq(Levels) /\ Len(queue) <= Capacity
        /\ high = (IF queue = <<>> THEN level ELSE queue[Len(queue)])
        /\ queue = <<>> => pending = <<>> /\ high = sampled
    <3>1. CASE high = sampled
      BY <3>1 DEF Jack!Queued, QueueIsInOrder, Jack!EdgesArrive
    <3>2. CASE high # sampled /\ Len(pending) < Capacity
      <4>1. queue = Append(pending, high)
        BY <3>2 DEF Jack!Queued
      <4>2. /\ queue \in Seq(Levels) /\ Len(queue) = Len(pending) + 1
            /\ queue[Len(queue)] = high /\ Len(pending) \in Nat
        BY <2>2, <4>1 DEF QueueIsInOrder
      <4>3. queue # <<>>
        BY <4>2, EmptySeq
      <4>4. Len(queue) <= Capacity
        BY <3>2, <4>2 DEF Jack!RackInputAssumption
      <4> QED
        BY <4>2, <4>3, <4>4
    <3>3. CASE high # sampled /\ ~(Len(pending) < Capacity)
      <4>1. queue = <<high>>
        BY <3>3 DEF Jack!Queued
      <4> QED
        BY <2>2, <4>1 DEF Jack!RackInputAssumption
    <3> QED
      BY <3>1, <3>2, <3>3
  <2>4. ticks \in Nat
    BY DEF Jack!RackInputAssumption
  <2>5. /\ taken \in Seq(Levels) /\ rest \in Seq(Levels) /\ queue = taken \o rest
        /\ Len(taken) = (IF ticks < Len(queue) THEN ticks ELSE Len(queue))
        /\ Len(rest) <= Len(queue)
        /\ taken # <<>> => taken[Len(taken)] = queue[Len(taken)]
        /\ rest # <<>> => rest[Len(rest)] = queue[Len(queue)]
        /\ rest = <<>> <=> ticks >= Len(queue)
        /\ taken = <<>> <=> ticks = 0 \/ Len(queue) = 0
    <3> HIDE DEF queue
    <3> QED
      BY <2>3, <2>4, TakenAndRest
  <2>6. ~overflowed' => edges' = delivered \o queue
    <3>1. CASE high = sampled
      BY <2>1, <3>1 DEF Jack!Queued, QueueIsInOrder, Jack!EdgesArrive
    <3>2. CASE high # sampled /\ ~overflowed'
      <4>1. Len(pending) # Capacity /\ ~overflowed
        BY <2>1, <3>2
      <4>2. Len(pending) < Capacity
        <5>1. Len(pending) \in Nat /\ Len(pending) <= Capacity /\ Capacity \in Nat
          BY LenProperties DEF QueueIsInOrder, Jack!RackInputAssumption
        <5> QED
          BY <4>1, <5>1
      <4>3. queue = Append(pending, high) /\ edges' = Append(delivered \o pending, high)
        BY <2>1, <3>2, <4>1, <4>2 DEF Jack!Queued, QueueIsInOrder, Jack!EdgesArrive
      <4>4. Append(delivered \o pending, high) = delivered \o Append(pending, high)
        <5>1. delivered \in Seq(Levels) /\ pending \in Seq(Levels)
          BY DEF QueueIsInOrder
        <5>2. delivered \o pending \in Seq(Levels) /\ <<high>> \in Seq(Levels)
          BY <2>2, <5>1
        <5>3. Append(delivered \o pending, high) = (delivered \o pending) \o <<high>>
          BY <2>2, <5>2, AppendIsConcat
        <5>4. Append(pending, high) = pending \o <<high>>
          BY <2>2, <5>1, AppendIsConcat
        <5>5. (delivered \o pending) \o <<high>> = delivered \o (pending \o <<high>>)
          BY <5>1, <5>2, ConcatAssociative
        <5> QED
          BY <5>3, <5>4, <5>5
      <4> QED
        BY <4>3, <4>4
    <3> QED
      BY <3>1, <3>2
  <2>7. /\ pending \in Seq(Levels) /\ edges \in Seq(Levels) /\ delivered \in Seq(Levels)
        /\ sampled \in Levels /\ level \in Levels /\ overflowed \in BOOLEAN
    BY DEF QueueIsInOrder
  <2> HIDE DEF queue, taken, rest
  <2>8. Len(queue) \in Nat /\ (queue # <<>> <=> Len(queue) > 0)
    <3>1. Len(queue) \in Nat
      BY <2>3, LenProperties
    <3>2. queue # <<>> => Len(queue) \in Nat \ {0}
      BY <2>3, EmptySeq
    <3>3. queue = <<>> => Len(queue) = 0
      BY EmptySeq
    <3> QED
      BY <3>1, <3>2, <3>3
  <2>9. Len(taken) \in Nat /\ (taken # <<>> => Len(taken) \in 1..Len(taken))
    <3>1. Len(taken) \in Nat /\ (taken # <<>> => Len(taken) \in Nat \ {0})
      BY <2>5, LenProperties, EmptySeq
    <3> QED
      BY <3>1
  <2>10. level' \in Levels
    <3>1. taken # <<>> => taken[Len(taken)] \in Levels
      BY <2>5, <2>9, ElementOfSeq
    <3> QED
      BY <2>1, <2>2, <2>7, <3>1
  <2>11. sampled' = (IF pending' = <<>> THEN level' ELSE pending'[Len(pending')])
    <3>1. CASE rest # <<>>
      <4>1. queue # <<>>
        BY <2>4, <2>5, <2>8, <3>1
      <4> QED
        BY <2>1, <2>3, <2>5, <3>1, <4>1
    <3>2. CASE rest = <<>> /\ ticks > Len(queue)
      BY <2>1, <3>2
    <3>3. CASE rest = <<>> /\ ~(ticks > Len(queue))
      <4>1. ticks = Len(queue) /\ Len(taken) = Len(queue)
        BY <2>4, <2>5, <2>8, <3>3
      <4>2. CASE queue = <<>>
        <5>1. taken = <<>> /\ high = level
          BY <2>3, <2>5, <2>8, <4>1, <4>2
        <5> QED
          BY <2>1, <3>3, <5>1
      <4>3. CASE queue # <<>>
        <5>1. taken # <<>> /\ taken[Len(taken)] = high
          BY <2>3, <2>5, <2>8, <4>1, <4>3
        <5> QED
          BY <2>1, <3>3, <5>1
      <4> QED
        BY <4>2, <4>3
    <3> QED
      BY <3>1, <3>2, <3>3
  <2>12. ~overflowed' => edges' = delivered' \o pending'
    <3>1. (delivered \o taken) \o rest = delivered \o (taken \o rest)
      <4>1. delivered \in Seq(Levels) /\ taken \in Seq(Levels) /\ rest \in Seq(Levels)
        BY <2>5, <2>7
      <4> QED
        BY <4>1, ConcatAssociative
    <3> QED
      BY <2>1, <2>5, <2>6, <3>1
  <2>13. /\ pending' \in Seq(Levels) /\ edges' \in Seq(Levels) /\ delivered' \in Seq(Levels)
         /\ sampled' \in Levels /\ overflowed' \in BOOLEAN
    BY <2>1, <2>2, <2>5, <2>7
  <2>14. Len(pending') <= Capacity
    <3>1. Len(rest) \in Nat
      BY <2>5, LenProperties
    <3> QED
      BY <2>1, <2>3, <2>5, <2>8, <3>1 DEF Jack!RackInputAssumption
  <2> QED
    BY <2>10, <2>11, <2>12, <2>13, <2>14 DEF QueueIsInOrder, Jack!EdgesArrive
<1>2. CASE Jack!Unplugged
  <2>1. Len(<<>>) <= Capacity
    BY NothingWaits DEF Jack!RackInputAssumption
  <2> QED
    BY <1>2, <2>1, NothingWaits DEF Jack!Unplugged, QueueIsInOrder, Jack!EdgesArrive, Levels
<1>3. CASE UNCHANGED Jack!vars
  BY <1>3 DEF Jack!vars, QueueIsInOrder, Jack!EdgesArrive
<1> QED
  BY <1>1, <1>2, <1>3 DEF Jack!Next

\* Every edge sampled at a jack is given to the scheduler in order, unless the jack outran
\* the queue, and the scheduler ends on the level sampled last even then
\* (clock_vcv_runtime.cpp:42-83).
THEOREM JackEdgesArrive ==
  Jack!RackInputAssumption /\ Jack!Spec => []Jack!EdgesArrive
<1> SUFFICES ASSUME Jack!RackInputAssumption PROVE Jack!Spec => []Jack!EdgesArrive
  OBVIOUS
<1>1. Jack!Init => QueueIsInOrder
  <2>1. Len(<<>>) <= Capacity
    BY NothingWaits DEF Jack!RackInputAssumption
  <2> QED
    BY <2>1, NothingWaits DEF Jack!Init, QueueIsInOrder, Jack!EdgesArrive, Levels
<1>2. QueueIsInOrder /\ [Jack!Next]_Jack!vars => QueueIsInOrder'
  BY QueueIsInOrderStep
<1>3. QueueIsInOrder => Jack!EdgesArrive
  BY DEF QueueIsInOrder
<1> QED
  BY <1>1, <1>2, <1>3, PTL DEF Jack!Spec

-----------------------------------------------------------------------------
(* The jacks of the simulated module. *)

Jacks == [cable : BOOLEAN, generator : BOOLEAN, direct : BOOLEAN, level : BOOLEAN,
          comparator : BOOLEAN, fresh : BOOLEAN]

\* A comparator is high only while the application runs and something drives its jack.
Driven(s) == s.comparator => s.cable /\ (s.direct \/ s.generator)
LevelsAreTold ==
  /\ host \in {"desktop", "rack"} /\ life \in {"Off", "Booting", "Game", "Running"}
  /\ sync \in Jacks /\ reset \in Jacks /\ told \in [sync : BOOLEAN, reset : BOOLEAN]
  /\ Driven(sync) /\ Driven(reset)
  /\ life # "Running" => /\ ~sync.comparator /\ ~reset.comparator
                         /\ ~told.sync /\ ~told.reset
  /\ Cables!NoLevelHangs

\* What servicing a jack makes of its comparator and of the level that was told of it.
LEMMA ServicedLevels ==
  ASSUME NEW s \in Jacks, NEW wave \in BOOLEAN, NEW knows \in BOOLEAN, Driven(s),
         life # "Running" => ~s.comparator
  PROVE  LET after == Cables!Serviced(s, wave)
             told1 == Cables!Heard(s, wave, knows)
         IN /\ after \in Jacks /\ Driven(after) /\ told1 \in BOOLEAN
            /\ (knows => s.comparator) => (told1 => after.comparator)
            /\ (s.comparator => knows) => (after.comparator => told1)
            /\ life # "Running" => ~after.comparator /\ told1 = knows
<1> DEFINE high == Cables!Level(s, wave)
<1>1. /\ high \in BOOLEAN
      /\ high => s.cable /\ (s.direct \/ s.generator)
      /\ life # "Running" => ~high
  BY DEF Cables!Level, Cables!Running, Jacks
<1> HIDE DEF high
<1>2. /\ Cables!Serviced(s, wave) = [s EXCEPT !.comparator = high, !.fresh = FALSE]
      /\ Cables!Heard(s, wave, knows)
           = (IF life = "Running" /\ s.cable /\ (s.direct \/ s.generator) /\ s.comparator # high
              THEN high ELSE knows)
  BY DEF Cables!Serviced, Cables!Heard, Cables!Running, high
<1>3. /\ Cables!Serviced(s, wave) \in Jacks
      /\ Cables!Serviced(s, wave).comparator = high
      /\ Cables!Serviced(s, wave).cable = s.cable
      /\ Cables!Serviced(s, wave).direct = s.direct
      /\ Cables!Serviced(s, wave).generator = s.generator
  BY <1>1, <1>2 DEF Jacks
<1>4. s.comparator \in BOOLEAN /\ (s.comparator => s.cable /\ (s.direct \/ s.generator))
  BY DEF Jacks, Driven
<1> DEFINE after == Cables!Serviced(s, wave)
           told1 == Cables!Heard(s, wave, knows)
<1>5. after \in Jacks /\ after.comparator = high /\ Driven(after)
  BY <1>1, <1>3 DEF Driven
<1>6. /\ told1 \in BOOLEAN
      /\ life # "Running" => ~high /\ told1 = knows
      /\ s.cable /\ (s.direct \/ s.generator) /\ life = "Running" /\ s.comparator # high
           => told1 = high
      /\ ~(s.cable /\ (s.direct \/ s.generator) /\ life = "Running" /\ s.comparator # high)
           => told1 = knows
  BY <1>1, <1>2
<1> HIDE DEF after, told1
<1>7. (knows => s.comparator) => (told1 => high)
  <2> SUFFICES ASSUME knows => s.comparator, told1, ~high PROVE FALSE
    OBVIOUS
  <2>1. told1 = knows /\ knows /\ s.comparator /\ life = "Running"
    BY <1>1, <1>4, <1>6
  <2> QED
    BY <1>1, <1>4, <1>6, <2>1
<1>8. (s.comparator => knows) => (high => told1)
  BY <1>1, <1>4, <1>6
<1> QED
  BY <1>5, <1>6, <1>7, <1>8 DEF after, told1

\* A jack that is acquired anew is low, one whose cable or generator is toggled is not
\* serviced yet.
LEMMA ToggledJacks ==
  ASSUME NEW s \in Jacks
  PROVE  /\ Cables!Acquire(s) \in Jacks /\ ~Cables!Acquire(s).comparator
         /\ Cables!ToggleCable(s) \in Jacks /\ Cables!ToggleGenerator(s) \in Jacks
         /\ Cables!ToggleCable(s).comparator = s.comparator
         /\ Cables!ToggleGenerator(s).comparator = s.comparator
BY DEF Jacks, Cables!Acquire, Cables!ToggleCable, Cables!ToggleGenerator

\* A level that a host drives is told as it is, unless the cable is pulled.
LEMMA DrivenJacks ==
  ASSUME NEW s \in Jacks, NEW connect \in BOOLEAN, NEW high \in BOOLEAN, NEW knows \in BOOLEAN,
         Driven(s), life # "Running" => ~s.comparator
  PROVE  LET after == Cables!Driven(s, connect, high)
             told1 == Cables!AfterDrive(knows, s, connect)
         IN /\ after \in Jacks /\ Driven(after) /\ told1 \in BOOLEAN
            /\ knows = s.comparator => told1 = after.comparator
            /\ after.comparator => s.comparator
            /\ told1 => knows
<1> DEFINE kept == s.comparator /\ (connect \/ life # "Running")
<1>1. Cables!Driven(s, connect, high)
        = [s EXCEPT !.direct = TRUE, !.level = connect /\ high, !.cable = connect,
                    !.generator = FALSE, !.comparator = kept]
  BY DEF Cables!Driven, Cables!Running
<1>2. kept \in BOOLEAN /\ (connect /\ high) \in BOOLEAN /\ s.comparator \in BOOLEAN
  BY DEF Jacks
<1>3. /\ kept => connect
      /\ kept => s.comparator
  OBVIOUS
<1>4. /\ Cables!AfterDrive(knows, s, connect) \in BOOLEAN
      /\ knows = s.comparator => Cables!AfterDrive(knows, s, connect) = kept
      /\ Cables!AfterDrive(knows, s, connect) => knows
  BY <1>2 DEF Cables!AfterDrive, Cables!Running
<1> HIDE DEF kept
<1>5. /\ Cables!Driven(s, connect, high) \in Jacks
      /\ Cables!Driven(s, connect, high).comparator = kept
      /\ Cables!Driven(s, connect, high).cable = connect
      /\ Cables!Driven(s, connect, high).direct = TRUE
  BY <1>1, <1>2 DEF Jacks
<1> QED
  BY <1>3, <1>4, <1>5 DEF Driven

LEMMA LevelsAreToldStep == LevelsAreTold /\ [Cables!Next]_Cables!vars => LevelsAreTold'
<1> SUFFICES ASSUME LevelsAreTold, [Cables!Next]_Cables!vars PROVE LevelsAreTold'
  OBVIOUS
<1> USE DEF LevelsAreTold, Cables!NoLevelHangs
<1>1. CASE Cables!Desktop
  <2>1. host = "desktop" /\ host' = host /\ life' = life
    BY <1>1 DEF Cables!Desktop
  <2>2. ASSUME NEW s \in Jacks, Cables!AcquireSync(s) PROVE LevelsAreTold'
    <3>1. /\ sync' \in Jacks /\ ~sync'.comparator /\ told' = told /\ reset' = reset
      BY <2>2, ToggledJacks DEF Cables!AcquireSync
    <3> QED
      BY <2>1, <3>1 DEF Driven
  <2>3. ASSUME NEW s \in Jacks, s.comparator = reset.comparator, Cables!AcquireReset(s)
        PROVE  LevelsAreTold'
    <3>1. reset' \in Jacks /\ ~reset'.comparator /\ sync' = sync
      BY <2>3, ToggledJacks DEF Cables!AcquireReset
    <3>2. /\ told' \in [sync : BOOLEAN, reset : BOOLEAN]
          /\ ~told'.reset /\ told'.sync = told.sync
      BY <2>3 DEF Cables!AcquireReset, Cables!Running
    <3> QED
      BY <2>1, <3>1, <3>2 DEF Driven
  <2>4. ASSUME sync' = [Cables!ToggleGenerator(sync) EXCEPT !.comparator = FALSE],
               told' = (IF sync.comparator /\ Cables!Running
                        THEN [told EXCEPT !.sync = FALSE] ELSE told),
               reset' = reset
        PROVE  LevelsAreTold'
    <3>1. sync' \in Jacks /\ ~sync'.comparator
      <4>1. Cables!ToggleGenerator(sync) \in Jacks
        BY ToggledJacks
      <4>2. \A s \in Jacks : /\ [s EXCEPT !.comparator = FALSE] \in Jacks
                             /\ ~[s EXCEPT !.comparator = FALSE].comparator
        BY DEF Jacks
      <4> QED
        BY <2>4, <4>1, <4>2
    <3>2. /\ told' \in [sync : BOOLEAN, reset : BOOLEAN] /\ told'.reset = told.reset
          /\ told'.sync => told.sync
      BY <2>4
    <3> QED
      BY <2>1, <2>4, <3>1, <3>2 DEF Driven
  <2> QED
    BY <1>1, <2>2, <2>3, <2>4, ToggledJacks
    DEF Cables!Desktop, Cables!SyncCable, Cables!SyncGenerator, Cables!RetuneSync,
        Cables!ResetCable, Cables!ResetGenerator, Cables!RetuneReset
<1>2. CASE Cables!TriggerResetPulse
  BY <1>2 DEF Cables!TriggerResetPulse
<1>3. ASSUME NEW connect \in BOOLEAN, NEW high \in BOOLEAN, Cables!Drive(connect, high)
      PROVE  LevelsAreTold'
  <2>1. host = "rack" /\ host' = host /\ life' = life
    BY <1>3 DEF Cables!Drive
  <2>2. /\ told.sync \in BOOLEAN /\ told.reset \in BOOLEAN
        /\ told.sync = sync.comparator /\ told.reset = reset.comparator
    BY <2>1
  <2>3. CASE Cables!DriveSync(connect, high)
    <3> DEFINE knows == Cables!AfterDrive(told.sync, sync, connect)
    <3>1. /\ sync' = Cables!Driven(sync, connect, high) /\ reset' = reset
          /\ told' = [told EXCEPT !.sync = knows]
      BY <2>3 DEF Cables!DriveSync
    <3>2. /\ sync' \in Jacks /\ Driven(sync') /\ knows \in BOOLEAN
          /\ knows = sync'.comparator /\ (knows => told.sync)
      BY <2>2, <3>1, DrivenJacks
    <3> HIDE DEF knows
    <3>3. /\ told' \in [sync : BOOLEAN, reset : BOOLEAN]
          /\ told'.sync = knows /\ told'.reset = told.reset
      BY <3>1, <3>2
    <3> QED
      BY <2>1, <2>2, <3>1, <3>2, <3>3
  <2>4. CASE Cables!DriveReset(connect, high)
    <3> DEFINE knows == Cables!AfterDrive(told.reset, reset, connect)
    <3>1. /\ reset' = Cables!Driven(reset, connect, high) /\ sync' = sync
          /\ told' = [told EXCEPT !.reset = knows]
      BY <2>4 DEF Cables!DriveReset
    <3>2. /\ reset' \in Jacks /\ Driven(reset') /\ knows \in BOOLEAN
          /\ knows = reset'.comparator /\ (knows => told.reset)
      BY <2>2, <3>1, DrivenJacks
    <3> HIDE DEF knows
    <3>3. /\ told' \in [sync : BOOLEAN, reset : BOOLEAN]
          /\ told'.reset = knows /\ told'.sync = told.sync
      BY <3>1, <3>2
    <3> QED
      BY <2>1, <2>2, <3>1, <3>2, <3>3
  <2> QED
    BY <1>3, <2>3, <2>4 DEF Cables!Drive
<1>4. ASSUME NEW syncWave \in BOOLEAN, NEW resetWave \in BOOLEAN, NEW lock \in BOOLEAN,
             Cables!Tick(syncWave, resetWave, lock)
      PROVE  LevelsAreTold'
  <2> DEFINE heardSync == Cables!Heard(sync, syncWave, told.sync)
             heardReset == Cables!Heard(reset, resetWave, told.reset)
  <2>1. /\ sync' = Cables!Serviced(sync, syncWave) /\ reset' = Cables!Serviced(reset, resetWave)
        /\ told' = [sync |-> heardSync, reset |-> heardReset]
        /\ host' = host /\ life' = life
    BY <1>4 DEF Cables!Tick
  <2>2. told.sync \in BOOLEAN /\ told.reset \in BOOLEAN
    OBVIOUS
  <2>3. /\ sync' \in Jacks /\ Driven(sync') /\ heardSync \in BOOLEAN
        /\ (told.sync => sync.comparator) => (heardSync => sync'.comparator)
        /\ (sync.comparator => told.sync) => (sync'.comparator => heardSync)
        /\ life # "Running" => ~sync'.comparator /\ heardSync = told.sync
    BY <2>1, <2>2, ServicedLevels
  <2>4. /\ reset' \in Jacks /\ Driven(reset') /\ heardReset \in BOOLEAN
        /\ (told.reset => reset.comparator) => (heardReset => reset'.comparator)
        /\ (reset.comparator => told.reset) => (reset'.comparator => heardReset)
        /\ life # "Running" => ~reset'.comparator /\ heardReset = told.reset
    BY <2>1, <2>2, ServicedLevels
  <2> HIDE DEF heardSync, heardReset
  <2>5. /\ told' \in [sync : BOOLEAN, reset : BOOLEAN]
        /\ told'.sync = heardSync /\ told'.reset = heardReset
    BY <2>1, <2>3, <2>4
  <2>6. sync'.comparator \in BOOLEAN /\ reset'.comparator \in BOOLEAN
    BY <2>3, <2>4 DEF Jacks
  <2>7. /\ told'.reset => reset'.comparator
        /\ sync'.comparator => told'.sync
    BY <2>3, <2>4, <2>5
  <2>8. host = "rack" => told'.sync = sync'.comparator /\ told'.reset = reset'.comparator
    BY <2>3, <2>4, <2>5, <2>6
  <2> QED
    BY <2>1, <2>3, <2>4, <2>5, <2>7, <2>8
<1>5. CASE Cables!Power
  BY <1>5 DEF Cables!Power, Cables!Acquire, Cables!Silent, Jacks, Driven
<1>6. CASE \E longHeld \in BOOLEAN : Cables!BootEnds(longHeld)
  BY <1>6 DEF Cables!BootEnds
<1>7. CASE UNCHANGED Cables!vars
  BY <1>7 DEF Cables!vars
<1> QED
  BY <1>1, <1>2, <1>3, <1>4, <1>5, <1>6, <1>7 DEF Cables!Next

\* The firmware holds RESET high only while its jack is, and on the Rack module it hears
\* both jacks exactly (simulator_runtime_inputs.cpp:123-145, 236-241).
THEOREM JackLevelsNeverHang == Cables!Spec => []Cables!NoLevelHangs
<1>1. Cables!Init => LevelsAreTold
  BY DEF Cables!Init, Cables!Idle, Cables!Silent, LevelsAreTold, Jacks, Driven, Cables!NoLevelHangs
<1>2. LevelsAreTold => Cables!NoLevelHangs
  BY DEF LevelsAreTold
<1> QED
  BY <1>1, <1>2, LevelsAreToldStep, PTL DEF Cables!Spec

-----------------------------------------------------------------------------
(* The simulator's state file. *)

\* What was flushed last is in the file, and the Flash has not differed from it for longer
\* than the period that is under way.
FileIsBehindOnePeriod ==
  /\ process \in {"running", "quit", "failed", "killed"} /\ powered \in BOOLEAN
  /\ flash \in Images /\ file \in Images \cup {Missing} /\ last \in Images
  /\ since \in 0..FlushPeriod - 1 /\ late \in Nat
  /\ process = "running" => last = File!Contents(file) /\ late <= since
  /\ (process = "running" /\ ~powered) \/ process = "quit" => flash = File!Contents(file)

\* A flush that succeeds leaves in the file what the Flash holds.
LEMMA FlushedFile ==
  ASSUME File!SimulatorFileAssumption, NEW outcome \in File!Outcomes,
         flash \in Images, file \in Images \cup {Missing}, last \in Images,
         last = File!Contents(file), File!FlushIfChanged(outcome)
  PROVE  /\ file' \in Images \cup {Missing} /\ last' \in Images
         /\ outcome = "ok" => last' = flash /\ last' = File!Contents(file')
BY DEF File!SimulatorFileAssumption, File!Outcomes, File!FlushIfChanged, File!Flush, File!Contents

LEMMA FileIsBehindOnePeriodStep ==
  ASSUME File!SimulatorFileAssumption, FileIsBehindOnePeriod, [File!Next]_File!vars
  PROVE  FileIsBehindOnePeriod'
<1> USE DEF FileIsBehindOnePeriod, File!SimulatorFileAssumption
<1>1. ASSUME NEW image \in Images, File!Store(image) PROVE FileIsBehindOnePeriod'
  BY <1>1 DEF File!Store, File!Contents
<1>2. ASSUME NEW image \in Images, NEW outcome \in File!Outcomes, File!Restore(image, outcome)
      PROVE  FileIsBehindOnePeriod'
  <2>1. /\ file' \in Images \cup {Missing} /\ last' \in Images
        /\ outcome = "ok" => last' = image /\ file' = image
    BY <1>2 DEF File!Restore, File!Flush, File!Outcomes
  <2>2. since' \in 0..FlushPeriod - 1 /\ late' = 0
    BY <1>2 DEF File!Restore
  <2> QED
    BY <1>2, <2>1, <2>2 DEF File!Restore, File!Unless, File!Contents
<1>3. ASSUME NEW outcome \in File!Outcomes, File!Pass(outcome) PROVE FileIsBehindOnePeriod'
  <2>1. CASE since + 1 = FlushPeriod
    <3>1. /\ file' \in Images \cup {Missing} /\ last' \in Images
          /\ outcome = "ok" => last' = flash /\ last' = File!Contents(file')
      BY <1>3, <2>1, FlushedFile DEF File!Pass
    <3>2. since' = 0 /\ late' \in Nat /\ (last' = flash => late' = 0)
      BY <1>3, <2>1 DEF File!Pass
    <3> QED
      BY <1>3, <3>1, <3>2 DEF File!Pass, File!Unless
  <2>2. CASE since + 1 # FlushPeriod
    <3>1. /\ since' = since + 1 /\ since' \in 0..FlushPeriod - 1
          /\ late' \in Nat /\ late' <= late + 1
      BY <1>3, <2>2 DEF File!Pass
    <3> QED
      BY <1>3, <2>2, <3>1 DEF File!Pass, File!Unless, File!Contents
  <2> QED
    BY <2>1, <2>2
<1>4. ASSUME NEW outcome \in File!Outcomes, File!PowerOff(outcome) PROVE FileIsBehindOnePeriod'
  <2>1. /\ file' \in Images \cup {Missing} /\ last' \in Images
        /\ outcome = "ok" => last' = flash /\ last' = File!Contents(file')
    BY <1>4, FlushedFile DEF File!PowerOff
  <2>2. /\ powered' = FALSE /\ late' = 0 /\ flash' = flash /\ since' = since
        /\ process' = (IF outcome # "ok" THEN "failed" ELSE "running")
    BY <1>4 DEF File!PowerOff, File!Unless
  <2>3. outcome = "ok" => flash' = File!Contents(file')
    BY <2>1, <2>2
  <2>4. process' = "running" => last' = File!Contents(file') /\ late' <= since'
    BY <2>1, <2>2
  <2>5. (process' = "running" /\ ~powered') \/ process' = "quit" => flash' = File!Contents(file')
    BY <2>2, <2>3
  <2>6. process' \in {"running", "quit", "failed", "killed"} /\ powered' \in BOOLEAN
    BY <2>2
  <2> QED
    BY <2>1, <2>2, <2>4, <2>5, <2>6
<1>5. ASSUME NEW outcome \in File!Outcomes, File!Quit(outcome) PROVE FileIsBehindOnePeriod'
  <2>1. /\ file' \in Images \cup {Missing} /\ last' \in Images
        /\ outcome = "ok" => last' = flash /\ last' = File!Contents(file')
    BY <1>5, FlushedFile DEF File!Quit
  <2>2. /\ powered' = powered /\ late' = late /\ flash' = flash /\ since' = since
        /\ process' = (IF outcome # "ok" THEN "failed" ELSE "quit")
    BY <1>5 DEF File!Quit, File!Unless
  <2>3. outcome = "ok" => flash' = File!Contents(file')
    BY <2>1, <2>2
  <2>4. process' = "running" => last' = File!Contents(file') /\ late' <= since'
    BY <2>1, <2>2
  <2>5. (process' = "running" /\ ~powered') \/ process' = "quit" => flash' = File!Contents(file')
    BY <2>2, <2>3
  <2>6. process' \in {"running", "quit", "failed", "killed"} /\ powered' \in BOOLEAN
    BY <2>2
  <2> QED
    BY <2>1, <2>2, <2>4, <2>5, <2>6
<1>6. CASE File!PowerOn \/ File!Kill \/ File!Launch
  <2>1. CASE File!PowerOn \/ File!Launch
    <3>1. /\ process' = "running" /\ powered' = TRUE /\ since' = 0 /\ late' = 0 /\ file' = file
          /\ flash' = File!Contents(file) /\ last' = File!Contents(file)
      BY <2>1 DEF File!PowerOn, File!Launch, File!Load
    <3>2. File!Contents(file) \in Images
      BY DEF File!Contents
    <3> QED
      BY <3>1, <3>2
  <2>2. CASE File!Kill
    BY <2>2 DEF File!Kill
  <2> QED
    BY <1>6, <2>1, <2>2
<1>7. CASE UNCHANGED File!vars
  BY <1>7 DEF File!vars, File!Contents
<1> QED
  BY <1>1, <1>2, <1>3, <1>4, <1>5, <1>6, <1>7 DEF File!Next

\* After the power or the program comes back the module finds its Flash as it was left, and
\* a program that is killed loses what one flush period held at most
\* (simulator_runtime.cpp:76-79, 217, main.cpp:253).
THEOREM StateIsFoundAgainAlways ==
  File!SimulatorFileAssumption /\ File!Spec => []File!StateIsFoundAgain
<1> SUFFICES ASSUME File!SimulatorFileAssumption PROVE File!Spec => []File!StateIsFoundAgain
  OBVIOUS
<1>1. File!Init => FileIsBehindOnePeriod
  BY DEF File!Init, File!Contents, FileIsBehindOnePeriod, File!SimulatorFileAssumption
<1>2. FileIsBehindOnePeriod /\ [File!Next]_File!vars => FileIsBehindOnePeriod'
  BY FileIsBehindOnePeriodStep
<1>3. FileIsBehindOnePeriod => File!StateIsFoundAgain
  BY DEF FileIsBehindOnePeriod, File!StateIsFoundAgain, File!SimulatorFileAssumption
<1> QED
  BY <1>1, <1>2, <1>3, PTL DEF File!Spec

-----------------------------------------------------------------------------
(* The simulator's panel: the push button. *)

Buttons == [pressed : BOOLEAN, low : BOOLEAN, remaining : Nat, deferred : BOOLEAN]

\* While the power is on the pin is low for a press or for a release that waits, and only
\* then does the minimum of a press run.
ButtonIsHeld ==
  /\ powered \in BOOLEAN /\ clicking \in BOOLEAN /\ button \in Buttons
  /\ button.pressed => clicking \/ keysDown # {}
  /\ powered => /\ button.low = (button.pressed \/ button.deferred)
                /\ ~(button.pressed /\ button.deferred)
                /\ button.remaining > 0 => button.pressed \/ button.deferred
                /\ button.deferred => button.remaining > 0

\* A press lasts long enough on the pin for what the debouncer has still to count.
Contacts == [raw : BOOLEAN, stable : BOOLEAN, age : Nat]
Counted == button.remaining + (IF contact.raw THEN contact.age + 1 ELSE 0)
PressOutlastsDebounce ==
  /\ contact \in Contacts /\ owed \in BOOLEAN /\ ~missed
  /\ life \in {"Booting", "Game", "Running"}
  /\ contact.raw # contact.stable => contact.age < Debounce
  /\ owed => powered /\ life = "Running" /\ button.low
  /\ owed /\ ~contact.stable => Counted >= MinPulse

\* What setButton makes of the button.
LEMMA PressedButtons ==
  ASSUME Panel!SimulatorPanelAssumption, ButtonIsHeld, NEW down \in BOOLEAN
  PROVE  LET after == Panel!SetButton(button, down)
         IN /\ after \in Buttons /\ after.pressed = down
            /\ ~powered => after.low = button.low
            /\ powered => /\ after.low = (after.pressed \/ after.deferred)
                          /\ ~(after.pressed /\ after.deferred)
                          /\ after.remaining > 0 => after.pressed \/ after.deferred
                          /\ after.deferred => after.remaining > 0
                          /\ down => after.low /\ after.remaining = MinPulse
                          /\ ~down => after.remaining = button.remaining
                          /\ ~down /\ button.remaining > 0 => after.low = button.low
<1> DEFINE after == Panel!SetButton(button, down)
<1> USE DEF ButtonIsHeld, Buttons, Panel!SimulatorPanelAssumption
<1>1. CASE ~powered
  <2>1. after = [button EXCEPT !.pressed = down]
    BY <1>1 DEF Panel!SetButton
  <2>2. after \in Buttons /\ after.pressed = down /\ after.low = button.low
    BY <2>1
  <2> QED
    BY <1>1, <2>2
<1>2. CASE powered /\ down
  <2>1. after = [pressed |-> TRUE, low |-> TRUE, remaining |-> MinPulse, deferred |-> FALSE]
    BY <1>2 DEF Panel!SetButton
  <2>2. /\ after \in Buttons /\ after.pressed /\ after.low /\ ~after.deferred
        /\ after.remaining = MinPulse
    BY <2>1
  <2> HIDE DEF after
  <2> QED
    BY <1>2, <2>2 DEF after
<1>3. CASE powered /\ ~down /\ button.remaining > 0
  <2>1. after = [button EXCEPT !.pressed = FALSE, !.deferred = TRUE]
    BY <1>3 DEF Panel!SetButton
  <2>2. /\ after \in Buttons /\ ~after.pressed /\ after.deferred
        /\ after.low = button.low /\ after.remaining = button.remaining
    BY <2>1
  <2>3. after.low /\ after.remaining > 0 /\ ~down
    BY <1>3, <2>2
  <2> HIDE DEF after
  <2> QED
    BY <1>3, <2>2, <2>3 DEF after
<1>4. CASE powered /\ ~down /\ ~(button.remaining > 0)
  <2>1. after = [button EXCEPT !.pressed = FALSE, !.low = FALSE]
    BY <1>4 DEF Panel!SetButton
  <2>2. /\ after \in Buttons /\ ~after.pressed /\ ~after.low
        /\ after.deferred = button.deferred /\ after.remaining = button.remaining
    BY <2>1
  <2>3. ~button.deferred /\ ~down /\ ~(after.remaining > 0)
    BY <1>4, <2>2
  <2> HIDE DEF after
  <2> QED
    BY <1>4, <2>2, <2>3 DEF after
<1> QED
  BY <1>1, <1>2, <1>3, <1>4

\* One pass of time over the button, and over the debouncer that reads its pin.
LEMMA PassedButtons ==
  ASSUME ButtonIsHeld, powered
  PROVE  LET after == Panel!ReleasePass(button)
         IN /\ after \in Buttons /\ after.pressed = button.pressed
            /\ after.low = (after.pressed \/ after.deferred)
            /\ after.remaining > 0 => after.pressed \/ after.deferred
            /\ after.deferred => button.deferred /\ after.remaining > 0
            /\ after.remaining = (IF button.remaining = 0 THEN 0 ELSE button.remaining - 1)
            /\ button.remaining > 1 => after.low = button.low
<1> DEFINE after == Panel!ReleasePass(button)
           remaining == IF button.remaining = 0 THEN 0 ELSE button.remaining - 1
<1> USE DEF ButtonIsHeld, Buttons
<1>1. remaining \in Nat /\ (remaining > 0 => button.remaining > 0)
  OBVIOUS
<1>2. CASE button.deferred /\ remaining = 0
  <2>1. after = [pressed |-> button.pressed, low |-> FALSE, remaining |-> 0, deferred |-> FALSE]
    BY <1>2 DEF Panel!ReleasePass
  <2>2. /\ after \in Buttons /\ after.pressed = button.pressed /\ ~after.low
        /\ ~after.deferred /\ after.remaining = 0
    BY <2>1
  <2>3. ~button.pressed /\ ~(button.remaining > 1)
    BY <1>2
  <2> QED
    BY <1>2, <2>2, <2>3
<1>3. CASE ~(button.deferred /\ remaining = 0)
  <2> HIDE DEF remaining
  <2>1. after = [button EXCEPT !.remaining = remaining]
    BY <1>3 DEF Panel!ReleasePass, remaining
  <2>2. /\ after \in Buttons /\ after.pressed = button.pressed /\ after.low = button.low
        /\ after.deferred = button.deferred /\ after.remaining = remaining
    BY <1>1, <2>1
  <2> QED
    BY <1>1, <1>3, <2>2 DEF remaining
<1> QED
  BY <1>2, <1>3

LEMMA SampledContacts ==
  ASSUME Panel!SimulatorPanelAssumption, contact \in Contacts,
         contact.raw # contact.stable => contact.age < Debounce, NEW low \in BOOLEAN
  PROVE  LET after == Panel!Sampled(contact, low)
         IN /\ after \in Contacts /\ after.raw = low
            /\ after.raw # after.stable => after.age < Debounce
            /\ low /\ ~after.stable => /\ ~contact.stable
                                       /\ contact.raw => after.age = contact.age + 1
<1> DEFINE age == IF contact.raw # low THEN 0
                  ELSE IF contact.age < Debounce THEN contact.age + 1 ELSE contact.age
           stable == IF low # contact.stable /\ age >= Debounce THEN low ELSE contact.stable
<1> USE DEF Contacts, Panel!SimulatorPanelAssumption
<1>1. Panel!Sampled(contact, low) = [raw |-> low, age |-> age, stable |-> stable]
  BY DEF Panel!Sampled
<1>2. age \in Nat /\ stable \in BOOLEAN
  OBVIOUS
<1>3. low # stable => age < Debounce
  OBVIOUS
<1>4. low /\ ~stable => ~contact.stable /\ (contact.raw => age = contact.age + 1)
  OBVIOUS
<1> HIDE DEF age, stable
<1> QED
  BY <1>1, <1>2, <1>3, <1>4

\* A press or a release that comes from a key or from the mouse.
LEMMA PressKeepsButton ==
  ASSUME Panel!SimulatorPanelAssumption, ButtonIsHeld, NEW down \in BOOLEAN,
         Panel!Press(down), clicking' \in BOOLEAN, down => clicking' \/ keysDown' # {}
  PROVE  ButtonIsHeld'
<1>1. button' = Panel!SetButton(button, down) /\ powered' = powered
  BY DEF Panel!Press
<1>2. /\ button' \in Buttons /\ button'.pressed = down
      /\ powered => /\ button'.low = (button'.pressed \/ button'.deferred)
                    /\ ~(button'.pressed /\ button'.deferred)
                    /\ button'.remaining > 0 => button'.pressed \/ button'.deferred
                    /\ button'.deferred => button'.remaining > 0
  BY <1>1, PressedButtons
<1> QED
  BY <1>1, <1>2 DEF ButtonIsHeld

LEMMA PressIsNotMissed ==
  ASSUME Panel!SimulatorPanelAssumption, ButtonIsHeld, PressOutlastsDebounce,
         NEW down \in BOOLEAN, Panel!Press(down)
  PROVE  PressOutlastsDebounce'
<1> USE DEF PressOutlastsDebounce
<1>1. /\ button' = Panel!SetButton(button, down) /\ powered' = powered
      /\ contact' = contact /\ life' = life
      /\ owed' = (powered /\ IF button'.low /\ ~button.low THEN life = "Running"
                             ELSE owed /\ button'.low)
      /\ missed' = (missed \/ Panel!Missed)
  BY DEF Panel!Press
<1>2. /\ button' \in Buttons
      /\ powered => /\ down => button'.low /\ button'.remaining = MinPulse
                    /\ ~down => button'.remaining = button.remaining
                    /\ ~down /\ button.remaining > 0 => button'.low = button.low
  BY <1>1, PressedButtons
<1>3. button \in Buttons /\ powered \in BOOLEAN
  BY DEF ButtonIsHeld
<1>4. owed /\ ~contact.stable => button.remaining > 1
  BY <1>3 DEF Counted, Contacts, Buttons, Panel!SimulatorPanelAssumption
<1>5. ~Panel!Missed
  <2>1. SUFFICES ASSUME owed, ~contact.stable PROVE button'.low
    BY DEF Panel!Missed
  <2>2. powered /\ button.low /\ button.remaining > 0
    BY <1>3, <1>4, <2>1 DEF Buttons
  <2>3. CASE down
    BY <1>2, <2>2, <2>3
  <2>4. CASE ~down
    BY <1>2, <2>2, <2>4
  <2> QED
    BY <2>3, <2>4
<1>6. owed' \in BOOLEAN /\ (owed' => powered' /\ life' = "Running" /\ button'.low)
  BY <1>1, <1>2, <1>3 DEF Buttons
<1>7. ASSUME owed', ~contact'.stable PROVE Counted' >= MinPulse
  <2>1. CASE down
    <3>1. button'.remaining = MinPulse /\ contact' = contact
      BY <1>1, <1>2, <1>6, <1>7, <2>1
    <3>2. Counted' = MinPulse + (IF contact.raw THEN contact.age + 1 ELSE 0)
      BY <3>1 DEF Counted
    <3>3. contact.age \in Nat /\ MinPulse \in Nat
      BY DEF Contacts, Panel!SimulatorPanelAssumption
    <3> QED
      BY <3>2, <3>3
  <2>2. CASE ~down
    <3>1. owed /\ button'.remaining = button.remaining
      <4>1. powered /\ (button'.low /\ ~button.low => ~owed)
        BY <1>1, <1>7
      <4>2. CASE button.remaining > 0
        BY <1>1, <1>2, <1>7, <2>2, <4>1, <4>2
      <4>3. CASE ~(button.remaining > 0)
        <5>1. ~button'.low
          BY <2>2, <4>1, <4>3, <1>1 DEF Panel!SetButton, ButtonIsHeld, Buttons
        <5> QED
          BY <1>1, <1>7, <5>1
      <4> QED
        BY <4>2, <4>3
    <3> QED
      BY <1>1, <1>7, <3>1 DEF Counted
  <2> QED
    BY <2>1, <2>2
<1> QED
  BY <1>1, <1>5, <1>6, <1>7

LEMMA ButtonStep ==
  ASSUME Panel!SimulatorPanelAssumption, ButtonIsHeld, PressOutlastsDebounce,
         [Panel!Next]_Panel!vars
  PROVE  ButtonIsHeld' /\ PressOutlastsDebounce'
<1>1. ASSUME NEW key \in Keys, Panel!KeyDown(key) PROVE ButtonIsHeld' /\ PressOutlastsDebounce'
  <2>1. Panel!Press(TRUE) /\ clicking' = clicking /\ keysDown' = keysDown \cup {key}
    BY <1>1 DEF Panel!KeyDown
  <2>2. clicking' \in BOOLEAN /\ keysDown' # {}
    BY <2>1 DEF ButtonIsHeld
  <2> QED
    BY <2>1, <2>2, PressKeepsButton, PressIsNotMissed
<1>2. ASSUME NEW key \in Keys, Panel!KeyUp(key) PROVE ButtonIsHeld' /\ PressOutlastsDebounce'
  <2>1. Panel!Press(FALSE) /\ clicking' \in BOOLEAN
    BY <1>2 DEF Panel!KeyUp, ButtonIsHeld
  <2> QED
    BY <2>1, PressKeepsButton, PressIsNotMissed
<1>3. CASE Panel!MouseDown
  <2>1. Panel!Press(TRUE) /\ clicking' = TRUE
    BY <1>3 DEF Panel!MouseDown
  <2> QED
    BY <2>1, PressKeepsButton, PressIsNotMissed
<1>4. CASE Panel!MouseUp
  <2>1. Panel!Press(FALSE) /\ clicking' = FALSE
    BY <1>4 DEF Panel!MouseUp
  <2> QED
    BY <2>1, PressKeepsButton, PressIsNotMissed
<1>5. ASSUME NEW ends \in BOOLEAN, NEW reads \in BOOLEAN, Panel!Pass(ends, reads)
      PROVE  ButtonIsHeld' /\ PressOutlastsDebounce'
  <2>1. /\ powered /\ powered' = powered /\ keysDown' = keysDown /\ clicking' = clicking
        /\ button' = Panel!ReleasePass(button)
        /\ contact' = (IF reads THEN Panel!Sampled(contact, button'.low) ELSE contact)
        /\ owed' = (owed /\ button'.low) /\ missed' = (missed \/ Panel!Missed)
        /\ life = "Running" => reads /\ ~ends
        /\ life' \in {life, "Game", "Running"} /\ (~ends => life' = life)
    BY <1>5 DEF Panel!Pass, PressOutlastsDebounce
  <2>2. /\ button' \in Buttons /\ button'.pressed = button.pressed
        /\ button'.low = (button'.pressed \/ button'.deferred)
        /\ button'.remaining > 0 => button'.pressed \/ button'.deferred
        /\ button'.deferred => button.deferred /\ button'.remaining > 0
        /\ button'.remaining = (IF button.remaining = 0 THEN 0 ELSE button.remaining - 1)
        /\ button.remaining > 1 => button'.low = button.low
    BY <2>1, PassedButtons
  <2>3. ButtonIsHeld'
    BY <2>1, <2>2 DEF ButtonIsHeld
  <2>4. button'.low \in BOOLEAN
    BY <2>2 DEF Buttons
  <2>5. /\ contact' \in Contacts
        /\ contact'.raw # contact'.stable => contact'.age < Debounce
        /\ reads => /\ contact'.raw = button'.low
                    /\ button'.low /\ ~contact'.stable
                         => ~contact.stable /\ (contact.raw => contact'.age = contact.age + 1)
    BY <2>1, <2>4, SampledContacts DEF PressOutlastsDebounce
  <2>6. owed /\ ~contact.stable => button.remaining > 1
    BY DEF ButtonIsHeld, PressOutlastsDebounce, Counted, Contacts, Buttons,
           Panel!SimulatorPanelAssumption
  <2>7. ~Panel!Missed
    BY <2>1, <2>2, <2>6 DEF Panel!Missed, PressOutlastsDebounce
  <2>8. ASSUME owed', ~contact'.stable PROVE Counted' >= MinPulse
    <3>1. owed /\ button'.low /\ reads /\ ~contact.stable
      BY <2>1, <2>5, <2>8 DEF PressOutlastsDebounce
    <3>2. /\ Counted >= MinPulse /\ contact'.raw /\ (contact.raw => contact'.age = contact.age + 1)
      BY <2>5, <2>8, <3>1 DEF PressOutlastsDebounce
    <3>3. button'.remaining = button.remaining - 1
      BY <2>2, <2>6, <3>1
    <3> QED
      BY <2>2, <2>5, <3>2, <3>3
      DEF Counted, Contacts, Buttons, ButtonIsHeld, PressOutlastsDebounce, Panel!SimulatorPanelAssumption
  <2>9. owed' \in BOOLEAN /\ (owed' => powered' /\ life' = "Running" /\ button'.low)
    BY <2>1, <2>4 DEF PressOutlastsDebounce
  <2> QED
    BY <2>1, <2>3, <2>5, <2>7, <2>8, <2>9 DEF PressOutlastsDebounce
<1>6. CASE Panel!PowerOff
  <2>1. /\ powered' = FALSE /\ owed' = FALSE /\ button' = button /\ contact' = contact
        /\ missed' = missed /\ life' = life /\ clicking' = clicking /\ keysDown' = keysDown
    BY <1>6 DEF Panel!PowerOff
  <2> QED
    BY <2>1 DEF ButtonIsHeld, PressOutlastsDebounce
<1>7. CASE Panel!PowerOn
  <2>1. /\ ~powered /\ life' = "Booting" /\ owed' = owed /\ missed' = missed
        /\ clicking' = clicking /\ keysDown' = keysDown /\ powered' = TRUE
        /\ button' = [button EXCEPT !.low = button.pressed, !.remaining = 0, !.deferred = FALSE]
        /\ contact' = [raw |-> button.pressed, stable |-> button.pressed, age |-> 0]
    BY <1>7 DEF Panel!PowerOn
  <2>2. /\ button' \in Buttons /\ button'.pressed = button.pressed /\ ~button'.deferred
        /\ button'.low = button.pressed /\ button'.remaining = 0
    BY <2>1 DEF ButtonIsHeld, Buttons
  <2>3. contact' \in Contacts /\ contact'.raw = contact'.stable
    BY <2>1 DEF ButtonIsHeld, Buttons, Contacts
  <2>4. ButtonIsHeld'
    <3>1. button.pressed \in BOOLEAN /\ button.pressed = button'.low
      BY <2>2 DEF ButtonIsHeld, Buttons
    <3>2. /\ powered' \in BOOLEAN /\ clicking' \in BOOLEAN
          /\ button'.pressed => clicking' \/ keysDown' # {}
      BY <2>1, <2>2 DEF ButtonIsHeld
    <3>3. /\ button'.low = (button'.pressed \/ button'.deferred)
          /\ ~(button'.pressed /\ button'.deferred) /\ ~(button'.remaining > 0)
      BY <2>2, <3>1
    <3> QED
      BY <2>2, <3>2, <3>3 DEF ButtonIsHeld
  <2>5. owed' = FALSE /\ ~missed'
    BY <2>1 DEF PressOutlastsDebounce
  <2> QED
    BY <2>1, <2>3, <2>4, <2>5 DEF PressOutlastsDebounce
<1>8. ASSUME UNCHANGED <<powered, clicking, keysDown, button, contact, owed, missed, life>>
      PROVE  ButtonIsHeld' /\ PressOutlastsDebounce'
  BY <1>8 DEF ButtonIsHeld, PressOutlastsDebounce, Counted
<1> QED
  BY <1>1, <1>2, <1>3, <1>4, <1>5, <1>6, <1>7, <1>8
  DEF Panel!Next, Panel!Rotate, Panel!vars

LEMMA ButtonInit ==
  ASSUME Panel!SimulatorPanelAssumption, Panel!Init
  PROVE  ButtonIsHeld /\ PressOutlastsDebounce
<1>1. /\ powered = TRUE /\ life = "Booting" /\ keysDown = {} /\ clicking = FALSE
      /\ owed = FALSE /\ missed = FALSE
      /\ button = [pressed |-> FALSE, low |-> FALSE, remaining |-> 0, deferred |-> FALSE]
      /\ contact = [raw |-> FALSE, stable |-> FALSE, age |-> 0]
  BY DEF Panel!Init, Panel!Released
<1>2. /\ button \in Buttons /\ button.pressed = FALSE /\ button.low = FALSE
      /\ button.deferred = FALSE /\ button.remaining = 0
  BY <1>1 DEF Buttons
<1>3. contact \in Contacts /\ contact.raw = contact.stable
  BY <1>1 DEF Contacts
<1>4. powered = TRUE /\ clicking = FALSE /\ owed = FALSE /\ missed = FALSE /\ life = "Booting"
  BY <1>1
<1>5. ButtonIsHeld
  <2>1. /\ button.low = (button.pressed \/ button.deferred)
        /\ ~(button.pressed /\ button.deferred)
    BY <1>2
  <2>2. ~(button.remaining > 0)
    BY <1>2
  <2>3. ~button.pressed /\ ~button.deferred
    BY <1>2
  <2> QED
    BY <1>2, <1>4, <2>1, <2>2, <2>3 DEF ButtonIsHeld
<1>6. PressOutlastsDebounce
  BY <1>3, <1>4 DEF PressOutlastsDebounce
<1> QED
  BY <1>5, <1>6

\* The pin is where the panel is or a release is on its way, and the panel is pressed only
\* while a key or the mouse holds it (simulator_runtime.cpp:99-117, 235-236).
THEOREM NoButtonEverHangs ==
  Panel!SimulatorPanelAssumption /\ Panel!Spec => []Panel!NoButtonHangs
<1> SUFFICES ASSUME Panel!SimulatorPanelAssumption PROVE Panel!Spec => []Panel!NoButtonHangs
  OBVIOUS
<1>1. Panel!Init => ButtonIsHeld /\ PressOutlastsDebounce
  BY ButtonInit
<1>2. ButtonIsHeld /\ PressOutlastsDebounce /\ [Panel!Next]_Panel!vars
      => (ButtonIsHeld /\ PressOutlastsDebounce)'
  BY ButtonStep
<1>3. ButtonIsHeld => Panel!NoButtonHangs
  BY DEF ButtonIsHeld, Panel!NoButtonHangs
<1> QED
  BY <1>1, <1>2, <1>3, PTL DEF Panel!Spec

\* However short the click, a press that reached the pin of a listening firmware is a press
\* for its debouncer before the pin is raised again (simulator_runtime.cpp:29,
\* control_panel.cpp:42).
THEOREM ClicksAreAlwaysHeard ==
  Panel!SimulatorPanelAssumption /\ Panel!Spec => []Panel!ClicksAreHeard
<1> SUFFICES ASSUME Panel!SimulatorPanelAssumption PROVE Panel!Spec => []Panel!ClicksAreHeard
  OBVIOUS
<1>1. Panel!Init => ButtonIsHeld /\ PressOutlastsDebounce
  BY ButtonInit
<1>2. ButtonIsHeld /\ PressOutlastsDebounce /\ [Panel!Next]_Panel!vars
      => (ButtonIsHeld /\ PressOutlastsDebounce)'
  BY ButtonStep
<1>3. PressOutlastsDebounce => Panel!ClicksAreHeard
  BY DEF PressOutlastsDebounce, Panel!ClicksAreHeard
<1> QED
  BY <1>1, <1>2, <1>3, PTL DEF Panel!Spec

-----------------------------------------------------------------------------
(* The simulator's panel: the encoder. *)

Directions == {-1, 0, 1}
Turnings == [pending : Int, direction : Directions, index : 0..4, phase : 0..3]

\* Between two detents the encoder rests in phase 3; within one it shows the phase of its
\* index, and the transitions so far make up the detents taken and the part of this one.
EncoderIsOnItsWay ==
  /\ turning \in Turnings /\ turned \in Int /\ counted \in Int
  /\ turning.direction = 0 => turning.phase = 3
  /\ turning.direction # 0 => /\ turning.index \in 2..4
                              /\ turning.phase = Panel!Phases(turning.direction)[turning.index]
  /\ counted = 4 * (turned - turning.pending - turning.direction)
               + (IF turning.direction = 0 THEN 0
                  ELSE IF turning.direction = 1 THEN turning.index - 1 ELSE 1 - turning.index)

\* Each of the four moves of a detent is a transition of its sign.
LEMMA PhasesAreTransitions ==
  ASSUME NEW d \in {-1, 1}, NEW i \in 1..4
  PROVE  /\ Panel!Phases(d)[i] \in 0..3 /\ Panel!Phases(d)[i + 1] \in 0..3
         /\ Panel!Phases(d)[1] = 3 /\ Panel!Phases(d)[5] = 3
         /\ Panel!Transition(Panel!Phases(d)[i], Panel!Phases(d)[i + 1]) = d
<1>1. CASE d = 1
  <2>1. Panel!Phases(d) = <<3, 1, 0, 2, 3>>
    BY <1>1 DEF Panel!Phases
  <2>2. \/ i = 1 \/ i = 2 \/ i = 3 \/ i = 4
    OBVIOUS
  <2> QED
    BY <1>1, <2>1, <2>2 DEF Panel!Transition
<1>2. CASE d = -1
  <2>1. Panel!Phases(d) = <<3, 2, 0, 1, 3>>
    BY <1>2 DEF Panel!Phases
  <2>2. \/ i = 1 \/ i = 2 \/ i = 3 \/ i = 4
    OBVIOUS
  <2> QED
    BY <1>2, <2>1, <2>2 DEF Panel!Transition
<1> QED
  BY <1>1, <1>2

\* A pass moves the encoder by one phase, and by the transition that belongs to it.
LEMMA EncoderPasses ==
  ASSUME EncoderIsOnItsWay, turning' = Panel!EncoderPass(turning), turned' = turned,
         counted' = counted + Panel!Transition(turning.phase, turning'.phase)
  PROVE  EncoderIsOnItsWay'
<1> USE DEF EncoderIsOnItsWay
<1>0. turning.pending \in Int /\ turning.direction \in Directions
  BY DEF Turnings
<1>1. CASE turning.direction = 0 /\ turning.pending = 0
  <2>1. turning' = turning
    BY <1>1 DEF Panel!EncoderPass
  <2>2. Panel!Transition(turning.phase, turning.phase) = 0
    BY <1>1 DEF Panel!Transition
  <2> QED
    BY <2>1, <2>2
<1>2. CASE turning.direction = 0 /\ turning.pending # 0
  <2> DEFINE d == IF turning.pending > 0 THEN 1 ELSE -1
  <2>1. d \in {-1, 1}
    OBVIOUS
  <2> HIDE DEF d
  <2> DEFINE begun == [turning EXCEPT !.direction = d, !.pending = @ - d, !.index = 1]
  <2>a. begun = [pending |-> turning.pending - d, direction |-> d, index |-> 1,
                 phase |-> turning.phase]
    <3>1. turning.pending - d \in Int /\ d \in Directions
      BY <1>0, <2>1 DEF Directions
    <3>0. turning \in Turnings
      OBVIOUS
    <3> HIDE DEF EncoderIsOnItsWay
    <3> DEFINE taken == [turning EXCEPT !.direction = d, !.pending = @ - d]
    <3>4. taken \in Turnings
      BY <3>0, <3>1 DEF Turnings
    <3>5. begun = [taken EXCEPT !.index = 1]
      OBVIOUS
    <3>6. ASSUME NEW t \in Turnings PROVE [t EXCEPT !.index = 1] \in Turnings
      BY DEF Turnings
    <3> HIDE DEF taken, begun
    <3>2. begun \in Turnings
      BY <3>4, <3>5, <3>6
    <3> USE DEF begun
    <3>3. /\ begun.pending = turning.pending - d /\ begun.direction = d /\ begun.index = 1
          /\ begun.phase = turning.phase
      BY DEF Turnings
    <3> HIDE DEF begun, EncoderIsOnItsWay
    <3> QED
      BY <3>2, <3>3 DEF Turnings
  <2>b. turning' = [begun EXCEPT !.phase = Panel!Phases(begun.direction)[begun.index + 1],
                                 !.direction = IF begun.index = 4 THEN 0 ELSE @,
                                 !.index = IF begun.index = 4 THEN 0 ELSE @ + 1]
    BY <1>2 DEF Panel!EncoderPass, d
  <2> HIDE DEF begun
  <2>c. begun.direction = d /\ begun.index = 1
    BY <2>a
  <2>d. begun.index # 4 /\ begun.index + 1 = 2
    BY <2>c
  <2>2. turning' = [pending |-> turning.pending - d, direction |-> d, index |-> 2,
                    phase |-> Panel!Phases(d)[2]]
    BY <2>a, <2>b, <2>c, <2>d
  <2>3. /\ turning'.pending = turning.pending - d /\ turning'.direction = d
        /\ turning'.index = 2 /\ turning'.phase = Panel!Phases(d)[2]
    BY <2>2
  <2>4. /\ Panel!Phases(d)[1] = 3 /\ Panel!Phases(d)[2] \in 0..3
        /\ Panel!Transition(Panel!Phases(d)[1], Panel!Phases(d)[2]) = d
    BY <2>1, PhasesAreTransitions
  <2>5. counted' = counted + d
    BY <1>2, <2>3, <2>4
  <2>6. turning' \in Turnings
    BY <1>0, <2>1, <2>2, <2>4 DEF Turnings, Directions
  <2>7. counted = 4 * (turned - turning.pending)
    BY <1>0, <1>2
  <2>8. counted' = 4 * (turned' - turning'.pending - d) + (IF d = 1 THEN 1 ELSE -1)
    BY <1>0, <2>1, <2>3, <2>5, <2>7
  <2> QED
    BY <2>1, <2>3, <2>5, <2>6, <2>8
<1>3. CASE turning.direction # 0
  <2> DEFINE d == turning.direction
             i == turning.index
  <2>1. d \in {-1, 1} /\ i \in 2..4 /\ turning.phase = Panel!Phases(d)[i]
    BY <1>0, <1>3 DEF Directions
  <2>2. turning' = [pending |-> turning.pending, direction |-> IF i = 4 THEN 0 ELSE d,
                    index |-> IF i = 4 THEN 0 ELSE i + 1, phase |-> Panel!Phases(d)[i + 1]]
    BY <1>3 DEF Panel!EncoderPass, Turnings
  <2>3. /\ Panel!Phases(d)[i + 1] \in 0..3 /\ Panel!Phases(d)[5] = 3
        /\ Panel!Transition(Panel!Phases(d)[i], Panel!Phases(d)[i + 1]) = d
    BY <2>1, PhasesAreTransitions
  <2>4. counted = 4 * (turned - turning.pending - d) + (IF d = 1 THEN i - 1 ELSE 1 - i)
    BY <1>3
  <2> HIDE DEF d, i
  <2>5. /\ turning'.pending = turning.pending
        /\ turning'.direction = (IF i = 4 THEN 0 ELSE d)
        /\ turning'.index = (IF i = 4 THEN 0 ELSE i + 1)
        /\ turning'.phase = Panel!Phases(d)[i + 1]
    BY <2>2
  <2>6. turning' \in Turnings
    BY <1>0, <2>1, <2>2, <2>3 DEF Turnings, Directions
  <2>7. counted' = counted + d
    BY <2>1, <2>3, <2>5
  <2>8. CASE i = 4
    <3>1. counted' = 4 * (turned - turning.pending)
      BY <1>0, <2>1, <2>4, <2>7, <2>8
    <3> QED
      BY <1>0, <2>1, <2>3, <2>5, <2>6, <2>7, <2>8, <3>1
  <2>9. CASE i # 4
    <3>1. counted' = 4 * (turned - turning.pending - d) + (IF d = 1 THEN i ELSE -i)
      BY <1>0, <2>1, <2>4, <2>7, <2>9
    <3>2. turning'.direction = d /\ turning'.index = i + 1
      BY <2>5, <2>9
    <3> QED
      BY <1>0, <2>1, <2>5, <2>6, <2>7, <2>9, <3>1, <3>2
  <2> QED
    BY <2>8, <2>9
<1> QED
  BY <1>0, <1>1, <1>2, <1>3

LEMMA EncoderStep ==
  ASSUME Panel!SimulatorPanelAssumption, EncoderIsOnItsWay, [Panel!Next]_Panel!vars
  PROVE  EncoderIsOnItsWay'
<1>1. ASSUME NEW by \in {-1, 1}, Panel!Rotate(by) PROVE EncoderIsOnItsWay'
  <2> DEFINE queue == Panel!Clamp(turning.pending + by, MaxPending)
  <2>1. queue \in Int
    BY DEF Panel!Clamp, EncoderIsOnItsWay, Turnings, Panel!SimulatorPanelAssumption
  <2>2. /\ turning' = [turning EXCEPT !.pending = queue]
        /\ turned' = turned + queue - turning.pending /\ counted' = counted
    BY <1>1 DEF Panel!Rotate
  <2> HIDE DEF queue
  <2>3. /\ turning' \in Turnings /\ turning'.pending = queue
        /\ turning'.direction = turning.direction /\ turning'.index = turning.index
        /\ turning'.phase = turning.phase
    BY <2>1, <2>2 DEF EncoderIsOnItsWay, Turnings
  <2>4. /\ turning.pending \in Int /\ turning.direction \in Int /\ turned' \in Int
        /\ turned' - turning'.pending = turned - turning.pending
    BY <2>1, <2>2, <2>3 DEF EncoderIsOnItsWay, Turnings, Directions
  <2> QED
    BY <2>1, <2>2, <2>3, <2>4 DEF EncoderIsOnItsWay
<1>2. ASSUME NEW ends \in BOOLEAN, NEW reads \in BOOLEAN, Panel!Pass(ends, reads)
      PROVE  EncoderIsOnItsWay'
  BY <1>2, EncoderPasses DEF Panel!Pass
<1>3. CASE Panel!PowerOn
  <2>1. /\ turning' = [pending |-> 0, direction |-> 0, index |-> 0, phase |-> 3]
        /\ turned' = 0 /\ counted' = 0
    BY <1>3 DEF Panel!PowerOn, Panel!AtRest
  <2> QED
    BY <2>1 DEF EncoderIsOnItsWay, Turnings, Directions
<1>4. ASSUME UNCHANGED <<turning, turned, counted>> PROVE EncoderIsOnItsWay'
  BY <1>4 DEF EncoderIsOnItsWay
<1> QED
  BY <1>1, <1>2, <1>3, <1>4
  DEF Panel!Next, Panel!KeyDown, Panel!KeyUp, Panel!MouseDown, Panel!MouseUp, Panel!Press,
      Panel!PowerOff, Panel!vars

\* Every detent taken from the queue is four transitions of one sign, and between two of
\* them the encoder rests (simulator_runtime.cpp:259-276).
THEOREM DetentsAreAlwaysWhole ==
  Panel!SimulatorPanelAssumption /\ Panel!Spec => []Panel!DetentsAreWhole
<1> SUFFICES ASSUME Panel!SimulatorPanelAssumption PROVE Panel!Spec => []Panel!DetentsAreWhole
  OBVIOUS
<1>1. Panel!Init => EncoderIsOnItsWay
  <2>1. ASSUME Panel!Init PROVE EncoderIsOnItsWay
    <3>1. /\ turning = [pending |-> 0, direction |-> 0, index |-> 0, phase |-> 3]
          /\ turned = 0 /\ counted = 0
      BY <2>1 DEF Panel!Init, Panel!AtRest
    <3> QED
      BY <3>1 DEF EncoderIsOnItsWay, Turnings, Directions
  <2> QED
    BY <2>1
<1>2. EncoderIsOnItsWay /\ [Panel!Next]_Panel!vars => EncoderIsOnItsWay'
  BY EncoderStep
<1>3. EncoderIsOnItsWay => Panel!DetentsAreWhole
  <2>1. ASSUME EncoderIsOnItsWay PROVE Panel!DetentsAreWhole
    <3>1. /\ turning.direction \in {-1, 0, 1} /\ turning.index \in Int /\ turning.pending \in Int
          /\ turned \in Int
      BY <2>1 DEF EncoderIsOnItsWay, Turnings, Directions
    <3> QED
      BY <2>1, <3>1 DEF EncoderIsOnItsWay, Panel!DetentsAreWhole
  <2> QED
    BY <2>1
<1> QED
  BY <1>1, <1>2, <1>3, PTL DEF Panel!Spec
-----------------------------------------------------------------------------
(* The Storybook tool's output directory. *)

LEMMA AbsentType == Absent \in Out!Trees
  BY DEF Out!Trees

LEMMA RemainsType ==
  ASSUME NEW tree \in Out!Trees
  PROVE  Out!Remains(tree) \subseteq Out!Trees
  <1>1. CASE tree = Absent BY <1>1 DEF Out!Remains, Out!Trees
  <1>2. CASE tree # Absent BY <1>2 DEF Out!Remains, Out!Trees
  <1> QED BY <1>1, <1>2

\* Writing a part of this run keeps what is there.
LEMMA AddedType ==
  ASSUME Out!OutputAssumption, runs \in 1..MaxRuns,
         NEW tree \in Out!Trees, NEW part \in {"media", "sidecars"}
  PROVE  /\ Out!Added(tree, part) \in Out!Trees /\ Out!Added(tree, part) # Absent
         /\ <<runs, part>> \in Out!Added(tree, part)
         /\ tree # Absent => tree \subseteq Out!Added(tree, part)
  <1>0. <<runs, part>> \in Out!Files BY DEF Out!Files
  <1>1. Out!Added(tree, part) \in SUBSET Out!Files
    BY <1>0 DEF Out!Added, Out!Trees
  <1>2. Out!Added(tree, part) # Absent
    BY <1>1 DEF Out!OutputAssumption
  <1> QED BY <1>1, <1>2 DEF Out!Added, Out!Trees

\* A tree that holds all of some run stays one when runs are counted on.
LEMMA CompleteKept ==
  ASSUME runs \in Nat, runs' \in Nat, runs <= runs', NEW tree, Out!Complete(tree)
  PROVE  tree # Absent /\ \E r \in 1..runs' : Out!Whole(r) \subseteq tree
  BY DEF Out!Complete

LEMMA PublicationInitially == ASSUME Out!OutputAssumption, Out!Init PROVE Out!IInv
  <1>1. MaxRuns \in Nat BY DEF Out!OutputAssumption
  <1>2. \A n \in Nat : 0 \in 0..n OBVIOUS
  <1> USE DEF Out!Init
  <1>5. Out!TypeOK BY <1>1, <1>2, AbsentType DEF Out!TypeOK
  <1>3. Out!StagedInv /\ Out!MovedInv BY DEF Out!StagedInv, Out!MovedInv
  <1>4. Out!FailedPublishKeepsOutput /\ Out!PublishedWhole
    BY DEF Out!FailedPublishKeepsOutput, Out!PublishedWhole
  <1> QED BY <1>5, <1>3, <1>4 DEF Out!IInv

LEMMA RunStarts == ASSUME Out!OutputAssumption, Out!IInv, Out!Start PROVE Out!IInv'
  <1> USE DEF Out!IInv, Out!Start
  <1>0. MaxRuns \in Nat /\ runs \in 0..MaxRuns /\ runs < MaxRuns /\ runs' = runs + 1
    BY DEF Out!TypeOK, Out!OutputAssumption
  <1>1. runs \in Nat /\ runs' \in Nat /\ runs <= runs' /\ runs' \in 0..MaxRuns /\ runs' > 0
    <2> HIDE DEF Out!IInv, Out!Start
    <2> QED BY <1>0
  <1>2. Out!TypeOK' BY <1>1 DEF Out!TypeOK
  <1>3. command = "video" => output = Absent \/ Out!Complete(output)'
    BY <1>1, CompleteKept DEF Out!PublishedWhole, Out!Complete
  <1>4. Out!StagedInv' BY DEF Out!StagedInv
  <1>5. Out!MovedInv' BY <1>1, <1>3 DEF Out!MovedInv
  <1>6. Out!FailedPublishKeepsOutput' /\ Out!PublishedWhole'
    BY <1>3 DEF Out!FailedPublishKeepsOutput, Out!PublishedWhole
  <1> QED BY <1>2, <1>4, <1>5, <1>6

LEMMA ClearStagingKeeps == ASSUME Out!OutputAssumption, Out!IInv, Out!ClearStaging PROVE Out!IInv'
  <1> USE DEF Out!IInv, Out!ClearStaging, Out!Goto
  <1>1. Out!TypeOK' BY RemainsType DEF Out!TypeOK, Out!Trees
  <1>2. Out!StagedInv' BY DEF Out!StagedInv
  <1>3. Out!MovedInv' BY DEF Out!MovedInv, Out!Complete
  <1>4. Out!FailedPublishKeepsOutput' /\ Out!PublishedWhole'
    BY DEF Out!FailedPublishKeepsOutput, Out!PublishedWhole, Out!Complete, Out!MovedInv
  <1> QED BY <1>1, <1>2, <1>3, <1>4
LEMMA WriteMediaKeeps == ASSUME Out!OutputAssumption, Out!IInv, Out!WriteMedia PROVE Out!IInv'
  <1> USE DEF Out!IInv, Out!WriteMedia, Out!Write, Out!Goto, Out!Throw, Out!End, Out!run
  <1>0. runs \in 1..MaxRuns
    <2>1. runs \in 0..MaxRuns /\ runs > 0 /\ MaxRuns \in Nat
      BY DEF Out!TypeOK, Out!MovedInv, Out!OutputAssumption
    <2> QED BY <2>1
  <1>6. /\ staging \in Out!Trees /\ Out!Added(staging, "media") \in Out!Trees
        /\ Out!Added(staging, "media") # Absent
        /\ <<runs, "media">> \in Out!Added(staging, "media")
        /\ staging # Absent => staging \subseteq Out!Added(staging, "media")
    <2>1. staging \in Out!Trees BY DEF Out!TypeOK
    <2> QED BY <1>0, <2>1, AddedType
  <1>1. Out!TypeOK' BY <1>6, RemainsType DEF Out!TypeOK
  <1>2. Out!StagedInv' BY <1>6 DEF Out!StagedInv, Out!Whole
  <1>3. Out!MovedInv' BY DEF Out!MovedInv, Out!Complete
  <1>4. Out!FailedPublishKeepsOutput'
    BY DEF Out!FailedPublishKeepsOutput, Out!MovedInv, Out!StagedInv
  <1>5. Out!PublishedWhole' BY DEF Out!PublishedWhole, Out!Complete, Out!MovedInv, Out!StagedInv
  <1> QED BY <1>1, <1>2, <1>3, <1>4, <1>5

LEMMA WriteSidecarsKeeps == ASSUME Out!OutputAssumption, Out!IInv, Out!WriteSidecars PROVE Out!IInv'
  <1> USE DEF Out!IInv, Out!WriteSidecars, Out!Write, Out!Goto, Out!Throw, Out!End, Out!run
  <1>0. runs \in 1..MaxRuns
    <2>1. runs \in 0..MaxRuns /\ runs > 0 /\ MaxRuns \in Nat
      BY DEF Out!TypeOK, Out!MovedInv, Out!OutputAssumption
    <2> QED BY <2>1
  <1>6. /\ staging \in Out!Trees /\ Out!Added(staging, "sidecars") \in Out!Trees
        /\ Out!Added(staging, "sidecars") # Absent
        /\ <<runs, "sidecars">> \in Out!Added(staging, "sidecars")
        /\ staging # Absent => staging \subseteq Out!Added(staging, "sidecars")
    <2>1. staging \in Out!Trees BY DEF Out!TypeOK
    <2> QED BY <1>0, <2>1, AddedType
  <1>1. Out!TypeOK' BY <1>6, RemainsType DEF Out!TypeOK
  <1>2. Out!StagedInv' BY <1>6 DEF Out!StagedInv, Out!Whole
  <1>3. Out!MovedInv'
    <2>1. CASE command = "frames" BY <2>1 DEF Out!MovedInv, Out!Complete
    <2>2. CASE command # "frames"
      <3>1. command = "video" BY <2>2 DEF Out!TypeOK, Out!OutputAssumption
      <3> QED BY <2>2, <3>1 DEF Out!MovedInv, Out!Complete
    <2> QED BY <2>1, <2>2
  <1>4. Out!FailedPublishKeepsOutput'
    BY DEF Out!FailedPublishKeepsOutput, Out!MovedInv, Out!StagedInv
  <1>5. Out!PublishedWhole' BY DEF Out!PublishedWhole, Out!Complete, Out!MovedInv, Out!StagedInv
  <1> QED BY <1>1, <1>2, <1>3, <1>4, <1>5

LEMMA RemoveOutputKeeps == ASSUME Out!OutputAssumption, Out!IInv, Out!RemoveOutput PROVE Out!IInv'
  <1> USE DEF Out!IInv, Out!RemoveOutput, Out!Goto
  <1>1. Out!TypeOK' BY AbsentType, RemainsType DEF Out!TypeOK
  <1>2. Out!StagedInv' BY DEF Out!StagedInv, Out!MovedInv
  <1>3. Out!MovedInv' BY DEF Out!MovedInv, Out!Complete
  <1>4. Out!FailedPublishKeepsOutput'
    BY DEF Out!FailedPublishKeepsOutput, Out!MovedInv, Out!StagedInv
  <1>5. Out!PublishedWhole' BY DEF Out!PublishedWhole, Out!Complete, Out!MovedInv, Out!StagedInv
  <1> QED BY <1>1, <1>2, <1>3, <1>4, <1>5

LEMMA RenameStagingKeeps == ASSUME Out!OutputAssumption, Out!IInv, Out!RenameStaging PROVE Out!IInv'
  <1> USE DEF Out!IInv, Out!RenameStaging, Out!Throw, Out!End, Out!run
  <1>1. Out!TypeOK' BY AbsentType, RemainsType DEF Out!TypeOK
  <1>2. Out!StagedInv' BY DEF Out!StagedInv, Out!MovedInv
  <1>3. Out!MovedInv' BY DEF Out!MovedInv, Out!Complete
  <1>4. Out!FailedPublishKeepsOutput'
    BY DEF Out!FailedPublishKeepsOutput, Out!MovedInv, Out!StagedInv
  <1>5. Out!PublishedWhole' BY DEF Out!PublishedWhole, Out!Complete, Out!MovedInv, Out!StagedInv
  <1> QED BY <1>1, <1>2, <1>3, <1>4, <1>5

LEMMA ClearPreviousKeeps == ASSUME Out!OutputAssumption, Out!IInv, Out!ClearPrevious PROVE Out!IInv'
  <1> USE DEF Out!IInv, Out!ClearPrevious, Out!Goto, Out!Throw, Out!End, Out!run
  <1>1. Out!TypeOK' BY AbsentType, RemainsType DEF Out!TypeOK
  <1>2. Out!StagedInv' BY DEF Out!StagedInv, Out!MovedInv
  <1>3. Out!MovedInv' BY DEF Out!MovedInv, Out!Complete
  <1>4. Out!FailedPublishKeepsOutput'
    BY DEF Out!FailedPublishKeepsOutput, Out!MovedInv, Out!StagedInv
  <1>5. Out!PublishedWhole' BY DEF Out!PublishedWhole, Out!Complete, Out!MovedInv, Out!StagedInv
  <1> QED BY <1>1, <1>2, <1>3, <1>4, <1>5

LEMMA SetAsideKeeps == ASSUME Out!OutputAssumption, Out!IInv, Out!SetAside PROVE Out!IInv'
  <1> USE DEF Out!IInv, Out!SetAside, Out!Goto, Out!Throw, Out!End, Out!run
  <1>1. Out!TypeOK' BY AbsentType, RemainsType DEF Out!TypeOK
  <1>2. Out!StagedInv' BY DEF Out!StagedInv, Out!MovedInv
  <1>3. Out!MovedInv' BY DEF Out!MovedInv, Out!Complete
  <1>4. Out!FailedPublishKeepsOutput'
    BY DEF Out!FailedPublishKeepsOutput, Out!MovedInv, Out!StagedInv
  <1>5. Out!PublishedWhole' BY DEF Out!PublishedWhole, Out!Complete, Out!MovedInv, Out!StagedInv
  <1> QED BY <1>1, <1>2, <1>3, <1>4, <1>5

LEMMA PublishKeeps == ASSUME Out!OutputAssumption, Out!IInv, Out!Publish PROVE Out!IInv'
  <1> USE DEF Out!IInv, Out!Publish, Out!Goto, Out!Throw, Out!End, Out!run
  <1>1. Out!TypeOK' BY AbsentType, RemainsType DEF Out!TypeOK
  <1>2. Out!StagedInv' BY DEF Out!StagedInv, Out!MovedInv
  <1>3. Out!MovedInv' BY DEF Out!MovedInv, Out!Complete
  <1>4. Out!FailedPublishKeepsOutput'
    BY DEF Out!FailedPublishKeepsOutput, Out!MovedInv, Out!StagedInv
  <1>5. Out!PublishedWhole'
    <2>1. CASE step' = "cleanup"
      <3>1. runs \in 0..MaxRuns /\ runs > 0 /\ MaxRuns \in Nat
        BY DEF Out!TypeOK, Out!MovedInv, Out!OutputAssumption
      <3>2. runs \in 1..runs BY <3>1
      <3>3. staging # Absent /\ Out!Whole(runs) \subseteq staging BY DEF Out!StagedInv
      <3>4. output' = staging /\ runs' = runs /\ result' = "none" BY <2>1 DEF Out!MovedInv
      <3>5. Out!Complete(output)' BY <3>2, <3>3, <3>4 DEF Out!Complete, Out!Whole
      <3> QED BY <3>4, <3>5 DEF Out!PublishedWhole
    <2>2. CASE had /\ output' = previous /\ failure' = "publish"
      BY <2>2 DEF Out!PublishedWhole, Out!Complete, Out!MovedInv
    <2>3. CASE UNCHANGED output /\ step' = "idle" BY <2>3 DEF Out!PublishedWhole, Out!Complete
    <2> QED BY <2>1, <2>2, <2>3
  <1> QED BY <1>1, <1>2, <1>3, <1>4, <1>5

LEMMA CleanUpKeeps == ASSUME Out!OutputAssumption, Out!IInv, Out!CleanUp PROVE Out!IInv'
  <1> USE DEF Out!IInv, Out!CleanUp, Out!Throw, Out!End, Out!run
  <1>1. Out!TypeOK' BY AbsentType, RemainsType DEF Out!TypeOK
  <1>2. Out!StagedInv' BY DEF Out!StagedInv, Out!MovedInv
  <1>3. Out!MovedInv' BY DEF Out!MovedInv, Out!Complete
  <1>4. Out!FailedPublishKeepsOutput'
    BY DEF Out!FailedPublishKeepsOutput, Out!MovedInv, Out!StagedInv
  <1>5. Out!PublishedWhole' BY DEF Out!PublishedWhole, Out!Complete, Out!MovedInv, Out!StagedInv
  <1> QED BY <1>1, <1>2, <1>3, <1>4, <1>5

LEMMA KilledRuns == ASSUME Out!OutputAssumption, Out!IInv, Out!Kill PROVE Out!IInv'
  <1> USE DEF Out!IInv, Out!Kill, Out!End, Out!run
  <1>1. Out!TypeOK' BY AbsentType, RemainsType DEF Out!TypeOK
  <1>2. Out!StagedInv' BY DEF Out!StagedInv, Out!MovedInv
  <1>3. Out!MovedInv' BY DEF Out!MovedInv, Out!Complete
  <1>4. Out!FailedPublishKeepsOutput'
    BY DEF Out!FailedPublishKeepsOutput, Out!MovedInv, Out!StagedInv
  <1>5. Out!PublishedWhole' BY DEF Out!PublishedWhole, Out!Complete, Out!MovedInv, Out!StagedInv
  <1> QED BY <1>1, <1>2, <1>3, <1>4, <1>5

LEMMA OutputRests == ASSUME Out!IInv, UNCHANGED Out!vars PROVE Out!IInv'
  <1> USE DEF Out!IInv, Out!vars, Out!run
  <1>1. Out!TypeOK' BY DEF Out!TypeOK
  <1>2. Out!StagedInv' BY DEF Out!StagedInv
  <1>3. Out!MovedInv' BY DEF Out!MovedInv, Out!Complete
  <1>4. Out!FailedPublishKeepsOutput'
    BY DEF Out!FailedPublishKeepsOutput
  <1>5. Out!PublishedWhole' BY DEF Out!PublishedWhole, Out!Complete
  <1> QED BY <1>1, <1>2, <1>3, <1>4, <1>5

\* The inductive invariant: until the complete staging directory is moved, the
\* output is the one that the run met.
THEOREM PublicationInvariance == ASSUME Out!OutputAssumption PROVE Out!Spec => []Out!IInv
  <1>1. Out!Init => Out!IInv BY PublicationInitially
  <1>2. ASSUME Out!IInv, [Out!Next]_Out!vars PROVE Out!IInv'
    <2>1. CASE UNCHANGED Out!vars BY <1>2, <2>1, OutputRests
    <2>2. CASE Out!Next
      BY <1>2, <2>2, RunStarts, ClearStagingKeeps, WriteMediaKeeps, WriteSidecarsKeeps,
         RemoveOutputKeeps, RenameStagingKeeps, ClearPreviousKeeps, SetAsideKeeps, PublishKeeps,
         CleanUpKeeps, KilledRuns DEF Out!Next
    <2> QED BY <1>2, <2>1, <2>2
  <1> QED BY <1>1, <1>2, PTL DEF Out!Spec

\* A publication that fails leaves the one before it, wherever
\* publishStagingDirectory was interrupted by an error.
THEOREM FailureKeepsPublication ==
  ASSUME Out!OutputAssumption PROVE Out!Spec => []Out!FailedPublishKeepsOutput
  <1>1. Out!IInv => Out!FailedPublishKeepsOutput BY DEF Out!IInv
  <1> QED BY <1>1, PublicationInvariance, PTL

\* A publication is whole or absent at every moment, also when the process is
\* killed, and a reported success is this run's.
THEOREM PublicationIsWhole == ASSUME Out!OutputAssumption PROVE Out!Spec => []Out!PublishedWhole
  <1>1. Out!IInv => Out!PublishedWhole BY DEF Out!IInv
  <1> QED BY <1>1, PublicationInvariance, PTL

-----------------------------------------------------------------------------
(* The frames, subtitles and narration beats of a story. *)

FilmAssumption ==
  /\ PeriodNum \in Nat \ {0} /\ PeriodDen \in Nat \ {0} /\ Durations \subseteq Nat /\ None \notin Nat

\* What a scene or action has yet to do.
Timed == [op : {"hold", "run"}, for : Nat]
Operation == Timed \cup [op : {"press"}, down : BOOLEAN] \cup [op : {"end", "unfocus", "spoken"}]

StoryTypes ==
  /\ now \in Nat /\ count \in Nat /\ todo \in Seq(Operation)
  /\ scene \in [kind : {"none", "card", "tutorial"}, index : Nat]
  /\ beat \in [start : Nat, budget : Nat, focus : BOOLEAN] \cup {None}

\* The time of frame i.
FrameTime(i) == (i * PeriodNum) \div PeriodDen

\* The clock has not passed the next frame, and has left the last one or is about to.
FrameInv ==
  /\ now <= FrameTime(count)
  /\ frame # None =>
       /\ count >= 1 /\ frame.at = FrameTime(count - 1) /\ frame.file = frame.due
       /\ \/ frame.at < now
          \/ frame.at = now /\ Film!Passing /\ Head(todo).for > 0

\* What is kept to be drawn again is the picture it is kept for.
PictureInv ==
  /\ static # None => static.file = <<"card", static.scene>>
  /\ static # None \/ last # None =>
       /\ last = [scene |-> last.scene, text |-> last.text, look |-> last.look, file |-> last.file]
       /\ last.scene \in Nat /\ last.scene <= scene.index
       /\ Film!Playing /\ last.scene = scene.index /\ ~last.look.scope =>
            last.file = <<"tutorial", last.look, None, last.text>>

LEMMA FrameTimes ==
  ASSUME FilmAssumption, NEW i \in Nat
  PROVE  FrameTime(i) \in Nat /\ FrameTime(i) <= FrameTime(i + 1)
<1> DEFINE a == i * PeriodNum
           q == a \div PeriodDen
           p == (a + PeriodNum) \div PeriodDen
<1>1. a \in Nat /\ PeriodNum \in Nat /\ PeriodDen \in Nat /\ PeriodDen > 0
  BY DEF FilmAssumption
<1>2. (i + 1) * PeriodNum = a + PeriodNum BY <1>1
<1>3. q \in Nat /\ q * PeriodDen <= a
  <2> HIDE DEF a
  <2> QED BY <1>1
<1>4. p \in Nat /\ a + PeriodNum < (p + 1) * PeriodDen
  <2> HIDE DEF a
  <2> QED BY <1>1
<1>5. q * PeriodDen < (p + 1) * PeriodDen
  <2> HIDE DEF a, p, q
  <2> QED BY <1>1, <1>3, <1>4
<1>6. q < p + 1
  <2> HIDE DEF a, p, q
  <2> QED BY <1>1, <1>3, <1>4, <1>5
<1> HIDE DEF a
<1> QED BY <1>2, <1>3, <1>4, <1>6 DEF FrameTime, a

LEMMA NextFrameIs == Film!NextFrame = FrameTime(count)
BY DEF Film!NextFrame, FrameTime

\* The operation at hand, and what is left of the others.
LEMMA AtHand ==
  ASSUME StoryTypes, todo # <<>>
  PROVE  /\ Head(todo) = todo[1] /\ Head(todo) \in Operation /\ Tail(todo) \in Seq(Operation)
         /\ Head(todo).op \in {"hold", "run"} => Head(todo) \in Timed /\ Head(todo).for \in Nat
         /\ Len(Tail(todo)) = Len(todo) - 1 /\ \A i \in 1..Len(Tail(todo)) : Tail(todo)[i] = todo[i + 1]
<1>1. Head(todo) = todo[1] /\ Head(todo) \in Operation /\ Tail(todo) \in Seq(Operation)
  BY DEF StoryTypes
<1>2. Head(todo).op \in {"hold", "run"} => Head(todo) \in Timed /\ Head(todo).for \in Nat
  BY <1>1 DEF Operation, Timed
<1>3. Len(Tail(todo)) = Len(todo) - 1 /\ \A i \in 1..Len(Tail(todo)) : Tail(todo)[i] = todo[i + 1]
  BY DEF StoryTypes
<1> QED BY <1>1, <1>2, <1>3

\* A part of the operation at hand passes.
LEMMA PartPasses ==
  ASSUME StoryTypes, FilmAssumption, Film!Passing, NEW d \in Nat, d <= Head(todo).for, Film!Pass(d)
  PROVE  /\ todo' \in Seq(Operation) /\ Len(todo') = Len(todo) /\ todo' # <<>>
         /\ Head(todo') = todo'[1] /\ todo'[1] = [Head(todo) EXCEPT !.for = @ - d]
         /\ todo'[1].op = todo[1].op /\ todo'[1].for = todo[1].for - d /\ todo'[1] \in Timed
         /\ \A i \in 2..Len(todo) : todo'[i] = todo[i]
         /\ todo[1] \in Timed /\ todo # <<>> /\ Head(todo) = todo[1]
<1> DEFINE part == [Head(todo) EXCEPT !.for = @ - d]
           rest == Tail(todo)
<1>1. todo # <<>> /\ Head(todo).op \in {"hold", "run"} BY DEF Film!Passing, Film!Doing
<1>2. Head(todo) = todo[1] /\ todo[1] \in Timed /\ Head(todo).for \in Nat BY <1>1, AtHand
<1>3. part \in Timed /\ part.op = todo[1].op /\ part.for = todo[1].for - d
  BY <1>2 DEF Timed
<1>4. todo' = <<part>> \o rest BY DEF Film!Pass
<1>5. /\ rest \in Seq(Operation) /\ Len(rest) = Len(todo) - 1
      /\ \A i \in 1..Len(rest) : rest[i] = todo[i + 1]
  BY <1>1, AtHand
<1>6. part \in Operation BY <1>3 DEF Operation
<1>7. Len(todo) \in Nat /\ Len(todo) >= 1 BY <1>1 DEF StoryTypes
<1> HIDE DEF part, rest
<1>8. <<part>> \in Seq(Operation) /\ Len(<<part>>) = 1 /\ <<part>>[1] = part BY <1>6
<1>9. todo' \in Seq(Operation) /\ Len(todo') = 1 + Len(rest)
  BY <1>4, <1>5, <1>8, ConcatProperties
<1>10. \A i \in 1..1 + Len(rest) : todo'[i] = IF i = 1 THEN part ELSE rest[i - 1]
  BY <1>4, <1>5, <1>8
<1>11. todo' # <<>> /\ Head(todo') = todo'[1] BY <1>9, <1>5, <1>7
<1>12. ASSUME NEW i \in 2..Len(todo) PROVE todo'[i] = todo[i]
  <2>1. todo'[i] = rest[i - 1] /\ i - 1 \in 1..Len(rest) BY <1>5, <1>7, <1>10
  <2>2. rest[i - 1] = todo[(i - 1) + 1] BY <1>5, <2>1
  <2> QED BY <2>1, <2>2
<1>13. todo'[1] = part BY <1>9, <1>10, <1>5, <1>7
<1>14. part = [Head(todo) EXCEPT !.for = @ - d] BY DEF part
<1>15. todo' # <<>> /\ Len(todo') = Len(todo) BY <1>9, <1>11, <1>5, <1>7
<1> QED BY <1>1, <1>2, <1>3, <1>9, <1>11, <1>12, <1>13, <1>14, <1>15

\* What an action is made of.
LEMMA Operations ==
  ASSUME NEW a \in Operation, NEW b \in Operation, NEW c \in Operation
  PROVE  <<a, b>> \in Seq(Operation) /\ <<a, b, a, c, a>> \in Seq(Operation)
OBVIOUS

LEMMA StoryTypesInitially == ASSUME Film!Init PROVE StoryTypes
BY DEF StoryTypes, Film!Init

LEMMA StoryTypesStep ==
  ASSUME FilmAssumption, StoryTypes, [Film!Next]_Film!vars PROVE StoryTypes'
<1> USE DEF StoryTypes
<1>0. \A d \in Durations : d \in Nat BY DEF FilmAssumption
<1>1. \A d \in Nat : Film!Hold(d) \in Operation /\ Film!Run(d) \in Operation
  BY DEF Film!Hold, Film!Run, Operation, Timed
<1>2. \A down \in BOOLEAN : Film!Press(down) \in Operation
  BY DEF Film!Press, Operation
<1>3. \A op \in {"end", "unfocus", "spoken"} : Film!Do(op) \in Operation
  BY DEF Film!Do, Operation
<1>4. CASE UNCHANGED Film!vars BY <1>4 DEF Film!vars, Film!observer, Film!stage
<1>5. ASSUME NEW d \in Durations, Film!BeginCard(d) PROVE StoryTypes'
  BY <1>0, <1>1, <1>3, <1>5 DEF Film!BeginCard, Film!observer, Film!stage
<1>6. ASSUME NEW d \in Durations, Film!Button(d) PROVE StoryTypes'
  <2>1. Film!Run(d) \in Operation /\ Film!Press(TRUE) \in Operation /\ Film!Press(FALSE) \in Operation
    BY <1>0, <1>1, <1>2
  <2>2. todo' = <<Film!Run(d), Film!Press(TRUE), Film!Run(d), Film!Press(FALSE), Film!Run(d)>>
        /\ UNCHANGED <<now, count, scene, beat>>
    BY <1>6 DEF Film!Button, Film!Begin, Film!observer, Film!stage
  <2>3. todo' \in Seq(Operation) BY <2>1, <2>2, Operations
  <2> QED BY <2>2, <2>3
<1>7. ASSUME NEW d \in Durations, Film!Wait(d) PROVE StoryTypes'
  BY <1>0, <1>1, <1>7 DEF Film!Wait, Film!Begin, Film!observer, Film!stage
<1>8. ASSUME NEW d \in Durations, Film!BeginBeat(d) PROVE StoryTypes'
  <2>1. beat' = [start |-> now, budget |-> d, focus |-> FALSE] /\ todo' = <<>>
        /\ UNCHANGED <<now, count, scene>>
    BY <1>8 DEF Film!BeginBeat, Film!Begin, Film!observer
  <2> QED BY <1>0, <2>1
<1>9. ASSUME NEW d \in Durations \cup {0}, Film!Focus(d) PROVE StoryTypes'
  <2>1. UNCHANGED <<now, count, scene>> BY <1>9 DEF Film!Focus, Film!Begin, Film!observer
  <2>2. beat' \in [start : Nat, budget : Nat, focus : BOOLEAN] \cup {None}
    BY <1>9 DEF Film!Focus
  <2>3. todo' = <<>> \/ todo' = <<Film!Hold(d), Film!Do("unfocus")>>
    BY <1>9 DEF Film!Focus, Film!Begin
  <2>4. d \in Nat BY <1>0
  <2>5. Film!Hold(d) \in Operation /\ Film!Do("unfocus") \in Operation BY <1>1, <1>3, <2>4
  <2>6. todo' \in Seq(Operation)
    <3>1. <<Film!Hold(d), Film!Do("unfocus")>> \in Seq(Operation) BY <2>5, Operations
    <3>2. <<>> \in Seq(Operation) OBVIOUS
    <3> QED BY <2>3, <3>1, <3>2
  <2> QED BY <2>1, <2>2, <2>6
<1>10. ASSUME NEW text \in Texts \cup {Film!NoText}, Film!BeginTutorial(text) PROVE StoryTypes'
  BY <1>10 DEF Film!BeginTutorial, Film!observer, Film!stage
<1>11. ASSUME NEW text \in Texts \cup {Film!NoText}, Film!Subtitle(text) PROVE StoryTypes'
  BY <1>11 DEF Film!Subtitle, Film!Begin, Film!observer, Film!stage
<1>12. ASSUME NEW on \in BOOLEAN, Film!Scope(on) PROVE StoryTypes'
  BY <1>12 DEF Film!Scope, Film!Begin, Film!observer, Film!stage
<1>13. ASSUME NEW down \in BOOLEAN, NEW d \in Durations, Film!SetButton(down, d) PROVE StoryTypes'
  BY <1>0, <1>1, <1>2, <1>13 DEF Film!SetButton, Film!Begin, Film!observer, Film!stage
<1>14. CASE Film!EndScene
  <2>1. todo' \in {todo, <<>>} /\ scene' = [scene EXCEPT !.kind = "none"]
        /\ UNCHANGED <<now, count, beat>>
    BY <1>14 DEF Film!EndScene, Film!observer
  <2>2. <<>> \in Seq(Operation) OBVIOUS
  <2>3. todo' \in Seq(Operation) BY <2>1, <2>2
  <2>4. scene' \in [kind : {"none", "card", "tutorial"}, index : Nat] BY <2>1
  <2> QED BY <2>1, <2>3, <2>4
<1>15. CASE Film!EndBeat
  <2> DEFINE d == beat.budget - (now - beat.start)
             wait == <<Film!Hold(d)>>
             refocus == IF beat.focus THEN <<Film!Do("unfocus")>> ELSE <<>>
             end == <<Film!Do("spoken")>>
  <2>1. d \in Nat BY <1>15 DEF Film!EndBeat
  <2>2. wait \in Seq(Operation) /\ refocus \in Seq(Operation) /\ end \in Seq(Operation)
    BY <1>1, <1>3, <2>1
  <2>3. todo' = wait \o refocus \o end /\ UNCHANGED <<now, count, scene, beat>>
    BY <1>15 DEF Film!EndBeat, Film!Begin, Film!observer, Film!stage
  <2> HIDE DEF wait, refocus, end
  <2> QED BY <2>2, <2>3
<1>16. CASE Film!PressControl \/ Film!Unfocus \/ Film!EndSpeech
  <2>1. Tail(todo) \in Seq(Operation) /\ beat' \in {beat, None}
    BY <1>16, AtHand DEF Film!PressControl, Film!Unfocus, Film!EndSpeech, Film!Doing
  <2> QED
    BY <1>16, <2>1
       DEF Film!PressControl, Film!Unfocus, Film!EndSpeech, Film!Done, Film!observer, Film!stage
<1>17. CASE Film!RunToFrame
  <2>1. Head(todo) \in Timed /\ FrameTime(count) \in Nat
    BY <1>17, FrameTimes, AtHand DEF Film!RunToFrame, Film!Passing, Film!Doing
  <2>2. Film!NextFrame - now \in Nat /\ Film!NextFrame - now <= Head(todo).for
    BY <1>17, <2>1, NextFrameIs DEF Film!RunToFrame, Film!Until, Timed
  <2>3. todo' \in Seq(Operation)
    BY <1>17, <2>2, PartPasses DEF Film!RunToFrame
  <2> QED BY <1>17, <2>2, <2>3 DEF Film!RunToFrame, Film!Pass, Film!observer, Film!stage
<1>18. CASE Film!RunToEnd
  <2>1. Head(todo).for \in Nat /\ Tail(todo) \in Seq(Operation)
    BY <1>18, AtHand DEF Film!RunToEnd, Film!Passing, Film!Doing
  <2>2. CASE Film!Pass(Head(todo).for)
    <3> DEFINE d == Head(todo).for
    <3>1. d \in Nat /\ d <= Head(todo).for /\ Film!Pass(d) /\ Film!Passing
      BY <1>18, <2>1, <2>2 DEF Film!RunToEnd
    <3>2. todo' \in Seq(Operation)
      <4> HIDE DEF d
      <4> QED BY <3>1, PartPasses
    <3> QED BY <2>1, <2>2, <3>2 DEF Film!Pass, Film!observer, Film!stage
  <2>3. CASE Film!Done /\ UNCHANGED <<beat, panel, spoken>>
    BY <2>1, <2>3 DEF Film!Done, Film!observer, Film!stage
  <2> QED BY <1>18, <2>2, <2>3 DEF Film!RunToEnd
<1>19. CASE Film!TakeFrame
  <2>1. count' = count + 1 /\ UNCHANGED <<now, todo, scene, beat>>
    BY <1>19
       DEF Film!TakeFrame, Film!ReuseCard, Film!ReuseLast, Film!Render, Film!Store, Film!stage
  <2> QED BY <2>1
<1> QED
  BY <1>4, <1>5, <1>6, <1>7, <1>8, <1>9, <1>10, <1>11, <1>12, <1>13, <1>14, <1>15, <1>16, <1>17,
     <1>18, <1>19 DEF Film!Next
\* A step that no time passes in, and that no frame is taken in.
Quiet ==
  /\ ~Film!Passing /\ UNCHANGED <<now, count, frame, static, last>>
  /\ \/ scene' = scene
     \/ scene'.index = scene.index + 1
     \/ scene'.kind = "none" /\ scene'.index = scene.index

LEMMA StepsAreQuiet ==
  ASSUME StoryTypes, Film!Next
  PROVE  Quiet \/ Film!RunToFrame \/ Film!RunToEnd \/ Film!TakeFrame
<1> USE DEF Quiet, Film!observer
<1>1. Film!Idle => ~Film!Passing
  BY DEF Film!Idle, Film!Passing, Film!Doing
<1>2. ASSUME NEW d, Film!BeginCard(d) PROVE Quiet
  BY <1>1, <1>2 DEF Film!BeginCard, Film!Between
<1>3. ASSUME NEW ops, Film!Begin(ops) PROVE Quiet
  BY <1>1, <1>3 DEF Film!Begin
<1>4. ASSUME NEW text, Film!BeginTutorial(text) PROVE Quiet
  BY <1>1, <1>4 DEF Film!BeginTutorial, Film!Between
<1>5. CASE Film!EndScene
  <2>1. ~Film!Passing
    <3>1. todo = <<Film!Do("end")>> => Head(todo).op = "end" BY DEF Film!Do
    <3> QED BY <1>1, <1>5, <3>1 DEF Film!EndScene, Film!Passing, Film!Doing
  <2>2. scene' = [scene EXCEPT !.kind = "none"] /\ UNCHANGED <<now, Film!observer>>
    BY <1>5 DEF Film!EndScene
  <2> QED BY <2>1, <2>2 DEF StoryTypes
<1>6. CASE Film!PressControl \/ Film!Unfocus \/ Film!EndSpeech
  BY <1>6 DEF Film!PressControl, Film!Unfocus, Film!EndSpeech, Film!Done, Film!Passing, Film!Doing
<1>7. \/ Film!RunToFrame \/ Film!RunToEnd \/ Film!TakeFrame \/ Film!EndScene
      \/ Film!PressControl \/ Film!Unfocus \/ Film!EndSpeech
      \/ \E d : Film!BeginCard(d)
      \/ \E text : Film!BeginTutorial(text)
      \/ \E ops : Film!Begin(ops)
  BY DEF Film!Next, Film!Button, Film!Wait, Film!BeginBeat, Film!Focus, Film!Subtitle, Film!Scope,
         Film!SetButton, Film!EndBeat
<1> QED BY <1>2, <1>3, <1>4, <1>5, <1>6, <1>7

LEMMA FrameInvInitially == ASSUME FilmAssumption, Film!Init PROVE FrameInv /\ PictureInv
<1>1. FrameTime(0) \in Nat BY FrameTimes
<1> QED BY <1>1 DEF FrameInv, PictureInv, Film!Init

\* A frame is due, and the clock is on it.
LEMMA FrameInvStep ==
  ASSUME FilmAssumption, StoryTypes, FrameInv, PictureInv, [Film!Next]_Film!vars
  PROVE  FrameInv'
<1>0. FrameTime(count) \in Nat /\ FrameTime(count) <= FrameTime(count + 1)
  BY FrameTimes DEF StoryTypes
<1>00. frame # None => frame.at \in Nat /\ frame.at <= now
                       /\ (frame.at < now \/ (Film!Passing /\ Head(todo).for > 0))
  <2>1. count >= 1 => count - 1 \in Nat BY DEF StoryTypes
  <2>2. count >= 1 => FrameTime(count - 1) \in Nat BY <2>1, FrameTimes
  <2> QED BY <2>2 DEF FrameInv, StoryTypes
<1>1. CASE UNCHANGED Film!vars
  BY <1>1 DEF FrameInv, Film!vars, Film!observer, Film!Passing, Film!Doing, FrameTime
<1>2. CASE Quiet
  <2>1. now' = now /\ count' = count /\ frame' = frame /\ ~Film!Passing BY <1>2 DEF Quiet
  <2>2. FrameTime(count)' = FrameTime(count) /\ FrameTime(count - 1)' = FrameTime(count - 1)
    BY <2>1 DEF FrameTime
  <2> QED BY <2>1, <2>2 DEF FrameInv
<1>3. CASE Film!RunToFrame
  <2>1. now' = FrameTime(count) /\ now < now' /\ UNCHANGED <<count, frame>>
    BY <1>0, <1>3, NextFrameIs
       DEF Film!RunToFrame, Film!Pass, Film!observer, StoryTypes
  <2>2. FrameTime(count)' = FrameTime(count) /\ FrameTime(count - 1)' = FrameTime(count - 1)
    BY <2>1 DEF FrameTime
  <2>3. frame # None => frame.at < now'
    BY <1>0, <1>00, <2>1 DEF StoryTypes
  <2>4. now' <= FrameTime(count)' BY <1>0, <2>1, <2>2
  <2>5. frame' # None => count' >= 1 /\ frame'.at = FrameTime(count - 1)' /\ frame'.file = frame'.due
    BY <2>1, <2>2 DEF FrameInv
  <2> QED BY <2>1, <2>3, <2>4, <2>5 DEF FrameInv
<1>4. CASE Film!RunToEnd
  <2>1. /\ Head(todo).for \in Nat /\ UNCHANGED <<count, frame>>
        /\ now + Head(todo).for <= FrameTime(count)
        /\ now' = now + Head(todo).for
    BY <1>4, NextFrameIs, AtHand
       DEF Film!RunToEnd, Film!Pass, Film!Done, Film!observer, Film!Until, StoryTypes, Film!Passing,
           Film!Doing
  <2>2. FrameTime(count)' = FrameTime(count) /\ FrameTime(count - 1)' = FrameTime(count - 1)
    BY <2>1 DEF FrameTime
  <2>3. frame # None => frame.at < now'
    BY <1>0, <1>00, <2>1 DEF StoryTypes
  <2>4. now' <= FrameTime(count)' BY <2>1, <2>2
  <2>5. frame' # None => count' >= 1 /\ frame'.at = FrameTime(count - 1)' /\ frame'.file = frame'.due
    BY <2>1, <2>2 DEF FrameInv
  <2> QED BY <2>1, <2>3, <2>4, <2>5 DEF FrameInv
<1>5. CASE Film!TakeFrame
  <2>1. /\ Film!Passing /\ now = FrameTime(count) /\ now < now + Head(todo).for
        /\ count' = count + 1 /\ now' = now /\ todo' = todo
    BY <1>5, NextFrameIs
       DEF Film!TakeFrame, Film!Until, Film!ReuseCard, Film!ReuseLast, Film!Render, Film!Store
  <2>2. Head(todo).for \in Nat BY <2>1, AtHand DEF Film!Passing, Film!Doing
  <2>3. Head(todo').for > 0 /\ Film!Passing' /\ Head(todo)'.for > 0
    BY <2>1, <2>2 DEF StoryTypes, Film!Passing, Film!Doing
  <2>4. frame'.at = now /\ frame'.due = Film!Picture
    BY <1>5 DEF Film!TakeFrame, Film!ReuseCard, Film!ReuseLast, Film!Render, Film!Store
  <2>5. frame'.file = Film!Picture
    <3>1. CASE Film!ReuseCard
      BY <3>1 DEF Film!ReuseCard, Film!CardIsCached, Film!Store, PictureInv, Film!Picture
    <3>2. CASE Film!ReuseLast
      <4>1. frame'.file = last.file /\ Film!Playing /\ last # None /\ ~panel.scope
            /\ last.scene = scene.index /\ last.text = subtitle /\ last.look = Film!Look
        BY <3>2 DEF Film!ReuseLast, Film!Store, Film!Unchanged
      <4>2. ~last.look.scope BY <4>1 DEF Film!Look
      <4>3. last.file = <<"tutorial", last.look, None, last.text>>
        BY <4>1, <4>2 DEF PictureInv
      <4> QED BY <4>1, <4>3 DEF Film!Picture
    <3>3. CASE Film!Render
      BY <3>3 DEF Film!Render, Film!Store
    <3> QED BY <1>5, <3>1, <3>2, <3>3 DEF Film!TakeFrame
  <2>6. FrameTime(count)' = FrameTime(count + 1) /\ FrameTime(count - 1)' = FrameTime(count)
    <3>1. (count + 1) - 1 = count BY DEF StoryTypes
    <3> QED BY <2>1, <3>1 DEF FrameTime
  <2>7. count' >= 1 BY <2>1 DEF StoryTypes
  <2> QED BY <1>0, <2>1, <2>3, <2>4, <2>5, <2>6, <2>7 DEF FrameInv, StoryTypes
<1> QED BY <1>1, <1>2, <1>3, <1>4, <1>5, StepsAreQuiet

LEMMA PictureInvStep ==
  ASSUME FilmAssumption, StoryTypes, PictureInv, [Film!Next]_Film!vars
  PROVE  PictureInv'
<1> USE DEF StoryTypes
<1>1. CASE UNCHANGED Film!vars \/ Film!RunToFrame \/ Film!RunToEnd
  <2>1. UNCHANGED <<static, last, scene>>
    BY <1>1 DEF Film!vars, Film!observer, Film!RunToFrame, Film!RunToEnd, Film!Pass, Film!Done
  <2> QED BY <2>1 DEF PictureInv, Film!Playing
<1>2. CASE Quiet
  <2>1. static' = static /\ last' = last BY <1>2 DEF Quiet
  <2>2. CASE scene' = scene BY <2>1, <2>2 DEF PictureInv, Film!Playing
  <2>3. CASE scene'.index = scene.index + 1
    BY <2>1, <2>3 DEF PictureInv
  <2>4. CASE scene'.kind = "none" /\ scene'.index = scene.index
    BY <2>1, <2>4 DEF PictureInv, Film!Playing
  <2> QED BY <1>2, <2>2, <2>3, <2>4 DEF Quiet
<1>3. CASE Film!TakeFrame
  <2>1. scene' = scene BY <1>3 DEF Film!TakeFrame
  <2>2. CASE Film!ReuseCard
    <3>1. static' = static /\ static # None /\ ~Film!Playing /\ last' = [last EXCEPT !.file = static.file]
      BY <2>2 DEF Film!ReuseCard, Film!CardIsCached
    <3>2. last = [scene |-> last.scene, text |-> last.text, look |-> last.look, file |-> last.file]
          /\ last.scene \in Nat /\ last.scene <= scene.index
      BY <3>1 DEF PictureInv
    <3>3. last' = [scene |-> last.scene, text |-> last.text, look |-> last.look, file |-> static.file]
      BY <3>1, <3>2
    <3>4. last' = [scene |-> last'.scene, text |-> last'.text, look |-> last'.look, file |-> last'.file]
          /\ last'.scene = last.scene
      BY <3>3
    <3> QED BY <2>1, <3>1, <3>2, <3>4 DEF PictureInv, Film!Playing
  <2>3. ASSUME NEW f, Film!Remember(f),
               Film!Playing /\ ~panel.scope => f = <<"tutorial", Film!Look, None, subtitle>>,
               static' # None => static'.file = <<"card", static'.scene>>
        PROVE  PictureInv'
    <3>1. last' = [scene |-> scene.index, text |-> subtitle, look |-> Film!Look, file |-> f]
      BY <2>3 DEF Film!Remember
    <3>2. last' = [scene |-> last'.scene, text |-> last'.text, look |-> last'.look, file |-> last'.file]
          /\ last'.scene = scene.index /\ last'.look = Film!Look /\ last'.text = subtitle
          /\ last'.file = f
      BY <3>1
    <3>3. last'.look.scope = panel.scope BY <3>2 DEF Film!Look
    <3> QED BY <2>1, <2>3, <3>2, <3>3 DEF PictureInv, Film!Playing
  <2>4. CASE Film!ReuseLast
    <3>1. /\ Film!Remember(last.file) /\ static' = static
          /\ Film!Playing /\ last # None /\ ~panel.scope
          /\ last.scene = scene.index /\ last.text = subtitle /\ last.look = Film!Look
      BY <2>4 DEF Film!ReuseLast, Film!Unchanged
    <3>2. last.file = <<"tutorial", last.look, None, last.text>>
      BY <3>1 DEF PictureInv, Film!Look
    <3> QED BY <2>3, <3>1, <3>2 DEF PictureInv
  <2>5. CASE Film!Render
    <3>1. /\ Film!Remember(Film!Picture)
          /\ static' = IF Film!Playing THEN None ELSE [scene |-> scene.index, file |-> Film!Picture]
      BY <2>5 DEF Film!Render
    <3>2. Film!Playing /\ ~panel.scope => Film!Picture = <<"tutorial", Film!Look, None, subtitle>>
      BY DEF Film!Picture
    <3>3. static' # None => static'.file = <<"card", static'.scene>>
      BY <3>1 DEF Film!Picture
    <3> QED BY <2>3, <3>1, <3>2, <3>3
  <2> QED BY <1>3, <2>2, <2>4, <2>5 DEF Film!TakeFrame
<1> QED BY <1>1, <1>2, <1>3, StepsAreQuiet

-----------------------------------------------------------------------------
\* A cue is open or ended.
Cue == [from : Nat, to : Nat \cup {None}, text : Texts \cup {Film!NoText}]
Covers(cue, t) == cue.from <= t /\ (cue.to = None \/ t < cue.to)
IsOpen(list) == Len(list) > 0 /\ list[Len(list)].to = None

\* Cues of the past: only the last may be open.
PastCues(list, t) ==
  /\ list \in Seq(Cue)
  /\ \A i \in 1..Len(list) : /\ list[i].from <= t
                             /\ list[i].to # None => list[i].to <= t
                             /\ list[i].to = None => i = Len(list)

\* At time t the cues say text.
Say(list, t, text) ==
  /\ \A i \in 1..Len(list) : Covers(list[i], t) => list[i].text = text /\ text # Film!NoText
  /\ text # Film!NoText => \E i \in 1..Len(list) : Covers(list[i], t)

\* The subtitle is that of the open cue, and a card has none.
CueInv ==
  /\ PastCues(cues, now) /\ subtitle \in Texts \cup {Film!NoText}
  /\ IsOpen(cues) => subtitle # Film!NoText /\ cues[Len(cues)].text = subtitle
  /\ ~IsOpen(cues) => subtitle = Film!NoText
  /\ ~Film!Playing => subtitle = Film!NoText
  /\ frame # None => Say(cues, frame.at, frame.text)

\* Closing the open cue ends it now, or drops it if it would be empty; no time before
\* now loses or gains a cue.
LEMMA ClosingKeepsThePast ==
  ASSUME FilmAssumption, StoryTypes, PastCues(cues, now)
  PROVE  /\ PastCues(Film!Closed, now) /\ ~IsOpen(Film!Closed)
         /\ \A t \in Nat : \A text : t < now /\ Say(cues, t, text) => Say(Film!Closed, t, text)
<1> DEFINE n == Len(cues)
           open == cues[n]
<1>0. None \notin Nat /\ now \in Nat /\ n \in Nat /\ cues \in Seq(Cue) /\ Film!Last(cues) = open
  BY DEF FilmAssumption, StoryTypes, PastCues, Film!Last
<1>1. CASE cues = <<>> \/ open.to # None
  <2>1. Film!Closed = cues BY <1>0, <1>1 DEF Film!Closed
  <2>2. ~IsOpen(cues) BY <1>1 DEF IsOpen
  <2> QED BY <2>1, <2>2
<1>2. CASE cues # <<>> /\ open.to = None /\ open.from < now
  <2>1. n >= 1 /\ open \in Cue /\ n \in 1..n BY <1>0, <1>2
  <2>2. Film!Closed = [cues EXCEPT ![n].to = now] BY <1>0, <1>2 DEF Film!Closed
  <2> DEFINE closed == [open EXCEPT !.to = now]
             list == [cues EXCEPT ![n] = closed]
  <2>3. Film!Closed = list BY <2>2
  <2>4. closed \in Cue /\ closed.from = open.from /\ closed.to = now /\ closed.text = open.text
    BY <1>0, <2>1 DEF Cue
  <2> HIDE DEF closed
  <2>5. list \in Seq(Cue) /\ Len(list) = n /\ list[n] = closed
        /\ \A i \in 1..n : i # n => list[i] = cues[i]
    BY <1>0, <2>1, <2>4
  <2> HIDE DEF list
  <2>6. PastCues(list, now)
    <3>1. ASSUME NEW i \in 1..n PROVE list[i].from <= now /\ list[i].to # None /\ list[i].to <= now
      <4>1. CASE i = n BY <1>0, <1>2, <2>1, <2>4, <2>5, <4>1 DEF Cue
      <4>2. CASE i # n BY <1>0, <2>5, <4>2 DEF PastCues
      <4> QED BY <4>1, <4>2
    <3> QED BY <2>5, <3>1 DEF PastCues
  <2>7. ~IsOpen(list) BY <1>0, <2>4, <2>5 DEF IsOpen
  <2>8. ASSUME NEW t \in Nat, t < now, NEW i \in 1..n
        PROVE  (Covers(list[i], t) <=> Covers(cues[i], t)) /\ list[i].text = cues[i].text
    <3>1. CASE i = n BY <1>0, <1>2, <2>4, <2>5, <2>8, <3>1 DEF Covers
    <3>2. CASE i # n BY <2>5, <3>2
    <3> QED BY <3>1, <3>2
  <2>9. ASSUME NEW t \in Nat, NEW text, t < now, Say(cues, t, text) PROVE Say(list, t, text)
    BY <2>5, <2>8, <2>9 DEF Say
  <2> QED BY <2>3, <2>6, <2>7, <2>9
<1>3. CASE cues # <<>> /\ open.to = None /\ ~(open.from < now)
  <2> DEFINE list == Film!Front(cues)
  <2>1. n >= 1 /\ open \in Cue /\ n \in 1..n BY <1>0, <1>3
  <2>2. Film!Closed = list BY <1>0, <1>3 DEF Film!Closed
  <2>3. list \in Seq(Cue) /\ Len(list) = n - 1 /\ \A i \in 1..n - 1 : list[i] = cues[i]
    <3>1. list = SubSeq(cues, 1, n - 1) BY DEF Film!Front
    <3>2. \A i \in 1..n - 1 : cues[i] \in Cue BY <1>0, ElementOfSeq
    <3>3. /\ list \in Seq(Cue) /\ Len(list) = IF 1 <= n - 1 THEN (n - 1) - 1 + 1 ELSE 0
          /\ \A i \in 1..(n - 1) - 1 + 1 : list[i] = cues[1 + i - 1]
      <4> HIDE DEF list
      <4> QED BY <1>0, <3>1, <3>2, SubSeqProperties
    <3>4. (n - 1) - 1 + 1 = n - 1 /\ (\A i \in 1..n - 1 : 1 + i - 1 = i) BY <1>0
    <3>5. IF 1 <= n - 1 THEN n - 1 = n - 1 ELSE n - 1 = 0 BY <1>0, <2>1
    <3>6. \A i \in 1..n - 1 : list[i] = cues[1 + i - 1] BY <3>3, <3>4, Zenon
    <3>7. ASSUME NEW i \in 1..n - 1 PROVE list[i] = cues[i]
      <4>1. 1 + i - 1 = i BY <3>4
      <4> HIDE DEF list
      <4> QED BY <3>6, <4>1
    <3> HIDE DEF list
    <3> QED BY <3>3, <3>4, <3>5, <3>7
  <2> HIDE DEF list
  <2>4. PastCues(list, now)
    <3>1. ASSUME NEW i \in 1..n - 1
          PROVE  list[i].from <= now /\ list[i].to # None /\ (list[i].to # None => list[i].to <= now)
      BY <1>0, <2>3 DEF PastCues
    <3> QED BY <2>3, <3>1 DEF PastCues
  <2>5. ~IsOpen(list)
    BY <1>0, <2>1, <2>3 DEF IsOpen, PastCues
  <2>6. ASSUME NEW t \in Nat, NEW text, t < now, Say(cues, t, text) PROVE Say(list, t, text)
    <3>1. ~Covers(cues[n], t) BY <1>0, <1>3, <2>1, <2>6 DEF Covers, Cue
    <3>2. \A i \in 1..n - 1 : Covers(list[i], t) => list[i].text = text /\ text # Film!NoText
      BY <1>0, <2>3, <2>6 DEF Say
    <3>3. ASSUME text # Film!NoText PROVE \E i \in 1..n - 1 : Covers(list[i], t)
      <4>1. PICK i \in 1..n : Covers(cues[i], t) BY <2>6, <3>3 DEF Say
      <4>2. i \in 1..n - 1 BY <1>0, <3>1, <4>1
      <4> QED BY <2>3, <4>1, <4>2
    <3> QED BY <2>3, <3>2, <3>3 DEF Say
  <2> QED BY <2>2, <2>4, <2>5, <2>6
<1> QED BY <1>1, <1>2, <1>3

\* A new cue opens behind the past.
LEMMA OpeningKeepsThePast ==
  ASSUME FilmAssumption, StoryTypes, NEW list, PastCues(list, now), ~IsOpen(list), NEW text \in Texts
  PROVE  LET more == Append(list, [from |-> now, to |-> None, text |-> text])
         IN  /\ PastCues(more, now) /\ IsOpen(more) /\ more[Len(more)].text = text
             /\ \A t \in Nat : \A said : t < now /\ Say(list, t, said) => Say(more, t, said)
<1> DEFINE cue == [from |-> now, to |-> None, text |-> text]
           more == Append(list, cue)
           n == Len(list)
<1>0. None \notin Nat /\ now \in Nat /\ n \in Nat /\ list \in Seq(Cue)
  BY DEF FilmAssumption, StoryTypes, PastCues
<1>1. cue \in Cue /\ cue.from = now /\ cue.to = None /\ cue.text = text BY <1>0 DEF Cue
<1> HIDE DEF cue
<1>2. more \in Seq(Cue) /\ Len(more) = n + 1 /\ more[n + 1] = cue /\ \A i \in 1..n : more[i] = list[i]
  BY <1>0, <1>1
<1> HIDE DEF more
<1>3. ASSUME NEW i \in 1..n PROVE list[i].from <= now /\ list[i].to # None /\ list[i].to <= now
  <2>1. list[i].to # None BY <1>0 DEF PastCues, IsOpen
  <2> QED BY <2>1 DEF PastCues
<1>4. PastCues(more, now)
  <2>1. ASSUME NEW i \in 1..n + 1
        PROVE  /\ more[i].from <= now
               /\ more[i].to # None => more[i].to <= now
               /\ more[i].to = None => i = n + 1
    <3>1. CASE i = n + 1 BY <1>0, <1>1, <1>2, <3>1
    <3>2. CASE i # n + 1
      <4>1. i \in 1..n BY <1>0, <3>2
      <4> QED BY <1>2, <1>3, <4>1
    <3> QED BY <3>1, <3>2
  <2> QED BY <1>2, <2>1 DEF PastCues
<1>5. IsOpen(more) /\ more[Len(more)].text = text BY <1>0, <1>1, <1>2 DEF IsOpen
<1>6. ASSUME NEW t \in Nat, NEW said, t < now, Say(list, t, said) PROVE Say(more, t, said)
  <2>1. ~Covers(more[n + 1], t) BY <1>0, <1>1, <1>2, <1>6 DEF Covers
  <2>2. ASSUME NEW i \in 1..n + 1, Covers(more[i], t) PROVE more[i].text = said /\ said # Film!NoText
    <3>1. i \in 1..n BY <1>0, <2>1, <2>2
    <3> QED BY <1>2, <1>6, <2>2, <3>1 DEF Say
  <2>3. ASSUME said # Film!NoText PROVE \E i \in 1..n + 1 : Covers(more[i], t)
    <3>1. PICK i \in 1..n : Covers(list[i], t) BY <1>6, <2>3 DEF Say
    <3>2. i \in 1..n + 1 BY <1>0
    <3> QED BY <1>2, <3>1, <3>2
  <2> QED BY <1>2, <2>2, <2>3 DEF Say
<1> QED BY <1>4, <1>5, <1>6 DEF more, cue

LEMMA CueInvInitially == ASSUME FilmAssumption, Film!Init PROVE CueInv
<1>1. cues = <<>> /\ cues \in Seq(Cue) /\ Len(cues) = 0 BY DEF Film!Init
<1> QED BY <1>1 DEF CueInv, PastCues, IsOpen, Film!Init

\* When no time passes the clock has left the last frame behind.
LEMMA FrameIsPast ==
  ASSUME FilmAssumption, StoryTypes, FrameInv, ~Film!Passing, frame # None
  PROVE  frame.at \in Nat /\ frame.at < now
<1>1. count - 1 \in Nat BY DEF FrameInv, StoryTypes
<1>2. FrameTime(count - 1) \in Nat BY <1>1, FrameTimes
<1> QED BY <1>2 DEF FrameInv

\* What a step does to subtitle and cues.
LEMMA CueSteps ==
  ASSUME StoryTypes, FilmAssumption, CueInv, Film!Next
  PROVE  \/ /\ ~Film!Passing /\ UNCHANGED <<now, frame>>
            /\ \/ UNCHANGED <<subtitle, cues>> /\ (~Film!Playing' => subtitle = Film!NoText)
               \/ \E text \in Texts \cup {Film!NoText} : Film!Show(text) /\ Film!Playing'
               \/ subtitle' = Film!NoText /\ cues' = Film!Closed
         \/ Film!RunToFrame \/ Film!RunToEnd \/ Film!TakeFrame
<1>1. (Film!Next /\ ~(Film!RunToFrame \/ Film!RunToEnd \/ Film!TakeFrame)) =>
        ~Film!Passing /\ UNCHANGED <<now, frame>>
  BY StepsAreQuiet DEF Quiet
<1>2. ASSUME NEW d, Film!BeginCard(d)
      PROVE  UNCHANGED <<subtitle, cues>> /\ (~Film!Playing' => subtitle = Film!NoText)
  BY <1>2 DEF Film!BeginCard, Film!Between, CueInv, Film!Playing, Film!stage
<1>3. ASSUME NEW ops, Film!Begin(ops), UNCHANGED <<subtitle, cues>>
      PROVE  UNCHANGED <<subtitle, cues>> /\ (~Film!Playing' => subtitle = Film!NoText)
  BY <1>3 DEF Film!Begin, Film!Playing
<1>4. ASSUME NEW text \in Texts \cup {Film!NoText}, Film!BeginTutorial(text)
      PROVE  \/ UNCHANGED <<subtitle, cues>> /\ (~Film!Playing' => subtitle = Film!NoText)
             \/ Film!Show(text) /\ Film!Playing'
  <2>1. Film!Playing' BY <1>4 DEF Film!BeginTutorial, Film!Playing
  <2> QED BY <1>4, <2>1 DEF Film!BeginTutorial
<1>5. ASSUME NEW text \in Texts \cup {Film!NoText}, Film!Subtitle(text)
      PROVE  Film!Show(text) /\ Film!Playing'
  BY <1>5 DEF Film!Subtitle, Film!Begin, Film!Playing
<1>6. CASE Film!EndScene
  BY <1>1, <1>6 DEF Film!EndScene, Film!Next
<1>7. CASE Film!PressControl \/ Film!Unfocus \/ Film!EndSpeech
  <2>1. UNCHANGED <<subtitle, cues, scene>>
    BY <1>7 DEF Film!PressControl, Film!Unfocus, Film!EndSpeech, Film!Done
  <2> QED BY <1>1, <1>7, <2>1 DEF Film!Next, CueInv, Film!Playing
<1>8. \/ Film!RunToFrame \/ Film!RunToEnd \/ Film!TakeFrame \/ Film!EndScene
      \/ Film!PressControl \/ Film!Unfocus \/ Film!EndSpeech
      \/ \E d : Film!BeginCard(d)
      \/ \E text \in Texts \cup {Film!NoText} : Film!BeginTutorial(text) \/ Film!Subtitle(text)
      \/ \E ops : Film!Begin(ops) /\ UNCHANGED <<subtitle, cues>>
  BY DEF Film!Next, Film!Button, Film!Wait, Film!BeginBeat, Film!Focus, Film!Scope,
         Film!SetButton, Film!EndBeat, Film!stage
<1> QED BY <1>1, <1>2, <1>3, <1>4, <1>5, <1>6, <1>7, <1>8

LEMMA CueInvStep ==
  ASSUME FilmAssumption, StoryTypes, FrameInv, CueInv, [Film!Next]_Film!vars PROVE CueInv'
<1>0. PastCues(cues, now) /\ now \in Nat /\ None \notin Nat
  BY DEF CueInv, StoryTypes, FilmAssumption
<1>1. CASE UNCHANGED <<now, frame, subtitle, cues>> /\ (~Film!Playing' => subtitle = Film!NoText)
  BY <1>1 DEF CueInv
<1>2. CASE UNCHANGED Film!vars
  BY <1>1, <1>2 DEF Film!vars, Film!observer, Film!stage, CueInv, Film!Playing
<1>3. CASE /\ ~Film!Passing /\ UNCHANGED <<now, frame>>
           /\ subtitle' = Film!NoText /\ cues' = Film!Closed
  <2>1. frame # None => frame.at \in Nat /\ frame.at < now BY <1>3, FrameIsPast
  <2>2. /\ PastCues(Film!Closed, now) /\ ~IsOpen(Film!Closed)
        /\ frame # None => Say(Film!Closed, frame.at, frame.text)
    BY <1>0, <2>1, ClosingKeepsThePast DEF CueInv
  <2> QED BY <1>3, <2>2 DEF CueInv
<1>4. ASSUME ~Film!Passing, UNCHANGED <<now, frame>>,
             NEW text \in Texts \cup {Film!NoText}, Film!Show(text), Film!Playing'
      PROVE  CueInv'
  <2>1. CASE text = Film!NoText BY <1>3, <1>4, <2>1 DEF Film!Show
  <2>2. CASE text # Film!NoText
    <3> DEFINE more == Append(Film!Closed, [from |-> now, to |-> None, text |-> text])
    <3>1. frame # None => frame.at \in Nat /\ frame.at < now BY <1>4, FrameIsPast
    <3>2. /\ PastCues(Film!Closed, now) /\ ~IsOpen(Film!Closed)
          /\ frame # None => Say(Film!Closed, frame.at, frame.text)
      BY <1>0, <3>1, ClosingKeepsThePast DEF CueInv
    <3>3. /\ PastCues(more, now) /\ IsOpen(more) /\ more[Len(more)].text = text
          /\ frame # None => Say(more, frame.at, frame.text)
      <4>1. text \in Texts BY <2>2
      <4> QED BY <3>1, <3>2, <4>1, OpeningKeepsThePast
    <3>4. cues' = more /\ subtitle' = text BY <1>4, <2>2 DEF Film!Show
    <3> HIDE DEF more
    <3> QED BY <1>4, <2>2, <3>3, <3>4 DEF CueInv
  <2> QED BY <2>1, <2>2
<1>5. CASE Film!RunToFrame \/ Film!RunToEnd
  <2>1. now' \in Nat /\ now <= now' /\ UNCHANGED <<frame, subtitle, cues, scene>>
    <3>1. CASE Film!RunToFrame
      <4>1. FrameTime(count) \in Nat BY FrameTimes DEF StoryTypes
      <4> QED BY <1>0, <3>1, <4>1, NextFrameIs DEF Film!RunToFrame, Film!Pass, Film!observer, Film!stage
    <3>2. CASE Film!RunToEnd
      <4>1. Head(todo).for \in Nat BY <3>2, AtHand DEF Film!RunToEnd, Film!Passing, Film!Doing
      <4> QED BY <1>0, <3>2, <4>1 DEF Film!RunToEnd, Film!Pass, Film!Done, Film!observer, Film!stage
    <3> QED BY <1>5, <3>1, <3>2
  <2>2. PastCues(cues, now')
    <3>1. ASSUME NEW i \in 1..Len(cues) PROVE cues[i] \in Cue
      BY <1>0, ElementOfSeq DEF PastCues
    <3> QED BY <1>0, <2>1, <3>1 DEF PastCues, Cue
  <2> QED BY <2>1, <2>2 DEF CueInv, Film!Playing
<1>6. CASE Film!TakeFrame
  <2>1. UNCHANGED <<now, scene, subtitle, cues>>
    BY <1>6 DEF Film!TakeFrame, Film!stage
  <2>2. frame'.at = now /\ frame'.text = subtitle
    BY <1>6 DEF Film!TakeFrame, Film!ReuseCard, Film!ReuseLast, Film!Render, Film!Store, CueInv
  <2>3. ASSUME NEW i \in 1..Len(cues), Covers(cues[i], now)
        PROVE  IsOpen(cues) /\ i = Len(cues)
    <3>1. cues[i] \in Cue BY <1>0, ElementOfSeq DEF PastCues
    <3>2. cues[i].to = None BY <1>0, <2>3, <3>1 DEF PastCues, Covers, Cue
    <3>3. i = Len(cues) BY <1>0, <3>2 DEF PastCues
    <3> QED BY <3>2, <3>3 DEF IsOpen
  <2>4. IsOpen(cues) => Len(cues) \in 1..Len(cues) /\ Covers(cues[Len(cues)], now)
    BY <1>0 DEF IsOpen, Covers, PastCues
  <2>5. Say(cues, now, subtitle)
    BY <2>3, <2>4 DEF Say, CueInv
  <2> QED BY <2>1, <2>2, <2>5 DEF CueInv, Film!Playing
<1> QED BY <1>1, <1>2, <1>3, <1>4, <1>5, <1>6, CueSteps

-----------------------------------------------------------------------------
\* While a narration beat is ending its operations are: wait for what is left of its
\* audio, take the focus ring back, write the cue.
Speaking == \E i \in 1..Len(todo) : todo[i].op = "spoken"

SpeechInv ==
  /\ spoken # None => spoken.to - spoken.from = spoken.budget
  /\ Speaking =>
       /\ beat # None
       /\ todo[1].op = "hold" => now + todo[1].for = beat.start + beat.budget
       /\ todo[1].op # "hold" => now = beat.start + beat.budget
       /\ todo[1].op # "run"
       /\ \A i \in 2..Len(todo) : todo[i].op \notin {"hold", "run"}
       /\ \A i \in 1..Len(todo) : todo[i].op = "spoken" => i = Len(todo)

LEMMA SpeechInvStep ==
  ASSUME FilmAssumption, StoryTypes, SpeechInv, [Film!Next]_Film!vars PROVE SpeechInv'
<1>0. None \notin Nat /\ now \in Nat /\ todo \in Seq(Operation) /\ Len(todo) \in Nat
      /\ (beat # None => beat.start \in Nat /\ beat.budget \in Nat)
  BY DEF FilmAssumption, StoryTypes
<1>1. CASE UNCHANGED <<spoken, todo, now, beat>>
  BY <1>1 DEF SpeechInv, Speaking
<1>2. CASE UNCHANGED spoken /\ ~Speaking'
  BY <1>2 DEF SpeechInv
<1>3. CASE UNCHANGED Film!vars \/ Film!TakeFrame
  BY <1>1, <1>3 DEF Film!vars, Film!stage, Film!TakeFrame
<1>4. CASE todo' = <<>> /\ UNCHANGED spoken
  <2>1. Len(todo') = 0 BY <1>4
  <2> QED BY <1>2, <1>4, <2>1 DEF Speaking
<1>5. ASSUME NEW d, Film!BeginCard(d) PROVE SpeechInv'
  BY <1>2, <1>5 DEF Film!BeginCard, Film!stage, Speaking, Film!Hold, Film!Do
<1>6. ASSUME NEW text, Film!BeginTutorial(text) PROVE SpeechInv'
  BY <1>1, <1>6 DEF Film!BeginTutorial
<1>7. CASE Film!EndScene
  <2>1. UNCHANGED <<spoken, now, beat>> BY <1>7 DEF Film!EndScene
  <2> QED BY <1>1, <1>4, <1>7, <2>1 DEF Film!EndScene
<1>8. ASSUME NEW d, Film!Button(d) PROVE SpeechInv'
  BY <1>2, <1>8 DEF Film!Button, Film!Begin, Film!stage, Speaking, Film!Run, Film!Press
<1>9. ASSUME NEW d, NEW down, Film!SetButton(down, d) PROVE SpeechInv'
  BY <1>2, <1>9 DEF Film!SetButton, Film!Begin, Film!stage, Speaking, Film!Run, Film!Press
<1>10. ASSUME NEW d, Film!Wait(d) PROVE SpeechInv'
  BY <1>2, <1>10 DEF Film!Wait, Film!Begin, Film!stage, Speaking, Film!Run
<1>11. ASSUME NEW x, Film!Subtitle(x) \/ Film!Scope(x) \/ Film!BeginBeat(x) PROVE SpeechInv'
  BY <1>4, <1>11 DEF Film!Subtitle, Film!Scope, Film!BeginBeat, Film!Begin
<1>12. ASSUME NEW d, Film!Focus(d) PROVE SpeechInv'
  <2>1. UNCHANGED spoken BY <1>12 DEF Film!Focus
  <2>2. CASE todo' = <<>> BY <1>4, <2>1, <2>2
  <2>3. CASE todo' = <<Film!Hold(d), Film!Do("unfocus")>>
    BY <1>2, <2>1, <2>3 DEF Speaking, Film!Hold, Film!Do
  <2> QED BY <1>12, <2>2, <2>3 DEF Film!Focus, Film!Begin
<1>13. CASE Film!EndBeat
  <2> DEFINE d == beat.budget - (now - beat.start)
  <2>1. beat # None /\ d \in Nat /\ now + d = beat.start + beat.budget /\ UNCHANGED <<spoken, now, beat>>
    BY <1>0, <1>13 DEF Film!EndBeat, Film!Begin, Film!stage
  <2>2. todo' = <<Film!Hold(d)>> \o (IF beat.focus THEN <<Film!Do("unfocus")>> ELSE <<>>)
                \o <<Film!Do("spoken")>>
    BY <1>13 DEF Film!EndBeat, Film!Begin
  <2> HIDE DEF d
  <2>3. /\ Len(todo') \in {2, 3} /\ todo'[1] = Film!Hold(d)
        /\ todo'[Len(todo')] = Film!Do("spoken")
        /\ Len(todo') = 3 => todo'[2] = Film!Do("unfocus")
    <3>1. CASE beat.focus
      <4>1. todo' = <<Film!Hold(d)>> \o <<Film!Do("unfocus")>> \o <<Film!Do("spoken")>>
        BY <2>2, <3>1
      <4> QED BY <4>1
    <3>2. CASE ~beat.focus
      <4>1. todo' = <<Film!Hold(d)>> \o <<>> \o <<Film!Do("spoken")>>
        BY <2>2, <3>2
      <4> QED BY <4>1
    <3> QED BY <3>1, <3>2
  <2>4. todo'[1].op = "hold" /\ todo'[1].for = d BY <2>3 DEF Film!Hold
  <2>5. ASSUME NEW i \in 2..Len(todo')
        PROVE  todo'[i].op \notin {"hold", "run"} /\ (todo'[i].op = "spoken" => i = Len(todo'))
    <3>1. i = Len(todo') \/ (i = 2 /\ Len(todo') = 3) BY <2>3
    <3> QED BY <2>3, <3>1 DEF Film!Do
  <2>6. \A i \in 1..Len(todo') : i = 1 \/ i \in 2..Len(todo') BY <2>3
  <2> QED BY <2>1, <2>4, <2>5, <2>6 DEF SpeechInv
<1>14. CASE Film!Done /\ UNCHANGED <<spoken, beat>> /\ todo # <<>> /\ (todo[1].op = "hold" => todo[1].for = 0)
  <2>1. /\ todo' = Tail(todo) /\ now' = now /\ Len(todo') = Len(todo) - 1
        /\ \A i \in 1..Len(todo') : todo'[i] = todo[i + 1]
    BY <1>14, AtHand DEF Film!Done
  <2>2. ASSUME Speaking' PROVE Speaking /\ Len(todo') >= 1 /\ todo'[1] = todo[2] /\ 2 \in 2..Len(todo)
    BY <1>0, <2>1, <2>2 DEF Speaking
  <2>3. ASSUME Speaking', NEW i \in 1..Len(todo')
        PROVE  todo'[i].op \notin {"hold", "run"} /\ (todo'[i].op = "spoken" => i = Len(todo'))
    <3>1. i + 1 \in 2..Len(todo) /\ i + 1 \in 1..Len(todo) BY <1>0, <2>1
    <3>2. todo'[i] = todo[i + 1] BY <2>1
    <3>3. todo[i + 1].op \notin {"hold", "run"} /\ (todo[i + 1].op = "spoken" => i + 1 = Len(todo))
      BY <2>2, <2>3, <3>1 DEF SpeechInv
    <3> QED BY <1>0, <2>1, <3>2, <3>3
  <2>4. ASSUME Speaking' PROVE beat # None /\ now = beat.start + beat.budget
    BY <1>0, <1>14, <2>2, <2>4 DEF SpeechInv
  <2>5. ASSUME Speaking' PROVE todo'[1].op \notin {"hold", "run"}
    <3>1. 1 \in 1..Len(todo') BY <1>0, <2>1, <2>2, <2>5
    <3> QED BY <2>3, <2>5, <3>1
  <2>6. ASSUME Speaking', NEW i \in 2..Len(todo') PROVE todo'[i].op \notin {"hold", "run"}
    <3>1. i \in 1..Len(todo') BY <1>0, <2>1
    <3> QED BY <2>3, <2>6, <3>1
  <2>7. ASSUME Speaking', NEW i \in 1..Len(todo'), todo'[i].op = "spoken" PROVE i = Len(todo')
    BY <2>3, <2>7
  <2>8. UNCHANGED <<spoken, beat, now>> BY <1>14, <2>1
  <2> QED BY <2>4, <2>5, <2>6, <2>7, <2>8 DEF SpeechInv
<1>15. CASE Film!PressControl \/ Film!Unfocus
  <2>1. todo # <<>> /\ todo[1].op \in {"press", "unfocus"}
    BY <1>15, AtHand DEF Film!PressControl, Film!Unfocus, Film!Doing
  <2> QED BY <1>14, <1>15, <2>1 DEF Film!PressControl, Film!Unfocus
<1>16. CASE Film!EndSpeech
  <2>1. todo # <<>> /\ todo[1].op = "spoken"
    BY <1>16, AtHand DEF Film!EndSpeech, Film!Doing
  <2>2. 1 \in 1..Len(todo) BY <1>0, <2>1
  <2>3. Speaking BY <2>1, <2>2 DEF Speaking
  <2>4. beat # None /\ now = beat.start + beat.budget /\ Len(todo) = 1
    BY <2>1, <2>2, <2>3 DEF SpeechInv
  <2>5. spoken'.from = beat.start /\ spoken'.to = now /\ spoken'.budget = beat.budget
    BY <1>16 DEF Film!EndSpeech
  <2>6. Len(todo') = 0
    BY <1>16, <2>1, <2>4, AtHand DEF Film!EndSpeech, Film!Done
  <2>7. ~Speaking' BY <2>6 DEF Speaking
  <2> QED BY <1>0, <2>4, <2>5, <2>7 DEF SpeechInv
<1>17. ASSUME NEW d \in Nat, d <= Head(todo).for, Film!Passing, Film!Pass(d) PROVE SpeechInv'
  <2>1. /\ Len(todo') = Len(todo) /\ todo # <<>> /\ todo[1] \in Timed
        /\ todo'[1].op = todo[1].op /\ todo'[1].for = todo[1].for - d
        /\ \A i \in 2..Len(todo) : todo'[i] = todo[i]
    BY <1>17, PartPasses
  <2>2. now' = now + d /\ UNCHANGED <<spoken, beat>>
    BY <1>17 DEF Film!Pass, Film!stage
  <2>3. \A i \in 1..Len(todo) : todo'[i].op = todo[i].op
    BY <1>0, <2>1
  <2>4. Speaking' <=> Speaking BY <2>1, <2>3 DEF Speaking
  <2>5. todo[1].for \in Nat BY <2>1 DEF Timed
  <2>6. ASSUME Speaking
        PROVE  /\ todo'[1].op = "hold" => now' + todo'[1].for = beat'.start + beat'.budget
               /\ todo'[1].op = "hold"
    <3>1. todo[1].op = "hold" BY <2>1, <2>6 DEF SpeechInv, Timed
    <3>2. now + todo[1].for = beat.start + beat.budget BY <2>6, <3>1 DEF SpeechInv
    <3> QED BY <1>0, <2>1, <2>2, <2>5, <3>1, <3>2
  <2> QED BY <2>1, <2>2, <2>3, <2>4, <2>6 DEF SpeechInv
<1>18. CASE Film!RunToFrame
  <2>1. Head(todo) \in Timed /\ FrameTime(count) \in Nat
    BY <1>18, FrameTimes, AtHand DEF Film!RunToFrame, Film!Passing, Film!Doing, StoryTypes
  <2>2. Film!NextFrame - now \in Nat /\ Film!NextFrame - now <= Head(todo).for
    BY <1>0, <1>18, <2>1, NextFrameIs DEF Film!RunToFrame, Film!Until, Timed
  <2> QED BY <1>17, <1>18, <2>2 DEF Film!RunToFrame
<1>19. CASE Film!RunToEnd
  <2>1. Head(todo).for \in Nat /\ Head(todo) = todo[1] /\ todo # <<>> /\ Film!Passing
    BY <1>19, AtHand DEF Film!RunToEnd, Film!Passing, Film!Doing
  <2>2. CASE Film!Pass(Head(todo).for)
    <3> DEFINE d == Head(todo).for
    <3>1. d \in Nat /\ d <= Head(todo).for /\ Film!Pass(d) BY <2>1, <2>2
    <3> HIDE DEF d
    <3> QED BY <1>17, <2>1, <3>1
  <2>3. CASE Head(todo).for = 0 /\ Film!Done /\ UNCHANGED <<beat, panel, spoken>>
    BY <1>14, <2>1, <2>3
  <2> QED BY <1>19, <2>2, <2>3 DEF Film!RunToEnd
<1> QED
  BY <1>3, <1>5, <1>6, <1>7, <1>8, <1>9, <1>10, <1>11, <1>12, <1>13, <1>15, <1>16, <1>18, <1>19
     DEF Film!Next

-----------------------------------------------------------------------------
StoryInv == StoryTypes /\ FrameInv /\ PictureInv /\ CueInv /\ SpeechInv

LEMMA StoryInvHolds == FilmAssumption => (Film!Spec => []StoryInv)
<1> SUFFICES ASSUME FilmAssumption PROVE Film!Spec => []StoryInv
  OBVIOUS
<1>1. Film!Init => StoryInv
  <2>1. Film!Init => SpeechInv BY DEF Film!Init, SpeechInv, Speaking
  <2> QED BY <2>1, StoryTypesInitially, FrameInvInitially, CueInvInitially DEF StoryInv
<1>2. StoryInv /\ [Film!Next]_Film!vars => StoryInv'
  BY StoryTypesStep, FrameInvStep, PictureInvStep, CueInvStep, SpeechInvStep DEF StoryInv
<1> QED BY <1>1, <1>2, PTL DEF Film!Spec

\* Every frame is taken at its time and shows the module as it was then, whatever file was
\* reused for it (frame_pipeline.cpp).
THEOREM FramesAlwaysShowTheirMoment ==
  FilmAssumption => (Film!Spec => []Film!FramesShowTheirMoment)
<1> SUFFICES ASSUME FilmAssumption PROVE Film!Spec => []Film!FramesShowTheirMoment
  OBVIOUS
<1>1. StoryInv => Film!FramesShowTheirMoment
  BY NextFrameIs DEF StoryInv, FrameInv, Film!FramesShowTheirMoment, FrameTime
<1> QED BY <1>1, StoryInvHolds, PTL

\* The subtitle burned into a frame is the text of the one cue of the sidecar files that its
\* time lies in, also of the cues that are closed later (story_runner.cpp, subtitle_writer.cpp).
THEOREM SubtitlesAlwaysMatchCues ==
  FilmAssumption => (Film!Spec => []Film!BurnedInMatchesCues)
<1> SUFFICES ASSUME FilmAssumption PROVE Film!Spec => []Film!BurnedInMatchesCues
  OBVIOUS
<1>1. StoryInv => Film!BurnedInMatchesCues
  <2> SUFFICES ASSUME StoryInv, frame # None PROVE Film!BurnedInMatchesCues
    BY DEF Film!BurnedInMatchesCues
  <2>1. Say(cues, frame.at, frame.text) /\ DOMAIN cues = 1..Len(cues)
    BY DEF StoryInv, CueInv, PastCues
  <2> DEFINE covers(c) == c.from <= frame.at /\ (c.to = None \/ frame.at < c.to)
             said == {cues[k].text : k \in {i \in DOMAIN cues : covers(cues[i])}}
  <2>2. said = IF frame.text = Film!NoText THEN {} ELSE {frame.text}
    BY <2>1 DEF Say, Covers
  <2> QED BY <2>2 DEF Film!BurnedInMatchesCues
<1> QED BY <1>1, StoryInvHolds, PTL

\* A narration beat lasts as long as its audio, whatever is done in it
\* (story_narration_beat.cpp).
THEOREM BeatsAlwaysLastAsLongAsTheirAudio ==
  FilmAssumption => (Film!Spec => []Film!BeatsLastAsLongAsTheirAudio)
<1> SUFFICES ASSUME FilmAssumption PROVE Film!Spec => []Film!BeatsLastAsLongAsTheirAudio
  OBVIOUS
<1>1. StoryInv => Film!BeatsLastAsLongAsTheirAudio
  BY DEF StoryInv, SpeechInv, Film!BeatsLastAsLongAsTheirAudio
<1> QED BY <1>1, StoryInvHolds, PTL


-----------------------------------------------------------------------------
(* The stories the Storybook tool accepts. *)

\* No narration id is the one that stands for none.
RulesAssumption == None \notin WellFormed

Controls == {"PLAY", "TAP", "STOP_BACK"}
\* What only the run of a story can show.
Excused == {"none", "poweredOff", "timeout", "assertionFailed", "overBudget"}

\* What the validator remembers of a story is true of the simulator that runs it.
InStep ==
  /\ checked.sync = run.sync /\ checked.reset = run.reset
  /\ run.down \subseteq checked.held
  /\ run.beat = checked.open /\ (checked.open # None => place = "tutorial")
  /\ run.begun = checked.ids /\ ~run.again

SourceRuns(source) == 1000 <= source.milli /\ source.milli <= 999000

RulesTypes ==
  /\ place \in {"between", "tutorial", "end"}
  /\ checked \in [issue : BOOLEAN, sync : BOOLEAN, reset : BOOLEAN, held : SUBSET Controls,
                  ids : SUBSET WellFormed, open : WellFormed \cup {None}]
  /\ run \in [power : BOOLEAN, sync : BOOLEAN, reset : BOOLEAN, down : SUBSET Controls,
              source : [milli : Nat, ppqn : {1, 2, 4, 24}],
              beat : WellFormed \cup {None}, begun : SUBSET WellFormed, again : BOOLEAN,
              failure : Excused]
  /\ SourceRuns(run.source)

RulesInv ==
  /\ RulesTypes
  /\ run.failure = "none" => InStep
  /\ place = "end" => run.failure = "none" /\ checked.held = {} /\ checked.open = None

LEMMA RulesInvInitially == ASSUME Story!Init PROVE RulesInv
BY DEF RulesInv, RulesTypes, SourceRuns, InStep, Excused, Story!Init

\* What a node that parses says of a field that is decoded.
LEMMA FieldsAreLegal ==
  ASSUME NEW e, NEW names, Story!Parses(e, names), NEW field, Story!Has(e, field),
         field \notin {"x", "y", "width", "height", "type", "steps"}
  PROVE  Story!IsLegal(e.name, field, e.given[field])
<1>1. field \in Story!Decoded(e)
  BY DEF Story!Decoded, Story!Has, Story!Region
<1>2. \A f \in Story!Decoded(e) : Story!IsLegal(e.name, f, e.given[f])
  BY Zenon DEF Story!Parses
<1> QED BY <1>1, <1>2

LEMMA RotationsHaveADirection ==
  ASSUME NEW e, Story!Parses(e, Story!Actions), e.name = "encoder" PROVE Story!Direction(e) # 0
<1>1. Story!Required["encoder"] = {"direction"} BY DEF Story!Required
<1>2. "direction" \in DOMAIN e.given
  BY <1>1 DEF Story!Parses
<1>3. e.given["direction"] \in {"clockwise", "counter_clockwise", "counter-clockwise"}
  <2>1. Story!IsLegal(e.name, "direction", e.given["direction"])
    BY <1>2, FieldsAreLegal DEF Story!Has
  <2>2. "direction" \in DOMAIN Story!Legal
        /\ Story!Legal["direction"] = {"clockwise", "counter_clockwise", "counter-clockwise"}
    BY DEF Story!Legal
  <2> QED BY <2>1, <2>2 DEF Story!IsLegal
<1> QED BY <1>2, <1>3 DEF Story!Direction, Story!Value, Story!Has

LEMMA SourcesAreSupported ==
  ASSUME NEW e, Story!Parses(e, Story!Actions), e.name = "sync_source", RulesTypes
  PROVE  /\ Story!Has(e, "bpm") => e.given.bpm \in 1..999
         /\ Story!Value(e, "ppqn", run.source.ppqn) \in {1, 2, 4, 24}
<1>1. /\ "bpm" \in DOMAIN Story!Legal /\ Story!Legal["bpm"] = 1..999
      /\ "ppqn" \in DOMAIN Story!Legal /\ Story!Legal["ppqn"] = {1, 2, 4, 24}
  BY DEF Story!Legal
<1>2. Story!Has(e, "bpm") => e.given["bpm"] \in 1..999
  <2>1. SUFFICES ASSUME Story!Has(e, "bpm") PROVE e.given["bpm"] \in 1..999
    OBVIOUS
  <2>2. Story!IsLegal(e.name, "bpm", e.given["bpm"]) BY <2>1, FieldsAreLegal
  <2> QED BY <1>1, <2>2 DEF Story!IsLegal
<1>3. Story!Has(e, "ppqn") => e.given["ppqn"] \in {1, 2, 4, 24}
  <2>1. SUFFICES ASSUME Story!Has(e, "ppqn") PROVE e.given["ppqn"] \in {1, 2, 4, 24}
    OBVIOUS
  <2>2. Story!IsLegal(e.name, "ppqn", e.given["ppqn"]) BY <2>1, FieldsAreLegal
  <2> QED BY <1>1, <2>2 DEF Story!IsLegal
<1> QED BY <1>2, <1>3 DEF Story!Value, RulesTypes

LEMMA ControlsAreKnown ==
  ASSUME NEW e, Story!Parses(e, Story!Actions), Story!Holds(e) PROVE Story!Control(e) \in Controls
<1>1. /\ "name" \in DOMAIN Story!Legal
      /\ Story!Legal["name"] = {"PLAY", "TAP", "STOP", "STOP_BACK"}
  BY DEF Story!Legal
<1>2. Story!Value(e, "name", "PLAY") \in {"PLAY", "TAP", "STOP", "STOP_BACK"}
  <2>1. CASE Story!Has(e, "name")
    <3>1. Story!IsLegal(e.name, "name", e.given["name"]) BY <2>1, FieldsAreLegal
    <3> QED BY <1>1, <2>1, <3>1 DEF Story!IsLegal, Story!Value
  <2>2. CASE ~Story!Has(e, "name")
    BY <2>2 DEF Story!Value
  <2> QED BY <2>1, <2>2
<1> QED BY <1>2 DEF Story!Control, Controls

\* A run that goes on as before, or fails for a reason the validator cannot know.
LEMMA RunMayFail ==
  ASSUME RulesInv, Story!Going, place = "tutorial", UNCHANGED place,
         checked' \in [issue : BOOLEAN, sync : BOOLEAN, reset : BOOLEAN, held : SUBSET Controls,
                       ids : SUBSET WellFormed, open : WellFormed \cup {None}],
         NEW error \in Excused \ {"none"}, run' = [run EXCEPT !.failure = error]
  PROVE  RulesInv'
<1>1. RulesTypes' /\ run'.failure # "none"
  BY DEF RulesInv, RulesTypes
<1> QED BY <1>1 DEF RulesInv

LEMMA RunGoesOn ==
  ASSUME place = "tutorial", UNCHANGED place, RulesTypes', InStep'
  PROVE  RulesInv'
BY DEF RulesInv

LEMMA NothingHappens ==
  ASSUME RulesInv, UNCHANGED <<place, checked, run>> PROVE RulesInv'
BY DEF RulesInv, RulesTypes, InStep

\* An action that the validator has no issue with keeps the two in step, or fails for a
\* reason the validator cannot know.
LEMMA ActionsStayInStep ==
  ASSUME RulesAssumption, RulesInv, NEW e, NEW other \in BOOLEAN,
         Story!Going, place = "tutorial", UNCHANGED place,
         Story!Parses(e, Story!Actions), ~Story!ActionIssue(e),
         \/ Story!BeginBeat(e) \/ Story!EndBeat(e, other)
         \/ Story!Rotate(e) \/ Story!Click(e) \/ Story!Hold(e) \/ Story!SetPower(e)
         \/ Story!Patch(e) \/ Story!Generator(e) \/ Story!Source(e) \/ Story!PulseReset(e)
         \/ Story!Await(e, other) \/ Story!Present(e)
  PROVE  RulesInv'
<1>0. ~checked.issue /\ run.failure = "none" /\ place' = "tutorial" /\ InStep /\ RulesTypes
  BY DEF Story!Going, RulesInv
<1>a. /\ {"poweredOff", "timeout", "assertionFailed", "overBudget"} \subseteq Excused \ {"none"}
      /\ Story!On(e) \in BOOLEAN
      /\ Story!Powered \in {"none", "poweredOff"}
  BY DEF Excused, Story!On, Story!Powered
<1>b. ASSUME UNCHANGED checked,
             NEW error \in {"none", "poweredOff", "timeout", "assertionFailed"},
             Story!RunsOn(error, run)
      PROVE  RulesInv'
  <2>1. run' = run \/ (error # "none" /\ run' = [run EXCEPT !.failure = error])
    BY <1>b DEF Story!RunsOn
  <2> QED BY <1>0, <1>a, <1>b, <2>1, NothingHappens, RunMayFail DEF RulesTypes
<1>1. CASE Story!BeginBeat(e)
  <2> DEFINE id == Story!Id(e)
  <2>1. id \in WellFormed \ checked.ids /\ checked.open = None
    BY <1>1 DEF Story!ActionIssue, Story!BeginBeat, Story!IdIssue
  <2>2. /\ run' = [[run EXCEPT !.begun = @ \cup {id}, !.again = @ \/ id \in run.begun]
                     EXCEPT !.beat = id]
        /\ checked' = [checked EXCEPT !.ids = @ \cup {id}, !.open = id]
    BY <1>0, <1>1, <2>1 DEF Story!BeginBeat, Story!RunsOn, Story!Narrated, InStep
  <2> HIDE DEF id
  <2>3. RulesTypes'
    <3> DEFINE begun == run.begun \cup {id}
               again == run.again \/ id \in run.begun
               ids == checked.ids \cup {id}
    <3>1. /\ ids \in SUBSET WellFormed /\ begun \in SUBSET WellFormed /\ again \in BOOLEAN
          /\ id \in WellFormed \cup {None}
      BY <1>0, <2>1 DEF RulesTypes
    <3>2. /\ run' = [[run EXCEPT !.begun = begun, !.again = again] EXCEPT !.beat = id]
          /\ checked' = [checked EXCEPT !.ids = ids, !.open = id]
      BY <2>2
    <3> HIDE DEF begun, again, ids
    <3> QED BY <1>0, <3>1, <3>2 DEF RulesTypes
  <2>4. InStep' BY <1>0, <2>1, <2>2 DEF RulesTypes, InStep
  <2> QED BY <2>3, <2>4, RunGoesOn
<1>2. CASE Story!EndBeat(e, other)
  <2>1. checked.open = Story!Id(e)
    BY <1>2 DEF Story!ActionIssue, Story!EndBeat
  <2>2. checked' = [checked EXCEPT !.open = None]
    BY <1>2 DEF Story!EndBeat
  <2>3. run' = [run EXCEPT !.beat = None] \/ run' = [run EXCEPT !.failure = "overBudget"]
    BY <1>0, <1>2, <2>1 DEF Story!EndBeat, Story!RunsOn, InStep
  <2>4. CASE run' = [run EXCEPT !.beat = None]
    <3>1. RulesTypes' BY <1>0, <2>2, <2>4 DEF RulesTypes
    <3>2. InStep' BY <1>0, <2>2, <2>4 DEF RulesTypes, InStep
    <3> QED BY <3>1, <3>2, RunGoesOn
  <2>5. CASE run' = [run EXCEPT !.failure = "overBudget"]
    <3>1. checked' \in [issue : BOOLEAN, sync : BOOLEAN, reset : BOOLEAN, held : SUBSET Controls,
                        ids : SUBSET WellFormed, open : WellFormed \cup {None}]
      BY <1>0, <2>2 DEF RulesTypes
    <3> QED BY <1>a, <2>5, <3>1, RunMayFail
  <2> QED BY <2>3, <2>4, <2>5
<1>3. CASE Story!Rotate(e)
  <2>1. Story!Direction(e) # 0 /\ checked' = checked
    BY <1>3, RotationsHaveADirection DEF Story!Rotate
  <2>2. Story!RunsOn(Story!Powered, run)
    BY <1>3, <2>1 DEF Story!Rotate
  <2> QED BY <1>a, <1>b, <2>1, <2>2
<1>4. CASE Story!Click(e)
  <2> DEFINE up == [run EXCEPT !.down = IF e.name = "button" THEN @ \ {Story!Control(e)} ELSE @]
  <2>1. checked' = checked /\ (run' = up \/ Story!RunsOn("poweredOff", run))
    BY <1>a, <1>4 DEF Story!Click, Story!RunsOn
  <2>2. CASE run' = up
    <3>1. \E gone \in SUBSET run.down : run' = [run EXCEPT !.down = gone]
      BY <2>2
    <3>2. PICK gone \in SUBSET run.down : run' = [run EXCEPT !.down = gone]
      BY <3>1
    <3>3. RulesTypes' BY <1>0, <2>1, <3>2 DEF RulesTypes
    <3>4. InStep' BY <1>0, <2>1, <3>2 DEF RulesTypes, InStep
    <3> QED BY <3>3, <3>4, RunGoesOn
  <2> QED BY <1>b, <2>1, <2>2
<1>5. CASE Story!Hold(e)
  <2> DEFINE with(ons) == IF Story!On(e) THEN ons \cup {Story!Control(e)} ELSE ons \ {Story!Control(e)}
  <2>1. checked' = [checked EXCEPT !.held = with(checked.held)]
    BY <1>5 DEF Story!Hold
  <2>2. run' = [run EXCEPT !.down = with(run.down)] \/ run' = [run EXCEPT !.failure = "poweredOff"]
    BY <1>a, <1>5 DEF Story!Hold, Story!RunsOn
  <2>3. /\ with(run.down) \subseteq with(checked.held)
        /\ with(run.down) \in SUBSET Controls /\ with(checked.held) \in SUBSET Controls
    <3>1. Story!Control(e) \in Controls BY <1>5, ControlsAreKnown DEF Story!Hold
    <3> QED BY <1>0, <3>1 DEF InStep, RulesTypes
  <2> HIDE DEF with
  <2>4. CASE run' = [run EXCEPT !.down = with(run.down)]
    <3>1. RulesTypes' BY <1>0, <2>1, <2>3, <2>4 DEF RulesTypes
    <3>2. InStep' BY <1>0, <2>1, <2>3, <2>4 DEF RulesTypes, InStep
    <3> QED BY <3>1, <3>2, RunGoesOn
  <2>5. CASE run' = [run EXCEPT !.failure = "poweredOff"]
    <3>1. checked' \in [issue : BOOLEAN, sync : BOOLEAN, reset : BOOLEAN, held : SUBSET Controls,
                        ids : SUBSET WellFormed, open : WellFormed \cup {None}]
      BY <1>0, <2>1, <2>3 DEF RulesTypes
    <3> QED BY <1>a, <2>5, <3>1, RunMayFail
  <2> QED BY <2>2, <2>4, <2>5
<1>6. CASE Story!SetPower(e)
  <2>1. checked' = checked /\ run' = [run EXCEPT !.power = Story!On(e)]
    BY <1>6 DEF Story!SetPower
  <2>2. RulesTypes' BY <1>0, <1>a, <2>1 DEF RulesTypes
  <2>3. InStep' BY <1>0, <2>1 DEF RulesTypes, InStep
  <2> QED BY <2>2, <2>3, RunGoesOn
<1>7. CASE Story!Patch(e)
  <2>1. \/ checked' = [checked EXCEPT !.sync = Story!On(e)] /\ run' = [run EXCEPT !.sync = Story!On(e)]
        \/ checked' = [checked EXCEPT !.reset = Story!On(e)] /\ run' = [run EXCEPT !.reset = Story!On(e)]
    BY <1>7 DEF Story!Patch
  <2>2. RulesTypes' BY <1>0, <1>a, <2>1 DEF RulesTypes
  <2>3. InStep' BY <1>0, <2>1 DEF RulesTypes, InStep
  <2> QED BY <2>2, <2>3, RunGoesOn
<1>8. CASE Story!Generator(e)
  <2>1. Story!RunsOn("none", run) /\ checked' = checked
    BY <1>0, <1>8 DEF Story!Generator, Story!Cable, Story!ActionIssue, InStep
  <2> QED BY <1>b, <2>1
<1>9. CASE Story!Source(e)
  <2> DEFINE milli == IF Story!Has(e, "bpm") THEN e.given.bpm * 1000 ELSE run.source.milli
             ppqn == Story!Value(e, "ppqn", run.source.ppqn)
             source == [milli |-> milli, ppqn |-> ppqn]
  <2>1. /\ source \in [milli : Nat, ppqn : {1, 2, 4, 24}]
        /\ 1000 <= source.milli /\ source.milli <= 999000
    <3>1. /\ Story!Has(e, "bpm") => e.given.bpm \in 1..999
          /\ Story!Value(e, "ppqn", run.source.ppqn) \in {1, 2, 4, 24}
      BY <1>0, <1>9, SourcesAreSupported DEF Story!Source
    <3>2. run.source \in [milli : Nat, ppqn : {1, 2, 4, 24}] /\ SourceRuns(run.source)
      BY <1>0 DEF RulesTypes
    <3>3. milli \in Nat /\ 1000 <= milli /\ milli <= 999000
      <4>1. CASE Story!Has(e, "bpm")
        <5>1. PICK bpm \in 1..999 : e.given.bpm = bpm
          BY <3>1, <4>1, Zenon
        <5>2. milli = bpm * 1000
          BY <4>1, <5>1
        <5> HIDE DEF milli
        <5> QED BY <5>2, SMT
      <4>2. CASE ~Story!Has(e, "bpm")
        <5>1. milli = run.source.milli BY <4>2
        <5> HIDE DEF milli
        <5> QED BY <3>2, <5>1, SMT DEF SourceRuns
      <4> QED BY <4>1, <4>2
    <3>4. ppqn \in {1, 2, 4, 24} BY <3>1
    <3> HIDE DEF milli, ppqn
    <3> QED BY <3>3, <3>4
  <2>2. checked' = checked /\ run' = [run EXCEPT !.source = source]
    BY <1>9, <2>1 DEF Story!Source, Story!RunsOn
  <2> HIDE DEF source
  <2>3. RulesTypes' BY <1>0, <2>1, <2>2 DEF RulesTypes, SourceRuns
  <2>4. InStep' BY <1>0, <2>2 DEF RulesTypes, InStep
  <2> QED BY <2>3, <2>4, RunGoesOn
<1>10. CASE Story!PulseReset(e)
  <2>1. Story!RunsOn(Story!Powered, run) /\ checked' = checked
    BY <1>0, <1>10 DEF Story!PulseReset, Story!ActionIssue, InStep
  <2> QED BY <1>a, <1>b, <2>1
<1>11. CASE Story!Await(e, other)
  <2>1. PICK error \in {"none", "assertionFailed", "timeout"} : Story!RunsOn(error, run)
    BY <1>11 DEF Story!Await
  <2>2. checked' = checked BY <1>11 DEF Story!Await
  <2> QED BY <1>b, <2>1, <2>2
<1>12. CASE Story!Present(e)
  BY <1>12, NothingHappens DEF Story!Present
<1> QED
  BY <1>1, <1>2, <1>3, <1>4, <1>5, <1>6, <1>7, <1>8, <1>9, <1>10, <1>11, <1>12

LEMMA RulesInvStep ==
  ASSUME RulesAssumption, RulesInv, [Story!Next]_Story!vars PROVE RulesInv'
<1>1. CASE UNCHANGED Story!vars
  BY <1>1 DEF Story!vars, RulesInv, RulesTypes, InStep
<1>2. CASE Story!Reject
  <2>1. checked' = [checked EXCEPT !.issue = TRUE] /\ place' = place /\ run' = run
    BY <1>2 DEF Story!Reject
  <2>2. RulesTypes' BY <2>1 DEF RulesInv, RulesTypes
  <2>3. InStep => InStep' BY <2>1 DEF RulesInv, RulesTypes, InStep
  <2>4. checked'.held = checked.held /\ checked'.open = checked.open
    BY <2>1 DEF RulesInv, RulesTypes
  <2> QED BY <2>1, <2>2, <2>3, <2>4 DEF RulesInv
<1>3. ASSUME NEW e, Story!ShowCard(e) PROVE RulesInv'
  <2>0. run.failure = "none" /\ InStep /\ RulesTypes
    BY <1>3 DEF Story!ShowCard, Story!Going, RulesInv
  <2>1. CASE Story!Has(e, "narration") /\ ~Story!Reject
    <3> DEFINE id == Story!Id(e)
               begun == run.begun \cup {id}
               again == run.again \/ id \in run.begun
               ids == checked.ids \cup {id}
    <3>1. id \in WellFormed \ checked.ids /\ place' = place /\ place = "between"
      BY <1>3, <2>1 DEF Story!ShowCard, Story!SceneIssue, Story!IdIssue
    <3>2. /\ checked' = [checked EXCEPT !.ids = ids]
          /\ run' = [run EXCEPT !.begun = begun, !.again = again]
      BY <1>3, <2>1 DEF Story!ShowCard, Story!Narrated
    <3>3. /\ ids \in SUBSET WellFormed /\ begun \in SUBSET WellFormed /\ again \in BOOLEAN
          /\ begun = ids /\ ~again
      BY <2>0, <3>1 DEF RulesTypes, InStep
    <3> HIDE DEF id, begun, again, ids
    <3>4. RulesTypes' BY <2>0, <3>1, <3>2, <3>3 DEF RulesTypes
    <3>5. InStep' BY <2>0, <3>1, <3>2, <3>3 DEF RulesTypes, InStep
    <3> QED BY <3>1, <3>4, <3>5 DEF RulesInv
  <2>2. CASE ~Story!Has(e, "narration") /\ ~Story!Reject
    BY <1>3, <2>0, <2>2 DEF Story!ShowCard, RulesInv, RulesTypes, InStep
  <2> QED BY <1>2, <2>1, <2>2
<1>4. ASSUME NEW e, Story!BeginTutorial(e) PROVE RulesInv'
  BY <1>2, <1>4 DEF Story!BeginTutorial, Story!Going, RulesInv, RulesTypes, InStep
<1>5. ASSUME NEW e, NEW other \in BOOLEAN, Story!Act(e, other) PROVE RulesInv'
  BY <1>2, <1>5, ActionsStayInStep DEF Story!Act
<1>6. CASE Story!EndTutorial
  BY <1>2, <1>6 DEF Story!EndTutorial, Story!Going, RulesInv, RulesTypes, InStep
<1>7. CASE Story!EndStory
  BY <1>2, <1>7 DEF Story!EndStory, Story!Going, RulesInv, RulesTypes, InStep
<1> QED BY <1>1, <1>3, <1>4, <1>5, <1>6, <1>7 DEF Story!Next

LEMMA RulesInvHolds == RulesAssumption => (Story!Spec => []RulesInv)
<1> SUFFICES ASSUME RulesAssumption PROVE Story!Spec => []RulesInv
  OBVIOUS
<1> QED BY RulesInvInitially, RulesInvStep, PTL DEF Story!Spec

\* No port and no narration beat objects to a story that parser and validator accept,
\* whatever it is made of (story_validator.cpp, story_simulator_port.cpp).
THEOREM AcceptedStoriesAlwaysRun ==
  RulesAssumption => (Story!Spec => []Story!AcceptedStoriesRun)
<1> SUFFICES ASSUME RulesAssumption PROVE Story!Spec => []Story!AcceptedStoriesRun
  OBVIOUS
<1>1. RulesInv => Story!AcceptedStoriesRun
  BY DEF RulesInv, RulesTypes, Excused, Story!AcceptedStoriesRun
<1> QED BY <1>1, RulesInvHolds, PTL

\* A story that was played to its end leaves no button down and no beat open, and has told
\* each of its narrations once (story_validator.cpp, story_runner.cpp).
THEOREM StoriesAlwaysEndAtRest ==
  RulesAssumption => (Story!Spec => []Story!StoriesEndAtRest)
<1> SUFFICES ASSUME RulesAssumption PROVE Story!Spec => []Story!StoriesEndAtRest
  OBVIOUS
<1>1. RulesInv => Story!StoriesEndAtRest
  BY DEF RulesInv, InStep, Story!StoriesEndAtRest
<1> QED BY <1>1, RulesInvHolds, PTL
=============================================================================
