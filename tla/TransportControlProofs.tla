------------------------ MODULE TransportControlProofs ------------------------
(* Machine-checked proofs about TransportControl, for every set of           *)
(* configurations, every queue size and whatever the user presses.           *)
EXTENDS TransportControl, TLAPS

\* The input a role is looked up at is 0 or an input that has it.
LEMMA InputOfType ==
  \A c \in Config, f \in Roles :
    /\ InputOf(c, f) \in {0} \cup Inputs
    /\ InputOf(c, f) # 0 => c.role[InputOf(c, f)] = f
    /\ InputOf(c, f) = 0 => \A i \in Inputs : c.role[i] # f
BY DEF InputOf, Config, Inputs

\* A configuration is well typed and gives no role but Off twice.
LEMMA ConfigFacts ==
  \A c \in Configs :
    /\ c \in Config
    /\ c.role \in [Inputs -> Roles] /\ c.resetGate \in BOOLEAN /\ c.external \in BOOLEAN
    /\ c.lossStops \in BOOLEAN
    /\ \A i, j \in Inputs : c.role[i] = c.role[j] /\ c.role[i] # "Off" => i = j
<1> USE ConfigsAssumption
<1> SUFFICES ASSUME NEW c \in Configs
             PROVE  /\ c \in Config
                    /\ c.role \in [Inputs -> Roles] /\ c.resetGate \in BOOLEAN
                    /\ c.external \in BOOLEAN /\ c.lossStops \in BOOLEAN
                    /\ \A i, j \in Inputs : c.role[i] = c.role[j] /\ c.role[i] # "Off" => i = j
  OBVIOUS
<1>1. c \in Config
  OBVIOUS
<1>2. c.role[1] = "Off" \/ c.role[1] # c.role[2]
  OBVIOUS
<1>3. QED
  BY <1>1, <1>2 DEF Config, Inputs

\* The initial state is well typed.
LEMMA InitTypeOK == Init => TypeOK
<1> SUFFICES ASSUME Init PROVE TypeOK
  OBVIOUS
<1>1. queue \in [Inputs -> Seq(Item)]
  BY DEF Init
<1>2. capture = NoCapture
  BY DEF Init
<1>3. runApplied \in BOOLEAN /\ runKnown \in BOOLEAN
  BY DEF Init
<1>4. QED
  BY <1>1, <1>2, <1>3 DEF Init, TypeOK, Transports

\* Every step keeps the types.
LEMMA StepTypeOK == TypeOK /\ [Next]_vars => TypeOK'
<1> SUFFICES ASSUME TypeOK, [Next]_vars PROVE TypeOK'
  OBVIOUS
<1> USE DEF TypeOK
<1>1. ASSUME NEW i \in Inputs, NEW high \in BOOLEAN, CaptureLatch(i, high) PROVE TypeOK'
  BY <1>1 DEF CaptureLatch, inputVars, syncVars, requestVars, userVars, historyVars
<1>2. CASE CaptureDecide
  BY <1>2 DEF CaptureDecide, inputVars, syncVars, requestVars, userVars, historyVars
<1>3. CASE CapturePush
  <2> USE <1>3 DEF CapturePush
  <2>1. capture.input \in Inputs
    OBVIOUS
  <2> DEFINE item == [high |-> latch[capture.input], lost |-> capture.fate = "mark",
                      role |-> applied.role[capture.input]]
  <2>2. queue' \in [Inputs -> Seq(Item)]
    <3>1. CASE capture.fate = "drop"
      BY <3>1
    <3>2. CASE capture.fate # "drop"
      <4>1. item \in Item
        BY <2>1, ConfigFacts DEF Item
      <4>2. Append(queue[capture.input], item) \in Seq(Item)
        BY <2>1, <4>1
      <4>3. queue' = [queue EXCEPT ![capture.input] = Append(@, item)]
        BY <3>2
      <4> QED
        BY <2>1, <4>2, <4>3
    <3> QED
      BY <3>1, <3>2
  <2>3. capture' = NoCapture
    OBVIOUS
  <2> QED
    BY <2>2, <2>3 DEF inputVars, syncVars, requestVars, userVars, historyVars
<1>4. CASE TickInputs
  <2> USE <1>4 DEF TickInputs
  <2>1. queue' \in [Inputs -> Seq(Item)]
    BY DEF DrainedByRoles
  <2>2. InputOf(applied, "Run") \in {0, 1, 2} /\ InputOf(applied, "Reset") \in {0, 1, 2}
    BY DEF InputOf
  <2>3. runKnown' \in BOOLEAN /\ runApplied' \in BOOLEAN
    BY <2>2 DEF RunBaseline, Inputs
  <2> DEFINE reset == InputOf(applied, "Reset")
  <2>4. gateApplied' \in BOOLEAN
    <3>1. \/ gateApplied' = latch[reset] /\ reset # 0
          \/ gateApplied' = gateApplied
          \/ gateApplied' = (reset # 0 /\ applied.resetGate /\ latch[reset])
      <4>1. reset = 0 => EdgesOf("Reset") = {}
        BY DEF EdgesOf
      <4>2. gateApplied' = IF applied.resetGate /\ EdgesOf("Reset") # {}
                           THEN GateAfterEdges(DrainedByRoles[reset], reset)
                           ELSE IF ~configDirty THEN gateApplied
                                ELSE reset # 0 /\ applied.resetGate /\ latch[reset]
        OBVIOUS
      <4> QED
        BY <4>1, <4>2 DEF GateAfterEdges
    <3> QED
      BY <3>1, <2>2 DEF Inputs
  <2>5. playing' \in BOOLEAN /\ armed' \in BOOLEAN /\ tapPending' \in BOOLEAN
    BY DEF PlayingAfter
  <2>6. pending' \in {None, "Stopped", "Playing"}
    BY DEF PendingAfter
  <2>7. userStop' \in {"no", "made", "told"} /\ inTick' \in {"no", "sync", "roles"}
    OBVIOUS
  <2>8. rolesChanged' \in BOOLEAN /\ configDirty' \in BOOLEAN
    OBVIOUS
  <2> QED
    BY <2>1, <2>3, <2>4, <2>5, <2>6, <2>7, <2>8 DEF syncVars, userVars
<1>5. CASE SyncEdge
  <2> USE <1>5 DEF SyncEdge
  <2>1. queue' \in [Inputs -> Seq(Item)]
    <3>1. InputOf(applied, "Sync") \in Inputs /\ queue[InputOf(applied, "Sync")] # <<>>
      BY DEF SyncQueue, InputOf, Inputs
    <3> QED
      BY <3>1
  <2>2. locked' \in BOOLEAN /\ haveReference' \in BOOLEAN
    BY DEF LoseLock, AcquireLock, syncVars
  <2>3. playing' \in BOOLEAN /\ pending' \in {None, "Stopped", "Playing"}
    BY DEF LoseLock, AcquireLock, LossTransition
  <2> QED
    BY <2>1, <2>2, <2>3 DEF inputVars, userVars, historyVars
<1>6. CASE TickFinish
  <2> USE <1>6 DEF TickFinish
  <2>1. queue' \in [Inputs -> Seq(Item)]
    OBVIOUS
  <2>2. InputOf(applied, "Run") \in {0, 1, 2}
    BY DEF InputOf
  <2>3. runKnown' \in BOOLEAN /\ runApplied' \in BOOLEAN /\ armed' \in BOOLEAN
        /\ userStop' \in {"no", "made", "told"}
    BY <2>2 DEF RunCommand, RunHigh, RunLevel, Inputs
  <2>4. locked' \in BOOLEAN /\ haveReference' \in BOOLEAN
    OBVIOUS
  <2>5. playing' \in BOOLEAN /\ pending' \in {None, "Stopped", "Playing"}
    BY <2>2, <2>3 DEF LossTransition, RunCommand, RunHigh, RunLevel, Inputs
  <2> QED
    BY <2>1, <2>3, <2>4, <2>5 DEF userVars
<1>7. CASE Consume
  <2>1. UNCHANGED <<captureVars, inputVars, syncVars, inTick, applied, armed, playing, changed,
                    unsaved, historyVars>>
    BY <1>7 DEF Consume, isrVars
  <2>2. shown' \in Transports /\ pending' \in {None, "Stopped", "Playing"}
        /\ tapPending' \in BOOLEAN /\ pc' = "controls"
    BY <1>7 DEF Consume, Foreground, Transports
  <2> QED
    BY <2>1, <2>2 DEF captureVars, inputVars, syncVars, historyVars
<1>8. CASE NoButtons
  BY <1>8 DEF NoButtons, Foreground, isrVars, captureVars, inputVars, syncVars, requestVars,
              userVars, historyVars
<1>9. ASSUME NEW toggle \in BOOLEAN, NEW stop \in BOOLEAN, PressButtons(toggle, stop) PROVE TypeOK'
  BY <1>9 DEF PressButtons, Toggled, Foreground, isrVars, captureVars, inputVars, syncVars,
              requestVars, userVars, Transports
<1>10. CASE Notify
  <2>1. UNCHANGED <<captureVars, applied, rolesChanged, configDirty, gateApplied, runApplied,
                    syncVars, inTick, pending, tapPending, playing, shown, unsaved, raced>>
    BY <1>10 DEF Notify
  <2>2. armed' \in BOOLEAN /\ runKnown' \in BOOLEAN /\ userStop' \in {"no", "made", "told"}
    BY <1>10 DEF Notify, ArmedByUser
  <2>3. changed' \in BOOLEAN /\ pc' = "configure"
    BY <1>10 DEF Notify, Foreground
  <2> QED
    BY <2>1, <2>2, <2>3 DEF captureVars, syncVars
<1>11. ASSUME NEW c \in Configs, Configure(c) PROVE TypeOK'
  BY <1>11 DEF Configure, Foreground, captureVars, requestVars, historyVars
<1>12. CASE StartCommit
  BY <1>12 DEF StartCommit, Foreground, isrVars, captureVars, inputVars, syncVars, requestVars,
               userVars, historyVars
<1>13. CASE SkipCommit
  BY <1>13 DEF SkipCommit, Foreground, isrVars, captureVars, inputVars, syncVars, requestVars,
               userVars, historyVars
<1>14. CASE EndCommit
  <2>1. UNCHANGED <<captureVars, inputVars, syncVars, inTick, applied, requestVars, playing, shown,
                    changed, historyVars>>
    BY <1>14 DEF EndCommit, isrVars
  <2>2. unsaved' \in BOOLEAN /\ pc' = "consume"
    BY <1>14 DEF EndCommit, Foreground
  <2> QED
    BY <2>1, <2>2 DEF captureVars, inputVars, syncVars, requestVars, historyVars
<1>15. CASE UNCHANGED vars
  BY <1>15 DEF vars, captureVars, inputVars, syncVars, requestVars, userVars, historyVars
<1> QED
  BY <1>1, <1>2, <1>3, <1>4, <1>5, <1>6, <1>7, <1>8, <1>9, <1>10, <1>11, <1>12, <1>13, <1>14,
     <1>15 DEF Next, Capture, Tick, Pass

\* Every variable keeps its type in every reachable state.
THEOREM TypeCorrect == Spec => []TypeOK
BY InitTypeOK, StepTypeOK, PTL DEF Spec

-----------------------------------------------------------------------------
(* Invariance, one lemma per part of IInv. *)

\* An action that leaves the roles, their change flag and the queues alone.
LEMMA NoStaleFrame ==
  NoStaleEdge /\ UNCHANGED <<rolesChanged, applied, queue>> => NoStaleEdge'
BY DEF NoStaleEdge

\* Every edge in a queue carries the role its input has, or a change waits.
LEMMA StepNoStale == TypeOK /\ NoStaleEdge /\ [Next]_vars => NoStaleEdge'
<1> SUFFICES ASSUME TypeOK, NoStaleEdge, [Next]_vars PROVE NoStaleEdge'
  OBVIOUS
<1>1. CASE \/ \E i \in Inputs, high \in BOOLEAN : CaptureLatch(i, high)
           \/ CaptureDecide \/ Consume \/ NoButtons \/ Notify \/ StartCommit \/ SkipCommit
           \/ EndCommit \/ UNCHANGED vars
           \/ \E toggle, stop \in BOOLEAN : PressButtons(toggle, stop)
  <2>1. UNCHANGED <<rolesChanged, applied, queue>>
    BY <1>1 DEF CaptureLatch, CaptureDecide, Consume, NoButtons, Notify, StartCommit, SkipCommit,
                EndCommit, PressButtons, isrVars, inputVars, captureVars, vars
  <2> QED
    BY <2>1, NoStaleFrame
<1>2. CASE CapturePush
  <2>1. capture.input \in Inputs /\ queue \in [Inputs -> Seq(Item)]
    BY <1>2 DEF CapturePush, TypeOK
  <2>2. UNCHANGED <<rolesChanged, applied>>
    BY <1>2 DEF CapturePush, inputVars
  <2>3. CASE capture.fate = "drop"
    BY <1>2, <2>2, <2>3, NoStaleFrame DEF CapturePush
  <2>4. CASE capture.fate # "drop"
    <3> DEFINE item == [high |-> latch[capture.input], lost |-> capture.fate = "mark",
                        role |-> applied.role[capture.input]]
    <3>1. queue' = [queue EXCEPT ![capture.input] = Append(@, item)]
      BY <1>2, <2>4 DEF CapturePush
    <3>2. item.role = applied.role[capture.input]
      OBVIOUS
    <3> HIDE DEF item
    <3>3. SUFFICES ASSUME ~rolesChanged, NEW i \in Inputs, NEW k \in 1 .. Len(queue'[i])
                   PROVE  queue'[i][k].role = applied.role[i]
      BY <2>2 DEF NoStaleEdge
    <3>4. \A n \in 1 .. Len(queue[i]) : queue[i][n].role = applied.role[i]
      BY <3>3 DEF NoStaleEdge
    <3>5. CASE i = capture.input
      <4>1. queue'[i] = Append(queue[i], item) /\ queue[i] \in Seq(Item)
        BY <2>1, <3>1, <3>5
      <4>2. k \in 1 .. Len(queue[i]) + 1
        BY <3>3, <4>1
      <4>3. queue'[i][k] = IF k = Len(queue[i]) + 1 THEN item ELSE queue[i][k]
        BY <4>1, <4>2
      <4> QED
        BY <3>2, <3>4, <3>5, <4>1, <4>2, <4>3
    <3>6. CASE i # capture.input
      BY <2>1, <3>1, <3>3, <3>4, <3>6
    <3> QED
      BY <3>5, <3>6
  <2> QED
    BY <2>3, <2>4
<1>3. CASE TickInputs
  <2> DEFINE drained == {InputOf(applied, f) : f \in {"Reset", "Start", "Restart", "Tap", "Stop"}}
  <2>0. queue' = [i \in Inputs |-> IF i \in drained THEN <<>> ELSE DrainedByRoles[i]]
    BY <1>3 DEF TickInputs
  <2> HIDE DEF drained
  <2>1. \A i \in Inputs : queue'[i] = <<>> \/ (~rolesChanged /\ queue'[i] = queue[i])
    <3>1. \A i \in Inputs : queue'[i] = <<>> \/ queue'[i] = DrainedByRoles[i]
      BY <2>0
    <3>2. \A i \in Inputs : DrainedByRoles[i] = IF rolesChanged THEN <<>> ELSE queue[i]
      BY DEF DrainedByRoles
    <3> QED
      BY <3>1, <3>2
  <2>2. applied' = applied
    BY <1>3 DEF TickInputs
  <2>3. SUFFICES ASSUME NEW i \in Inputs, NEW k \in 1 .. Len(queue'[i])
                 PROVE  queue'[i][k].role = applied.role[i]
    BY <2>2 DEF NoStaleEdge
  <2>4. queue'[i] # <<>>
    BY <2>3
  <2> QED
    BY <2>1, <2>3, <2>4 DEF NoStaleEdge
<1>4. CASE SyncEdge
  <2> DEFINE s == InputOf(applied, "Sync")
  <2>1. s \in Inputs /\ queue[s] # <<>> /\ queue \in [Inputs -> Seq(Item)]
    BY <1>4 DEF SyncEdge, SyncQueue, InputOf, Inputs, TypeOK
  <2>2. UNCHANGED <<rolesChanged, applied>> /\ queue' = [queue EXCEPT ![s] = Tail(@)]
    BY <1>4 DEF SyncEdge, inputVars
  <2> HIDE DEF s
  <2>3. SUFFICES ASSUME ~rolesChanged, NEW i \in Inputs, NEW k \in 1 .. Len(queue'[i])
                 PROVE  queue'[i][k].role = applied.role[i]
    BY <2>2 DEF NoStaleEdge
  <2>4. \A n \in 1 .. Len(queue[i]) : queue[i][n].role = applied.role[i]
    BY <2>3 DEF NoStaleEdge
  <2>5. CASE i = s
    <3>1. queue'[i] = Tail(queue[i]) /\ queue[i] \in Seq(Item) /\ queue[i] # <<>>
      BY <2>1, <2>2, <2>5
    <3>2. k + 1 \in 1 .. Len(queue[i]) /\ queue'[i][k] = queue[i][k + 1]
      BY <2>3, <3>1
    <3> QED
      BY <2>4, <3>2
  <2>6. CASE i # s
    BY <2>1, <2>2, <2>3, <2>4, <2>6
  <2> QED
    BY <2>5, <2>6
<1>5. CASE TickFinish
  <2>1. \A i \in Inputs : queue'[i] = <<>> \/ queue'[i] = queue[i]
    BY <1>5 DEF TickFinish
  <2>2. UNCHANGED <<rolesChanged, applied>>
    BY <1>5 DEF TickFinish
  <2> QED
    BY <2>1, <2>2 DEF NoStaleEdge
<1>6. ASSUME NEW c \in Configs, Configure(c) PROVE NoStaleEdge'
  <2>1. applied' = c /\ queue' = queue /\ rolesChanged' = (rolesChanged \/ c.role # applied.role)
    BY <1>6 DEF Configure, captureVars
  <2> QED
    BY <2>1 DEF NoStaleEdge
<1> QED
  BY <1>1, <1>2, <1>3, <1>4, <1>5, <1>6 DEF Next, Capture, Tick, Pass

\* The display and a waiting transition agree with the engine.
LEMMA StepPending == TypeOK /\ PendingInv /\ [Next]_vars => PendingInv'
<1> SUFFICES ASSUME TypeOK, PendingInv, [Next]_vars PROVE PendingInv'
  OBVIOUS
<1>0. TypeOK'
  BY StepTypeOK
<1> USE DEF PendingInv
<1>1. CASE \/ \E i \in Inputs, high \in BOOLEAN : CaptureLatch(i, high)
           \/ CaptureDecide \/ CapturePush \/ NoButtons \/ Notify \/ StartCommit \/ SkipCommit
           \/ EndCommit \/ UNCHANGED vars \/ \E c \in Configs : Configure(c)
  <2>1. UNCHANGED <<raced, pending, shown, playing>>
    BY <1>1 DEF CaptureLatch, CaptureDecide, CapturePush, NoButtons, Notify, StartCommit,
                SkipCommit, EndCommit, Configure, requestVars, userVars, historyVars, vars
  <2> QED
    BY <2>1
<1>2. CASE TickInputs
  <2>1. /\ UNCHANGED <<raced, shown>>
        /\ \/ UNCHANGED <<playing, pending>>
           \/ playing' /\ pending' = "Playing"
           \/ ~playing' /\ pending' = "Stopped"
    BY <1>2 DEF TickInputs, PlayingAfter, PendingAfter, userVars, TypeOK
  <2> QED
    BY <2>1, <1>0 DEF None, TypeOK
<1>3. CASE SyncEdge
  <2>1. /\ UNCHANGED <<raced, shown>>
        /\ \/ UNCHANGED <<playing, pending>>
           \/ playing' /\ pending' = "Playing"
           \/ ~playing' /\ pending' = "Stopped"
    BY <1>3 DEF SyncEdge, LoseLock, AcquireLock, LossTransition, userVars, historyVars
  <2> QED
    BY <2>1, <1>0 DEF None, TypeOK
<1>4. CASE TickFinish
  <2>1. /\ UNCHANGED <<raced, shown>>
        /\ \/ UNCHANGED <<playing, pending>>
           \/ playing' /\ pending' = "Playing"
           \/ ~playing' /\ pending' = "Stopped"
    BY <1>4 DEF TickFinish, LossTransition, userVars, TypeOK
  <2> QED
    BY <2>1, <1>0 DEF None, TypeOK
<1>5. CASE Consume
  BY <1>5 DEF Consume, historyVars, TypeOK
<1>6. ASSUME NEW toggle \in BOOLEAN, NEW stop \in BOOLEAN, PressButtons(toggle, stop)
      PROVE  PendingInv'
  BY <1>6 DEF PressButtons, requestVars, TypeOK
<1> QED
  BY <1>1, <1>2, <1>3, <1>4, <1>5, <1>6 DEF Next, Capture, Tick, Pass

\* A reported stop disarms, and nothing but a command to play arms again.
LEMMA StepStop == TypeOK /\ StopInv /\ [Next]_vars => StopInv'
<1> SUFFICES ASSUME TypeOK, StopInv, [Next]_vars PROVE StopInv'
  OBVIOUS
<1> USE DEF StopInv
<1>1. CASE \/ \E i \in Inputs, high \in BOOLEAN : CaptureLatch(i, high)
           \/ CaptureDecide \/ CapturePush \/ SyncEdge
  <2>1. UNCHANGED <<changed, pc, shown, armed, userStop>>
    BY <1>1 DEF CaptureLatch, CaptureDecide, CapturePush, SyncEdge, requestVars, userVars,
                historyVars
  <2> QED
    BY <2>1
<1>2. CASE UNCHANGED vars
  BY <1>2 DEF vars, requestVars, userVars, historyVars
<1>3. CASE TickInputs
  <2>1. UNCHANGED <<changed, pc, shown>>
    BY <1>3 DEF TickInputs, userVars
  <2>2. /\ armed' = (~Stopped /\ (Started \/ armed))
        /\ userStop' = IF Started THEN "no" ELSE userStop
    BY <1>3 DEF TickInputs
  <2> QED
    BY <2>1, <2>2
<1>4. CASE TickFinish
  <2>1. UNCHANGED <<changed, pc, shown>>
    BY <1>4 DEF TickFinish, userVars
  <2>2. /\ armed' = IF RunCommand THEN RunHigh ELSE armed
        /\ userStop' = IF RunCommand /\ RunHigh THEN "no" ELSE userStop
    BY <1>4 DEF TickFinish
  <2> QED
    BY <2>1, <2>2
<1>5. CASE Consume \/ NoButtons \/ StartCommit \/ SkipCommit \/ EndCommit
           \/ \E c \in Configs : Configure(c)
  <2>1. UNCHANGED <<changed, armed, userStop>> /\ pc # "notify"
    BY <1>5 DEF Consume, NoButtons, StartCommit, SkipCommit, EndCommit, Configure, Foreground,
                requestVars, userVars, historyVars
  <2> QED
    BY <2>1
<1>6. ASSUME NEW toggle \in BOOLEAN, NEW stop \in BOOLEAN, PressButtons(toggle, stop)
      PROVE  StopInv'
  BY <1>6 DEF PressButtons, Foreground
<1>7. CASE Notify
  BY <1>7 DEF Notify, ArmedByUser, Foreground, TypeOK
<1> QED
  BY <1>1, <1>2, <1>3, <1>4, <1>5, <1>6, <1>7 DEF Next, Capture, Tick, Pass

\* In the tick that applies new roles no edge is left to interpret.
LEMMA StepRolesTick == TypeOK /\ RolesTickInv /\ [Next]_vars => RolesTickInv'
<1> SUFFICES ASSUME TypeOK, RolesTickInv, [Next]_vars, inTick' = "roles"
             PROVE  /\ \A i \in Inputs : queue'[i] = <<>>
                    /\ InputOf(applied, "Run")' # 0 =>
                         runKnown' /\ runApplied' = latch'[InputOf(applied, "Run")']
  BY DEF RolesTickInv
<1>1. CASE TickInputs
  <2>1. rolesChanged
    BY <1>1 DEF TickInputs
  <2>2. \A i \in Inputs : queue'[i] = <<>>
    <3> DEFINE drained == {InputOf(applied, f) : f \in {"Reset", "Start", "Restart", "Tap", "Stop"}}
    <3>1. queue' = [i \in Inputs |-> IF i \in drained THEN <<>> ELSE DrainedByRoles[i]]
      BY <1>1 DEF TickInputs
    <3> HIDE DEF drained
    <3> QED
      BY <2>1, <3>1 DEF DrainedByRoles
  <2>3. /\ UNCHANGED <<latch, applied>>
        /\ runKnown' = (InputOf(applied, "Run") # 0)
        /\ runApplied' = RunBaseline(InputOf(applied, "Run"))
    BY <1>1, <2>1 DEF TickInputs
  <2>4. InputOf(applied, "Run")' = InputOf(applied, "Run")
    BY <2>3 DEF InputOf
  <2>5. InputOf(applied, "Run") # 0 => InputOf(applied, "Run") \in Inputs
    BY DEF InputOf, Inputs
  <2> QED
    BY <2>2, <2>3, <2>4, <2>5 DEF RunBaseline, TypeOK
<1>2. CASE SyncEdge
  <2>1. inTick = "roles"
    BY <1>2 DEF SyncEdge
  <2>2. SyncQueue = <<>>
    BY <2>1 DEF RolesTickInv, SyncQueue, InputOf, Inputs
  <2> QED
    BY <1>2, <2>2 DEF SyncEdge
<1>3. CASE UNCHANGED vars
  <2>1. UNCHANGED <<queue, latch, applied, runKnown, runApplied, inTick>>
    BY <1>3 DEF vars, captureVars, inputVars
  <2> QED
    BY <2>1 DEF RolesTickInv, InputOf
<1>4. CASE TickFinish
  BY <1>4 DEF TickFinish
<1>5. CASE Capture
  BY <1>5 DEF Capture, CaptureLatch, CaptureDecide, CapturePush
<1>6. CASE Pass
  BY <1>6 DEF Pass, Consume, NoButtons, PressButtons, Notify, Configure, StartCommit, SkipCommit,
              EndCommit, Foreground, isrVars
<1> QED
  BY <1>1, <1>2, <1>3, <1>4, <1>5, <1>6 DEF Next, Tick

\* What a step that leaves the gate's surroundings alone keeps.
LEMMA GateFrame ==
  ASSUME GateInv,
         UNCHANGED <<rolesChanged, configDirty, applied, gateApplied, latch, queue, capture>>
  PROVE  GateInv'
BY DEF GateInv, InputOf

\* The reset gate lags only while an edge is on its way.
LEMMA StepGate == TypeOK /\ GateInv /\ [Next]_vars => GateInv'
<1> SUFFICES ASSUME TypeOK, GateInv, [Next]_vars PROVE GateInv'
  OBVIOUS
<1> DEFINE reset == InputOf(applied, "Reset")
<1>0. reset = 0 \/ (reset \in Inputs /\ applied.role[reset] = "Reset")
  BY DEF InputOf, Inputs
<1>t. TypeOK'
  BY StepTypeOK
<1>1. CASE \/ UNCHANGED vars \/ Consume \/ NoButtons \/ Notify \/ StartCommit \/ SkipCommit
           \/ EndCommit \/ \E toggle, stop \in BOOLEAN : PressButtons(toggle, stop)
  <2>1. UNCHANGED <<rolesChanged, configDirty, applied, gateApplied, latch, queue, capture>>
    BY <1>1 DEF vars, Consume, NoButtons, Notify, StartCommit, SkipCommit, EndCommit,
                PressButtons, isrVars, captureVars, inputVars
  <2> QED
    BY <2>1, GateFrame
<1>2. CASE Capture \/ SyncEdge \/ TickFinish
  <2>1. UNCHANGED <<rolesChanged, configDirty, applied, gateApplied>>
    BY <1>2 DEF Capture, CaptureLatch, CaptureDecide, CapturePush, SyncEdge, TickFinish, inputVars
  <2>2. InputOf(applied, "Reset")' = reset
    BY <2>1 DEF InputOf
  <2> SUFFICES ASSUME ~configDirty, reset # 0, applied.resetGate
               PROVE  \/ queue'[reset] # <<>> \/ gateApplied = latch'[reset]
                      \/ capture'.input = reset /\ capture'.fate # "drop"
    BY <2>1, <2>2 DEF GateInv
  <2> HIDE DEF reset
  <2>3. \/ queue[reset] # <<>> \/ gateApplied = latch[reset]
        \/ capture.input = reset /\ capture.fate # "drop"
    BY DEF GateInv, reset
  <2>4. ASSUME NEW i \in Inputs, NEW high \in BOOLEAN, CaptureLatch(i, high)
        PROVE  \/ queue'[reset] # <<>> \/ gateApplied = latch'[reset]
               \/ capture'.input = reset /\ capture'.fate # "drop"
    <3>1. /\ capture = NoCapture /\ queue' = queue
          /\ latch' = [latch EXCEPT ![i] = high]
          /\ capture' = [input |-> i, fate |-> "undecided"]
      BY <2>4 DEF CaptureLatch
    <3>2. capture.input # reset
      BY <3>1, <1>0 DEF NoCapture, Inputs
    <3>3. CASE i = reset
      BY <3>1, <3>3
    <3>4. CASE i # reset
      BY <2>3, <3>1, <3>2, <3>4, <1>0 DEF TypeOK
    <3> QED
      BY <3>3, <3>4
  <2>5. CASE CaptureDecide
    <3>1. /\ UNCHANGED <<latch, queue>>
          /\ capture \in [input : Inputs, fate : {"undecided", "drop", "mark", "store"}]
      BY <2>5 DEF CaptureDecide, TypeOK
    <3>2. /\ capture'.input = capture.input
          /\ capture'.fate = "drop" => queue[capture.input] # <<>>
      BY <2>5, <3>1 DEF CaptureDecide, MarkerLast
    <3> QED
      BY <2>3, <3>1, <3>2
  <2>6. CASE CapturePush
    <3>1. latch' = latch /\ capture.input \in Inputs
      BY <2>6 DEF CapturePush, TypeOK
    <3>2. CASE capture.fate = "drop"
      BY <2>3, <2>6, <3>1, <3>2 DEF CapturePush
    <3>3. CASE capture.fate # "drop"
      <4>1. PICK item : queue' = [queue EXCEPT ![capture.input] = Append(@, item)]
        BY <2>6, <3>3 DEF CapturePush
      <4>2. CASE capture.input = reset
        <5>1. queue'[reset] = Append(queue[reset], item) /\ queue[reset] \in Seq(Item)
          BY <4>1, <4>2, <3>1 DEF TypeOK
        <5> QED
          BY <5>1
      <4>3. CASE capture.input # reset
        BY <2>3, <3>1, <4>1, <4>3, <1>0 DEF TypeOK
      <4> QED
        BY <4>2, <4>3
    <3> QED
      BY <3>2, <3>3
  <2>7. CASE SyncEdge
    <3>1. UNCHANGED <<latch, capture>> /\ queue' = [queue EXCEPT ![InputOf(applied, "Sync")] = Tail(@)]
      BY <2>7 DEF SyncEdge
    <3>2. InputOf(applied, "Sync") # reset
      BY <1>0 DEF InputOf, Inputs
    <3>3. queue'[reset] = queue[reset]
      BY <3>1, <3>2, <1>0 DEF TypeOK
    <3> QED
      BY <2>3, <3>1, <3>3
  <2>8. CASE TickFinish
    <3>1. /\ UNCHANGED <<latch, capture>>
          /\ queue' = [i \in Inputs |-> IF applied.role[i] \in {"Run", "Off"} THEN <<>> ELSE queue[i]]
      BY <2>8 DEF TickFinish
    <3>2. queue'[reset] = queue[reset]
      BY <3>1, <1>0
    <3> QED
      BY <2>3, <3>1, <3>2
  <2> QED
    BY <1>2, <2>4, <2>5, <2>6, <2>7, <2>8 DEF Capture
<1>3. CASE TickInputs
  <2>1. /\ UNCHANGED <<latch, capture, applied>>
        /\ rolesChanged' = FALSE /\ configDirty' = FALSE
        /\ gateApplied' = IF applied.resetGate /\ EdgesOf("Reset") # {}
                          THEN GateAfterEdges(DrainedByRoles[reset], reset)
                          ELSE IF ~configDirty THEN gateApplied
                               ELSE reset # 0 /\ applied.resetGate /\ latch[reset]
    BY <1>3 DEF TickInputs
  <2>2. InputOf(applied, "Reset")' = reset
    BY <2>1 DEF InputOf
  <2>3. CASE reset = 0 \/ ~applied.resetGate
    <3>1. ~(applied.resetGate /\ EdgesOf("Reset") # {})
      BY <2>3 DEF EdgesOf
    <3>2. ~gateApplied'
      BY <2>1, <2>3, <3>1 DEF GateInv
    <3> QED
      BY <2>1, <2>2, <2>3, <3>2 DEF GateInv
  <2>4. CASE reset # 0 /\ applied.resetGate
    <3>1. CASE EdgesOf("Reset") # {} \/ configDirty
      <4>1. gateApplied' = latch[reset]
        BY <2>1, <2>4, <3>1, <1>0 DEF GateAfterEdges, TypeOK
      <4> QED
        BY <2>1, <2>2, <2>4, <4>1 DEF GateInv
    <3>2. CASE EdgesOf("Reset") = {} /\ ~configDirty
      <4>1. ~rolesChanged
        BY <3>2 DEF GateInv
      <4>2. DrainedByRoles[reset] = queue[reset] /\ queue[reset] \in Seq(Item)
        BY <4>1, <2>4, <1>0 DEF DrainedByRoles, TypeOK
      <4>3. {DrainedByRoles[reset][k] : k \in 1 .. Len(DrainedByRoles[reset])} = {}
        BY <3>2, <2>4 DEF EdgesOf
      <4>4. queue[reset] = <<>>
        <5>1. 1 \notin 1 .. Len(queue[reset])
          BY <4>2, <4>3
        <5> QED
          BY <4>2, <5>1
      <4>5. gateApplied' = gateApplied
        BY <2>1, <3>2
      <4> QED
        BY <2>1, <2>2, <2>4, <3>2, <4>4, <4>5 DEF GateInv
    <3> QED
      BY <3>1, <3>2
  <2> QED
    BY <2>3, <2>4
<1>4. ASSUME NEW c \in Configs, Configure(c) PROVE GateInv'
  <2>1. /\ UNCHANGED <<latch, queue, capture, gateApplied>>
        /\ applied' = c
        /\ rolesChanged' = (rolesChanged \/ c.role # applied.role)
        /\ configDirty' = (configDirty \/ c.role # applied.role \/ c.resetGate # applied.resetGate)
    BY <1>4 DEF Configure, captureVars
  <2>2. CASE c.role # applied.role \/ c.resetGate # applied.resetGate
    BY <2>1, <2>2 DEF GateInv
  <2>3. CASE c.role = applied.role /\ c.resetGate = applied.resetGate
    <3>1. InputOf(applied, "Reset")' = reset
      BY <2>1, <2>3 DEF InputOf
    <3>2. rolesChanged' = rolesChanged /\ configDirty' = configDirty
          /\ applied'.resetGate = applied.resetGate
      BY <2>1, <2>3 DEF TypeOK
    <3> HIDE DEF reset
    <3> QED
      BY <2>1, <3>1, <3>2 DEF GateInv, reset
  <2> QED
    BY <2>2, <2>3
<1> QED
  BY <1>1, <1>2, <1>3, <1>4 DEF Next, Tick, Pass

-----------------------------------------------------------------------------
(* The results. *)

\* The conjunction is inductive.
THEOREM Invariance == Spec => []IInv
<1>1. Init => IInv
  <2> SUFFICES ASSUME Init PROVE IInv
    OBVIOUS
  <2>1. TypeOK
    BY InitTypeOK
  <2>2. NoStaleEdge
    BY DEF Init, NoStaleEdge
  <2>3. PendingInv /\ GateInv /\ StopInv /\ RolesTickInv
    BY DEF Init, PendingInv, GateInv, StopInv, RolesTickInv
  <2> QED
    BY <2>1, <2>2, <2>3 DEF IInv
<1>2. IInv /\ [Next]_vars => IInv'
  BY StepTypeOK, StepNoStale, StepPending, StepGate, StepStop, StepRolesTick DEF IInv
<1> QED
  BY <1>1, <1>2, PTL DEF Spec

\* No edge is ever interpreted under a role it was not captured for.
THEOREM NoStaleEdgeAlways == Spec => []NoStaleEdge
<1>1. IInv => NoStaleEdge
  BY DEF IInv
<1> QED
  BY Invariance, <1>1, PTL

\* The display agrees with the engine whenever no transition waits.
THEOREM ShownIsPlayingAlways == Spec => []ShownIsPlaying
<1>1. IInv => ShownIsPlaying
  BY DEF IInv, PendingInv, ShownIsPlaying
<1> QED
  BY Invariance, <1>1, PTL

\* The reset gate follows its comparator's level, whatever was dropped.
THEOREM ResetGateCorrect == Spec => []ResetGateFollowsLevel
<1>1. IInv => ResetGateFollowsLevel
  BY DEF IInv, GateInv, ResetGateFollowsLevel
<1> QED
  BY Invariance, <1>1, PTL

\* Neither acquiring nor losing lock touches a stop the controller was told of.
THEOREM HeldStopRespected == Spec => ClockRespectsHeldStop
<1>1. ASSUME IInv, SyncEdge \/ TickFinish, userStop = "told", InputOf(applied, "Run") = 0
      PROVE  UNCHANGED <<playing, pending>>
  <2>1. ~armed
    BY <1>1 DEF IInv, StopInv
  <2>2. CASE SyncEdge
    BY <2>1, <2>2 DEF SyncEdge, LoseLock, AcquireLock
  <2>3. CASE TickFinish
    <3>1. ~RunCommand
      BY <1>1 DEF RunCommand
    <3>2. armed' = armed
      BY <2>3, <3>1 DEF TickFinish
    <3>3. playing \in BOOLEAN
      BY <1>1 DEF IInv, TypeOK
    <3> QED
      BY <2>1, <2>3, <3>1, <3>2, <3>3 DEF TickFinish
  <2> QED
    BY <1>1, <2>2, <2>3
<1>2. IInv => [(SyncEdge \/ TickFinish) /\ userStop = "told" /\ InputOf(applied, "Run") = 0
                 => UNCHANGED <<playing, pending>>]_vars
  BY <1>1
<1> QED
  BY Invariance, <1>2, PTL DEF ClockRespectsHeldStop

\* The tick that applies new roles plays and stops nothing by itself.
THEOREM RoleChangeSilent == Spec => RoleChangeIsSilent
<1>1. ASSUME IInv, [Next]_vars, (rolesChanged /\ ~rolesChanged') \/ inTick = "roles"
      PROVE  UNCHANGED <<playing, pending>> \/ (locked /\ ~locked')
  <2>0. playing \in BOOLEAN /\ locked \in BOOLEAN /\ runApplied \in BOOLEAN /\ latch \in [Inputs -> BOOLEAN]
    BY <1>1 DEF IInv, TypeOK
  <2>1. CASE TickInputs
    <3>1. rolesChanged
      BY <1>1, <2>1 DEF TickInputs
    <3>2. \A f \in Roles : EdgesOf(f) = {}
      <4>1. \A i \in Inputs : DrainedByRoles[i] = <<>>
        BY <3>1 DEF DrainedByRoles
      <4>2. \A f \in Roles : InputOf(applied, f) = 0 \/ InputOf(applied, f) \in Inputs
        BY DEF InputOf, Inputs
      <4> QED
        BY <4>1, <4>2 DEF EdgesOf
    <3>3. ~Started /\ ~Stopped
      BY <3>2 DEF Started, Stopped, Rose, Roles
    <3>4. playing' = PlayingAfter(Started, Stopped) /\ pending' = PendingAfter(Started, Stopped)
      BY <2>1 DEF TickInputs
    <3> QED
      BY <2>0, <3>3, <3>4 DEF PlayingAfter, PendingAfter
  <2>2. CASE inTick = "roles" /\ SyncEdge
    <3>1. SyncQueue = <<>>
      BY <1>1, <2>2 DEF IInv, RolesTickInv, SyncQueue, InputOf, Inputs
    <3> QED
      BY <2>2, <3>1 DEF SyncEdge
  <2>3. CASE inTick = "roles" /\ TickFinish
    <3>1. ~RunCommand
      <4>1. InputOf(applied, "Run") = 0 \/ InputOf(applied, "Run") \in Inputs
        BY DEF InputOf, Inputs
      <4> QED
        BY <1>1, <2>0, <2>3, <4>1 DEF IInv, RolesTickInv, RunCommand, RunHigh, RunLevel
    <3> QED
      BY <2>0, <2>3, <3>1 DEF TickFinish
  <2>4. CASE (SyncEdge \/ TickFinish) /\ inTick # "roles"
    BY <1>1, <2>4 DEF SyncEdge, TickFinish, inputVars
  <2>5. CASE Capture \/ Pass
    <3>1. inTick # "roles"
      BY <2>5 DEF Capture, CaptureLatch, CaptureDecide, CapturePush, Pass, Consume, NoButtons,
                  PressButtons, Notify, Configure, StartCommit, SkipCommit, EndCommit, Foreground
    <3>2. rolesChanged => rolesChanged'
      BY <2>5 DEF Capture, CaptureLatch, CaptureDecide, CapturePush, Pass, Consume, NoButtons,
                  PressButtons, Notify, Configure, StartCommit, SkipCommit, EndCommit,
                  isrVars, inputVars
    <3> QED
      BY <1>1, <3>1, <3>2
  <2>6. CASE UNCHANGED vars
    BY <2>6 DEF vars, requestVars
  <2> QED
    BY <1>1, <2>1, <2>2, <2>3, <2>4, <2>5, <2>6 DEF Next, Tick
<1>2. IInv /\ [Next]_vars
        => [(rolesChanged /\ ~rolesChanged') \/ inTick = "roles"
              => UNCHANGED <<playing, pending>> \/ (locked /\ ~locked')]_vars
  BY <1>1
<1> QED
  BY Invariance, <1>2, PTL DEF Spec, RoleChangeIsSilent
=============================================================================
