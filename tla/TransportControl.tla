--------------------------- MODULE TransportControl ---------------------------
(***************************************************************************)
(* Who decides whether the clock plays: the foreground loop                *)
(* (ClockApplication::runOnce), the scheduler tick's input interpretation  *)
(* (ExternalSyncController) and the EXTI capture of the two comparator     *)
(* inputs, interleaved as the NVIC priorities allow.                       *)
(*                                                                         *)
(* A tick preempts everything; a capture preempts the foreground only; the *)
(* foreground's short InterruptLock sections are single actions.  A tick   *)
(* is TickInputs, then one SyncEdge per queued SYNC edge, then TickFinish; *)
(* nothing else is enabled in between.                                     *)
(*                                                                         *)
(* The engine is reduced to whether it plays and to its reset gate.  Time  *)
(* is abstracted: whether a SYNC period is too short, accepted or too long *)
(* and whether the lock times out are choices, numbers live elsewhere.     *)
(* SYNC uses its rising edge (settings.edge = Rising).                     *)
(***************************************************************************)
EXTENDS Naturals, Sequences

CONSTANTS
  Configs,    \* the settings a user may choose, each a Config
  Edits,      \* whether the user edits the settings while the clock runs
  Buttons,    \* subset of {"toggle", "stop"} the user may press
  QueueSize   \* edges one queue holds before it reports a loss

\* InputFunction; Fill is reserved and no editor offers it.
Inputs     == {1, 2}
Roles      == {"Off", "Sync", "Reset", "Run", "Start", "Stop", "Restart", "Tap"}
Transports == {"Stopped", "Paused", "Playing"}
None       == "None"
NoCapture  == [input |-> 0, fate |-> "none"]

\* A queued edge or, if lost, a continuity-loss marker; role is history: the
\* role of its input when it was captured.
Item       == [high : BOOLEAN, lost : BOOLEAN, role : Roles]

\* The part of ClockState the controller copies.  `timing' stands for PPQN
\* and edge polarity, `source' says whether External or Auto is selected.
Config == [role : [Inputs -> Roles], external : BOOLEAN, lossStops : BOOLEAN,
           resetGate : BOOLEAN, timing : {1, 2}]

\* The settings editor and the persisted-state validation keep roles unique.
ASSUME ConfigsAssumption ==
  /\ Configs \subseteq Config /\ Configs # {}
  /\ \A c \in Configs : c.role[1] = "Off" \/ c.role[1] # c.role[2]
ASSUME QueueAssumption == QueueSize \in Nat \ {0}
ASSUME UserAssumption == Edits \in BOOLEAN /\ Buttons \subseteq {"toggle", "stop"}

VARIABLES
  \* ExternalInputCapture
  latch,        \* syncLevelHigh_, resetLevelHigh_
  queue,        \* the two edge queues
  capture,      \* the EXTI handler: which input, and what it decided
  \* ExternalSyncController
  applied,      \* settings_, inputs_, source_
  rolesChanged, \* inputRolesChanged_
  configDirty,  \* configurationDirty_
  gateApplied,  \* resetGateApplied_ and the engine's externalResetGate_
  runKnown,     \* runLevelInitialized_
  runApplied,   \* runLevelApplied_
  haveReference,
  locked,       \* externalLocked_
  armed,        \* autoTransportArmed_
  pending,      \* pendingTransportTransition_, or None
  tapPending,   \* pendingTap_
  \* ClockEngine
  playing,
  \* ClockApplication / UiController
  pc,           \* where runOnce stands
  shown,        \* state_.transport
  changed,      \* state_.transport differs from transportBeforeControls
  unsaved,      \* a Flash commit is due
  \* bookkeeping
  inTick,       \* "no", or between TickInputs and TickFinish "sync", or
                \* "roles" when this tick applied a role change
  userStop,     \* history: the user's STOP or PAUSE as the last explicit
                \* decision: "no", "made", "told" (and the controller knows)
  raced         \* history: the last button met an unconsumed transition

captureVars == <<latch, queue, capture>>
syncVars    == <<haveReference, locked>>
inputVars   == <<rolesChanged, configDirty, gateApplied, runKnown, runApplied>>
requestVars == <<armed, pending, tapPending>>
userVars    == <<shown, changed, unsaved>>
historyVars == <<userStop, raced>>
vars == <<captureVars, applied, inputVars, syncVars, requestVars, playing,
          pc, userVars, inTick, historyVars>>

\* The input that owns role f, or 0 (assignmentIndex).
InputOf(c, f) == IF c.role[1] = f THEN 1 ELSE IF c.role[2] = f THEN 2 ELSE 0

Last(q)     == q[Len(q)]
MarkerLast(q) == q # <<>> /\ Last(q).lost

\* begin() runs before the scheduler and takes the input levels as they are.
Init ==
  /\ latch \in [Inputs -> BOOLEAN]
  /\ queue = [i \in Inputs |-> <<>>]
  /\ capture = NoCapture
  /\ applied \in Configs
  /\ rolesChanged = FALSE /\ configDirty = TRUE /\ gateApplied = FALSE
  /\ runKnown = (InputOf(applied, "Run") # 0)
  /\ runApplied = (runKnown /\ latch[InputOf(applied, "Run")])
  /\ haveReference = FALSE /\ locked = FALSE
  /\ armed = TRUE /\ pending = None /\ tapPending = FALSE
  /\ playing = FALSE
  /\ pc = "consume"
  /\ shown = "Stopped" /\ changed = FALSE /\ unsaved = FALSE
  /\ inTick = "no"
  /\ userStop = "no" /\ raced = FALSE

-----------------------------------------------------------------------------
(* EXTI: the level is latched first, then the edge is queued.  What pushFrom- *)
(* Isr decides may be stale when it acts: a tick can drain in between.        *)

CaptureLatch(i, high) ==
  /\ inTick = "no" /\ capture = NoCapture
  /\ latch' = [latch EXCEPT ![i] = high]
  /\ capture' = [input |-> i, fate |-> "undecided"]
  /\ UNCHANGED <<queue, applied, inputVars, syncVars, requestVars, playing,
                 pc, userVars, inTick, historyVars>>

CaptureDecide ==
  /\ inTick = "no" /\ capture # NoCapture /\ capture.fate = "undecided"
  /\ LET q == queue[capture.input] IN
       capture' = [capture EXCEPT !.fate =
                     IF MarkerLast(q) THEN "drop"
                     ELSE IF Len(q) >= QueueSize THEN "mark" ELSE "store"]
  /\ UNCHANGED <<latch, queue, applied, inputVars, syncVars, requestVars, playing,
                 pc, userVars, inTick, historyVars>>

CapturePush ==
  /\ inTick = "no" /\ capture # NoCapture /\ capture.fate # "undecided"
  /\ LET i    == capture.input
         item == [high |-> latch[i], lost |-> capture.fate = "mark",
                  role |-> applied.role[i]]
     IN queue' = IF capture.fate = "drop" THEN queue
                 ELSE [queue EXCEPT ![i] = Append(@, item)]
  /\ capture' = NoCapture
  /\ UNCHANGED <<latch, applied, inputVars, syncVars, requestVars, playing,
                 pc, userVars, inTick, historyVars>>

-----------------------------------------------------------------------------
(* The tick, first part: applyInputConfiguration, processResetEdges and the   *)
(* edge-controlled transport roles, STOP last.                                *)

\* Fault: only the first input's edges are discarded.
DrainedHalf == [i \in Inputs |-> IF rolesChanged /\ i = 1 THEN <<>> ELSE queue[i]]

\* A role change discards the edges captured under the old roles ...
DrainedByRoles == [i \in Inputs |-> IF rolesChanged THEN <<>> ELSE queue[i]]

\* Fault: a newly assigned RUN starts from a low level.
RunBaselineLow(run) == FALSE

\* ... and takes the present RUN level as the one already obeyed.
RunBaseline(run) == run # 0 /\ latch[run]

\* Fault: the gate follows the last queued edge instead of the level.
GateFromEdges(q, reset) == Last(q).high

\* The reset gate after RESET edges were drained from q.
GateAfterEdges(q, reset) == latch[reset]

\* Fault: STOP is handled before START.
PlayingStopFirst(started, stopped) == started \/ (~stopped /\ playing)

\* STOP is handled after START and RESTART.
PlayingAfter(started, stopped) == ~stopped /\ (started \/ playing)
PendingAfter(started, stopped) ==
  IF stopped THEN "Stopped" ELSE IF started THEN "Playing" ELSE pending

\* The edges this tick finds for role f, and whether one of them is a rise.
EdgesOf(f) == LET i == InputOf(applied, f) IN
                IF i = 0 THEN {} ELSE {DrainedByRoles[i][k] : k \in 1 .. Len(DrainedByRoles[i])}
Rose(f)    == \E e \in EdgesOf(f) : e.high /\ ~e.lost
Started    == Rose("Start") \/ Rose("Restart")
Stopped    == Rose("Stop")

TickInputs ==
  /\ inTick = "no"
  /\ inTick' = IF rolesChanged THEN "roles" ELSE "sync"
  /\ LET run     == InputOf(applied, "Run")
         reset   == InputOf(applied, "Reset")
         gate0   == IF ~configDirty THEN gateApplied
                    ELSE reset # 0 /\ applied.resetGate /\ latch[reset]
         drained == {InputOf(applied, f) : f \in {"Reset", "Start", "Restart", "Tap", "Stop"}}
     IN /\ queue' = [i \in Inputs |-> IF i \in drained THEN <<>> ELSE DrainedByRoles[i]]
        /\ rolesChanged' = FALSE /\ configDirty' = FALSE
        /\ runKnown'   = IF rolesChanged THEN run # 0 ELSE runKnown
        /\ runApplied' = IF rolesChanged THEN RunBaseline(run) ELSE runApplied
        /\ gateApplied' = IF applied.resetGate /\ EdgesOf("Reset") # {}
                          THEN GateAfterEdges(DrainedByRoles[reset], reset) ELSE gate0
  /\ tapPending' = (tapPending \/ Rose("Tap"))
  /\ playing' = PlayingAfter(Started, Stopped)
  /\ armed'   = (~Stopped /\ (Started \/ armed))
  /\ pending' = PendingAfter(Started, Stopped)
  /\ userStop' = IF Started THEN "no" ELSE userStop
  /\ UNCHANGED <<latch, capture, applied, syncVars, pc, userVars, raced>>

\* Fault: losing lock is not shown at all.
LossUnreported == None

LossTransition == "Stopped"

\* loseExternalLockFromIsr: the loss policy stops a transport that the clock
\* is allowed to control.
LoseLock ==
  /\ locked' = FALSE
  /\ IF locked /\ applied.lossStops /\ applied.external /\ armed
     THEN playing' = FALSE /\ pending' = LossTransition
     ELSE UNCHANGED <<playing, pending>>

\* startOnLockAcquisitionFromIsr.
AcquireLock ==
  /\ locked' = TRUE
  /\ IF ~locked /\ applied.external /\ armed
     THEN playing' = TRUE /\ pending' = "Playing"
     ELSE UNCHANGED <<playing, pending>>

SyncQueue == LET i == InputOf(applied, "Sync") IN IF i = 0 THEN <<>> ELSE queue[i]

\* One turn of processSyncEdges' loop.
SyncEdge ==
  /\ inTick # "no"
  /\ SyncQueue # <<>>
  /\ queue' = [queue EXCEPT ![InputOf(applied, "Sync")] = Tail(@)]
  /\ LET e == Head(SyncQueue) IN
       \/ e.lost /\ LoseLock /\ haveReference' = FALSE
       \/ ~e.lost /\ ~e.high /\ UNCHANGED <<syncVars, playing, pending>>
       \/ /\ ~e.lost /\ e.high /\ ~haveReference        \* first reference
          /\ haveReference' = TRUE
          /\ UNCHANGED <<locked, playing, pending>>
       \/ /\ ~e.lost /\ e.high /\ haveReference         \* below the glitch floor
          /\ UNCHANGED <<syncVars, playing, pending>>
       \/ /\ ~e.lost /\ e.high /\ haveReference         \* beyond the slowest tempo
          /\ LoseLock
          /\ haveReference' = TRUE
       \/ /\ ~e.lost /\ e.high /\ haveReference         \* an accepted pulse
          /\ AcquireLock
          /\ UNCHANGED haveReference
  /\ UNCHANGED <<latch, capture, applied, inputVars, armed, tapPending,
                 pc, userVars, inTick, historyVars>>

\* Fault: RUN follows its last queued edge, and so misses dropped ones.
RunLevelFromEdges(run) == IF queue[run] = <<>> THEN runApplied ELSE Last(queue[run]).high

\* processRunLevel obeys the comparator's level, not the queued edges.
RunLevel(run) == latch[run]

\* The level differs from the one obeyed, or none was obeyed yet.
RunHigh    == LET run == InputOf(applied, "Run") IN run # 0 /\ RunLevel(run)
RunCommand == InputOf(applied, "Run") # 0 /\ ~(runKnown /\ RunHigh = runApplied)

\* The rest of the tick: processRunLevel, drainInactiveInputs, the timeout.
TickFinish ==
  /\ inTick # "no"
  /\ SyncQueue = <<>>
  /\ inTick' = "no"
  /\ queue' = [i \in Inputs |-> IF applied.role[i] \in {"Run", "Off"} THEN <<>> ELSE queue[i]]
  /\ runKnown' = (InputOf(applied, "Run") # 0)
  /\ runApplied' = IF RunCommand THEN RunHigh ELSE runApplied
  /\ armed' = IF RunCommand THEN RunHigh ELSE armed
  /\ userStop' = IF RunCommand /\ RunHigh THEN "no" ELSE userStop
  /\ \E timeout \in BOOLEAN :
       /\ timeout => locked /\ haveReference
       /\ haveReference' = (haveReference /\ ~timeout)
       /\ locked' = (locked /\ ~timeout)
       /\ LET lossStop == timeout /\ applied.lossStops /\ applied.external /\ armed'
          IN /\ playing' = (~lossStop /\ IF RunCommand THEN RunHigh ELSE playing)
             /\ pending' = IF lossStop THEN LossTransition
                           ELSE IF ~RunCommand THEN pending
                           ELSE IF RunHigh THEN "Playing" ELSE "Stopped"
  /\ UNCHANGED <<latch, capture, applied, rolesChanged, configDirty, gateApplied,
                 tapPending, pc, userVars, raced>>

-----------------------------------------------------------------------------
(* The foreground: one pass of runOnce.  Every step may be preempted by a     *)
(* tick or a capture before and after, never inside.                          *)

Foreground(from, to) ==
  /\ inTick = "no" /\ capture = NoCapture
  /\ pc = from /\ pc' = to

isrVars == <<captureVars, inputVars, syncVars, inTick>>

\* consumeTransportTransition and consumeTapRequest.
Consume ==
  /\ Foreground("consume", "controls")
  /\ shown' = IF pending = None THEN shown ELSE pending
  /\ pending' = None
  /\ tapPending' = FALSE
  /\ UNCHANGED <<isrVars, applied, armed, playing, changed, unsaved, historyVars>>

\* processControls, transport part: PLAY/PAUSE toggles, then STOP.
Toggled(s) == IF s = "Playing" THEN "Paused" ELSE "Playing"

PressButtons(toggle, stop) ==
  /\ Foreground("controls", "notify")
  /\ (toggle \/ stop)
  /\ toggle => "toggle" \in Buttons
  /\ stop => "stop" \in Buttons
  /\ shown' = IF stop THEN "Stopped" ELSE Toggled(shown)
  /\ changed' = (shown' # shown)
  /\ playing' = (shown' = "Playing")
  /\ unsaved' = TRUE
  /\ userStop' = IF playing' THEN "no" ELSE "made"
  /\ raced' = (pending # None)
  /\ UNCHANGED <<isrVars, applied, requestVars>>

NoButtons ==
  /\ Foreground("controls", "notify")
  /\ UNCHANGED <<isrVars, applied, requestVars, playing, userVars, historyVars>>

\* Fault: a paused transport stays armed.
ArmedUnlessStopped(transport) == transport # "Stopped"

\* A user who stops or pauses takes the transport out of the clock's hands.
ArmedByUser(transport) == transport = "Playing"

\* notifyManualTransportState, called only when state_.transport changed.
\* A wired RUN is to be applied again at the next tick.
Notify ==
  /\ Foreground("notify", "configure")
  /\ IF changed
     THEN /\ armed' = ArmedByUser(shown)
          /\ runKnown' = (runKnown /\ InputOf(applied, "Run") = 0)
          /\ userStop' = IF userStop # "no" /\ ~playing THEN "told" ELSE userStop
     ELSE UNCHANGED <<armed, runKnown, userStop>>
  /\ changed' = FALSE
  /\ UNCHANGED <<captureVars, applied, rolesChanged, configDirty, gateApplied,
                 runApplied, syncVars, inTick, pending, tapPending, playing,
                 shown, unsaved, raced>>

\* The settings the user edited in this pass reach the controller:
\* updateConfiguration, which returns early when nothing changed.
Configure(c) ==
  /\ Foreground("configure", "service")
  /\ c = applied \/ Edits
  /\ applied' = c
  /\ unsaved' = (unsaved \/ c # applied)
  /\ LET roles  == c.role # applied.role
         timing == c.timing # applied.timing \/ InputOf(c, "Sync") # InputOf(applied, "Sync")
     IN /\ rolesChanged' = (rolesChanged \/ roles)
        /\ configDirty' = (configDirty \/ roles \/ c.resetGate # applied.resetGate)
        /\ haveReference' = (haveReference /\ ~timing)
        /\ locked' = (locked /\ ~timing)
  /\ UNCHANGED <<captureVars, gateApplied, runKnown, runApplied, inTick,
                 requestVars, playing, shown, changed, historyVars>>

\* allowFlashWrite and the three stores' service(): a due commit starts only
\* when state_.transport is not PLAYING.  Debounce delays are abstracted: a
\* commit that is due may also wait for another pass.
StartCommit ==
  /\ Foreground("service", "commit")
  /\ shown # "Playing" /\ unsaved
  /\ UNCHANGED <<isrVars, applied, requestVars, playing, userVars, historyVars>>

SkipCommit ==
  /\ Foreground("service", "consume")
  /\ UNCHANGED <<isrVars, applied, requestVars, playing, userVars, historyVars>>

EndCommit ==
  /\ Foreground("commit", "consume")
  /\ unsaved' = FALSE
  /\ UNCHANGED <<isrVars, applied, requestVars, playing, shown, changed, historyVars>>

-----------------------------------------------------------------------------
Capture == \/ \E i \in Inputs, high \in BOOLEAN : CaptureLatch(i, high)
           \/ CaptureDecide \/ CapturePush
Tick == TickInputs \/ SyncEdge \/ TickFinish
Pass == \/ Consume \/ NoButtons
        \/ \E toggle, stop \in BOOLEAN : PressButtons(toggle, stop)
        \/ Notify \/ (\E c \in Configs : Configure(c)) \/ StartCommit \/ SkipCommit \/ EndCommit
Next == Capture \/ Tick \/ Pass

\* A tick that began runs to its end and ticks recur; a capture and the
\* foreground resume whenever no tick is active.
Fairness == /\ WF_vars(Tick) /\ SF_vars(CaptureDecide \/ CapturePush) /\ SF_vars(Pass)

Spec     == Init /\ [][Next]_vars
FairSpec == Spec /\ Fairness

-----------------------------------------------------------------------------
(* Properties. *)

TypeOK ==
  /\ latch \in [Inputs -> BOOLEAN]
  /\ queue \in [Inputs -> Seq(Item)]
  /\ capture \in {NoCapture} \cup [input : Inputs, fate : {"undecided", "drop", "mark", "store"}]
  /\ applied \in Configs
  /\ rolesChanged \in BOOLEAN /\ configDirty \in BOOLEAN /\ gateApplied \in BOOLEAN
  /\ runKnown \in BOOLEAN /\ runApplied \in BOOLEAN
  /\ haveReference \in BOOLEAN /\ locked \in BOOLEAN
  /\ armed \in BOOLEAN /\ pending \in {None, "Stopped", "Playing"} /\ tapPending \in BOOLEAN
  /\ playing \in BOOLEAN
  /\ pc \in {"consume", "controls", "notify", "configure", "service", "commit"}
  /\ shown \in Transports /\ changed \in BOOLEAN /\ unsaved \in BOOLEAN
  /\ inTick \in {"no", "sync", "roles"}
  /\ userStop \in {"no", "made", "told"} /\ raced \in BOOLEAN

\* No edge is interpreted under a role it was not captured for: while no role
\* change waits to be applied, every queued edge carries its input's role.
NoStaleEdge ==
  rolesChanged \/ \A i \in Inputs : \A k \in 1 .. Len(queue[i]) :
                    queue[i][k].role = applied.role[i]

\* With RESET in gate mode the engine's reset gate equals the comparator's
\* level as soon as no edge is on its way, however many edges were dropped;
\* without it the gate is released, whatever the roles were before.
ResetGateFollowsLevel ==
  LET reset == InputOf(applied, "Reset") IN
    inTick = "no" /\ ~configDirty =>
      IF reset = 0 \/ ~applied.resetGate THEN ~gateApplied
      ELSE queue[reset] # <<>> \/ capture.input = reset \/ gateApplied = latch[reset]

\* The foreground shows the transport the engine runs: once no transition
\* waits to be consumed, they agree, unless the user's last button met an
\* unconsumed transition.
ShownIsPlaying ==
  raced \/ pending # None \/ (shown = "Playing") = playing

\* A transport the user stopped or paused, of which the controller was told,
\* is neither started nor turned from PAUSED into STOPPED by the clock: neither
\* acquiring nor losing lock touches it, through any number of edges, ticks,
\* further buttons and settings until the user, START or RUN plays again.
ClockRespectsHeldStop ==
  [][(SyncEdge \/ TickFinish) /\ userStop = "told" /\ InputOf(applied, "Run") = 0
     => UNCHANGED <<playing, pending>>]_vars

\* Assigning a role is configuration: the whole tick that applies new roles
\* plays nothing and stops nothing, unless the SYNC lock times out in it.
RoleChangeIsSilent ==
  [][(rolesChanged /\ ~rolesChanged') \/ inTick = "roles" =>
       UNCHANGED <<playing, pending>> \/ (locked /\ ~locked')]_vars

\* A queued STOP edge eventually stops the engine, whatever START edges arrive
\* with it, before it and after it.
StopQueued ==
  \E i \in Inputs : /\ applied.role[i] = "Stop"
                    /\ \E k \in 1 .. Len(queue[i]) : queue[i][k].high /\ ~queue[i][k].lost
StopIsObeyed == StopQueued ~> ~playing

\* A RUN input that changes and then settles, however often it bounced and
\* however many of its edges were dropped, ends with the engine and the display
\* in the settled level's transport.
RunLevelIs(h) == \E i \in Inputs : applied.role[i] = "Run" /\ latch[i] = h
SettledRunIsShown ==
  \A h \in BOOLEAN :
    <>(runKnown /\ runApplied # h) /\ <>[]RunLevelIs(h)
      => <>[](playing = h /\ (shown = "Playing") = h)

-----------------------------------------------------------------------------
(* What the safety properties rest on. *)

\* A transition that waits is the last thing that was decided.
PendingInv ==
  raced \/ IF pending = None THEN (shown = "Playing") = playing
           ELSE (pending = "Playing") = playing

\* Inside a tick too the reset gate lags behind its level only as long as an
\* edge is queued or will be.
GateInv ==
  /\ rolesChanged => configDirty
  /\ LET reset == InputOf(applied, "Reset") IN
       ~configDirty =>
         IF reset = 0 \/ ~applied.resetGate THEN ~gateApplied
         ELSE \/ queue[reset] # <<>> \/ gateApplied = latch[reset]
              \/ capture.input = reset /\ capture.fate # "drop"

\* A button press waits to be reported; a reported stop disarms.
StopInv ==
  /\ changed => pc = "notify"
  /\ changed /\ userStop # "no" => shown # "Playing"
  /\ userStop = "told" => ~armed

\* The tick that applies new roles has no edges left and nothing to catch up.
RolesTickInv ==
  inTick = "roles" =>
    /\ \A i \in Inputs : queue[i] = <<>>
    /\ LET run == InputOf(applied, "Run") IN run # 0 => runKnown /\ runApplied = latch[run]

\* The inductive invariant.
IInv == TypeOK /\ NoStaleEdge /\ PendingInv /\ GateInv /\ StopInv /\ RolesTickInv

-----------------------------------------------------------------------------
(* What the documentation says and the code does not do. *)

\* clock_application.cpp: never start a persistence commit while PLAYING.
\* allowFlashWrite reads state_.transport, which a START consumed in the next
\* pass has not reached yet.
NoCommitWhilePlaying == [][StartCommit => ~playing]_vars

\* docs/USER_GUIDE.md: an explicit user STOP or PAUSE has priority; incoming
\* clock cannot silently undo a manual transport decision.  A STOP that leaves
\* state_.transport as it was is never reported to the controller.
ClockNeverUndoesStop ==
  [][SyncEdge /\ userStop # "no" /\ pc \notin {"controls", "notify"}
     => ~(~playing /\ playing')]_vars
=============================================================================
