-------------------------------- MODULE Display --------------------------------
(***************************************************************************)
(* The way of a picture to the glass: when the interface renders and when  *)
(* a stopped module shows a screensaver, dims and sleeps                   *)
(* (ui_controller_display.cpp), and how the driver moves a frame into the  *)
(* panel's memory over SPI or, in short transactions, over I2C             *)
(* (hal/oled_display*.cpp).                                                *)
(*                                                                         *)
(* A frame has two pages: the first shows what user, settings and cables   *)
(* decide, the second the playhead of the engine.  The panel keeps each    *)
(* page in two halves, the chunks of an I2C transfer.  One pass of         *)
(* runOnce is one action.                                                  *)
(***************************************************************************)
EXTENDS Integers, FiniteSets

CONSTANTS
  Buses,        \* transports the driver is built for: subset of {"spi", "i2c"}
  Savers,       \* whether a screensaver is chosen: subset of BOOLEAN
  SaverAfter, DimAfter, OffAfter,  \* the idle times, in minutes
  MaxEvents,    \* bound: controls, cable edges, transport changes, steps of the playhead
  Losses        \* what I2C may do to a refresh: subset of {"nak", "partial"}

Pages == {1, 2}
Halves == {1, 2}

VARIABLES
  bus, hasSaver,
  screen, step,     \* what rendering would draw now, and the engine's playhead
  stopped,          \* state_.transport
  idle,             \* minutes since lastUserActivityAtMs_ (bound: OffAfter)
  turned,           \* displayRotated180 as applied
  ui,               \* dirty, the playhead last rendered, off, dim, saver, rested
  queued, presented, fresh,  \* frame to send (or Blank), frame sent, hasPresented..
  transfer,         \* the I2C refresh: phase, page, half
  ram, column,      \* the panel's memory and its data pointer
  panel,            \* the panel's power and contrast
  events            \* events so far (bound)

vars == <<bus, hasSaver, screen, step, stopped, idle, turned, ui, queued, presented, fresh,
          transfer, ram, column, panel, events>>

Cell(what, isTurned) == [what |-> what, turned |-> isTurned]
Blank == [p \in Pages |-> Cell("blank", FALSE)]
Rest == [phase |-> "idle", page |-> 1, half |-> 1]

\* After begin(): a blank frame was presented, the panel is on.
Init ==
  /\ bus \in Buses /\ hasSaver \in Savers
  /\ screen = "a" /\ step = "a" /\ stopped = TRUE /\ idle = 0 /\ turned = FALSE
  /\ ui = [dirty |-> TRUE, shown |-> "b", off |-> FALSE, dim |-> FALSE, saver |-> FALSE,
           rested |-> TRUE]
  /\ queued = Blank /\ presented = Blank /\ fresh = TRUE /\ transfer = Rest
  /\ ram = [p \in Pages |-> [h \in Halves |-> Cell("blank", FALSE)]] /\ column = 1
  /\ panel = [on |-> TRUE, dim |-> FALSE] /\ events = 0

-----------------------------------------------------------------------------
(* Parts of one pass, as functions of a record of all it may change.        *)

Now == [screen |-> screen, stopped |-> stopped, idle |-> idle, turned |-> turned, ui |-> ui,
        queued |-> queued, presented |-> presented, fresh |-> fresh, transfer |-> transfer,
        ram |-> ram, panel |-> panel]

\* prepareTransportFramebuffer: turning swaps the pages and mirrors each.
Mapped(picture, isTurned) ==
  [p \in Pages |-> Cell(picture[IF isTurned THEN 3 - p ELSE p], isTurned)]

\* noteUserActivity
Wake(n) ==
  [n EXCEPT !.idle = 0,
            !.ui = [@ EXCEPT !.dirty = TRUE, !.off = FALSE, !.dim = FALSE, !.saver = FALSE,
                             !.rested = FALSE],
            !.panel = [on |-> @.on \/ n.ui.off, dim |-> @.dim /\ ~n.ui.dim]]

\* setRotation180: the driver forgets the old mapping and a queued frame of it.
Rotate(n, isTurned) ==
  IF isTurned = n.turned THEN n
  ELSE [n EXCEPT !.turned = isTurned, !.fresh = FALSE, !.transfer = Rest, !.queued = Blank,
                   !.ui.dirty = TRUE]

\* presentImmediate, which writes the pages that differ; queueI2cPresent.
Present(n, picture) ==
  LET frame == Mapped(picture, n.turned)
      differ == {p \in Pages : ~n.fresh \/ frame[p] # n.presented[p]}
  IN  IF bus = "spi"
      THEN [n EXCEPT !.fresh = TRUE,
                     !.presented = [p \in Pages |-> IF p \in differ THEN frame[p] ELSE @[p]],
                     !.ram = [p \in Pages |-> IF p \in differ
                                              THEN [h \in Halves |-> frame[p]] ELSE @[p]]]
      ELSE [n EXCEPT !.queued = frame, !.transfer = [phase |-> "window", page |-> 1, half |-> 1]]

\* The normal screens are not drawn: a screensaver runs or the panel is off.
Protected(n) == n.stopped /\ n.idle >= IF hasSaver THEN SaverAfter ELSE OffAfter

\* serviceStopModeDisplay once the module is stopped and nobody is there;
\* `tick': the frame interval of the screensaver has passed.
Protect(n, tick) ==
  IF n.idle >= OffAfter
  THEN [n EXCEPT !.ui.off = TRUE, !.panel.on = @ /\ n.ui.off]
  ELSE LET dim == n.idle >= DimAfter
           d == [n EXCEPT !.ui.dim = dim, !.panel.dim = IF dim # n.ui.dim THEN dim ELSE @]
       IN  IF ~Protected(n) THEN d
           ELSE IF n.ui.saver /\ ~tick THEN d
           ELSE Present([d EXCEPT !.ui.saver = TRUE], [p \in Pages |-> "saver"])

\* serviceRendering of the normal screens: a playhead that moved marks the
\* screen dirty; rendering waits for the refresh interval.
Render(n, tick) ==
  LET m == [n EXCEPT !.ui.dirty = @ \/ step # n.ui.shown, !.ui.shown = step]
  IN  IF m.ui.dirty /\ (m.ui.rested \/ tick)
      THEN Present([m EXCEPT !.ui.dirty = FALSE, !.ui.rested = FALSE],
                   [p \in Pages |-> IF p = 1 THEN m.screen ELSE step])
      ELSE [m EXCEPT !.ui.rested = @ \/ tick]

\* serviceRendering with serviceStopModeDisplay
Draw(n, tick) ==
  IF ~n.stopped
  THEN Render(IF n.ui.off \/ n.ui.dim \/ n.ui.saver THEN Wake(n) ELSE n, tick)
  ELSE IF Protected(n) THEN Protect(n, tick) ELSE Render(Protect(n, tick), tick)

-----------------------------------------------------------------------------
(* One I2C transaction of serviceI2cRefresh.                                *)

Differing(n) ==
  {p \in Pages : p >= n.transfer.page /\ (~n.fresh \/ n.queued[p] # n.presented[p])}
First(S) == CHOOSE p \in S : \A q \in S : p <= q

\* The address window of the next page that differs; none left ends the frame.
OpenWindow(n, outcome) ==
  IF Differing(n) = {} THEN [n EXCEPT !.transfer = Rest, !.fresh = TRUE, !.queued = Blank]
  ELSE [n EXCEPT !.transfer =
          [phase |-> IF outcome = "ok" THEN "data" ELSE "window",
           page |-> First(Differing(n)), half |-> 1]]

\* Mutant: a chunk that was not acknowledged counts as sent.
SendChunkUnchecked(n, outcome) ==
  LET t == n.transfer
      whole == [n EXCEPT !.transfer = IF t.half = 1 THEN [t EXCEPT !.half = 2]
                                      ELSE [phase |-> "window", page |-> t.page + 1, half |-> 1],
                         !.presented[t.page] = n.queued[t.page]]
  IN  IF outcome = "nak" THEN whole
      ELSE [whole EXCEPT !.ram[t.page][column] = n.queued[t.page]]

\* A chunk goes where the panel's pointer stands; it counts when acknowledged.
\* The page is presented as soon as its last half is (copy_n per chunk).
SendChunk(n, outcome) ==
  LET t == n.transfer
      written == [n EXCEPT !.ram[t.page][column] = IF outcome = "nak" THEN @ ELSE n.queued[t.page]]
  IN  IF outcome # "ok" THEN written
      ELSE [written EXCEPT
              !.transfer = IF t.half = 1 THEN [t EXCEPT !.half = 2]
                           ELSE [phase |-> "window", page |-> t.page + 1, half |-> 1],
              !.presented[t.page] = IF t.half = 2 THEN n.queued[t.page] ELSE Cell("mixed", FALSE)]

Transfer(n, outcome) ==
  CASE n.transfer.phase = "idle" -> n
    [] n.transfer.phase = "window" -> OpenWindow(n, outcome)
    [] OTHER -> SendChunk(n, outcome)

\* The pointer follows the windows and the bytes the panel took.
Pointer(n, outcome) ==
  IF n.transfer.phase = "window" /\ Differing(n) # {} /\ outcome = "ok" THEN 1
  ELSE IF n.transfer.phase = "data" /\ outcome # "nak" THEN 3 - column ELSE column

-----------------------------------------------------------------------------
\* What a pass may meet: nothing, a control or a cable edge (and what it
\* changes on the screen), a transport change, a change of rotation.
Arrival(n, what) ==
  CASE what = "nothing" -> n
    [] what = "touch" -> Wake([n EXCEPT !.screen = IF @ = "a" THEN "b" ELSE "a"])
    [] what = "transport" -> [n EXCEPT !.stopped = ~@, !.ui.dirty = TRUE]
    [] what = "rotation" -> Rotate(Wake(n), ~n.turned)

\* runOnce
Pass(what, tick, outcome) ==
  \E drawn \in {Draw(Arrival(Now, what), tick)} : \E n \in {Transfer(drawn, outcome)} :
    /\ what = "nothing" \/ events < MaxEvents
    /\ events' = events + IF what = "nothing" THEN 0 ELSE 1
    /\ outcome # "ok" => drawn.transfer.phase # "idle"
    /\ screen' = n.screen /\ stopped' = n.stopped /\ idle' = n.idle /\ turned' = n.turned
    /\ ui' = n.ui /\ queued' = n.queued /\ presented' = n.presented /\ fresh' = n.fresh
    /\ transfer' = n.transfer /\ ram' = n.ram /\ panel' = n.panel
    /\ column' = Pointer(drawn, outcome)
    /\ UNCHANGED <<bus, hasSaver, step>>

\* The scheduler interrupt moves the playhead.
Play ==
  /\ ~stopped /\ events < MaxEvents /\ events' = events + 1
  /\ step' = IF step = "a" THEN "b" ELSE "a"
  /\ UNCHANGED <<bus, hasSaver, screen, stopped, idle, turned, ui, queued, presented, fresh,
                 transfer, ram, column, panel>>

Minute ==
  /\ idle < OffAfter /\ idle' = idle + 1
  /\ UNCHANGED <<bus, hasSaver, screen, step, stopped, turned, ui, queued, presented, fresh,
                 transfer, ram, column, panel, events>>

Next ==
  \/ \E what \in {"nothing", "touch", "transport", "rotation"}, tick \in BOOLEAN,
        outcome \in {"ok"} \cup Losses : Pass(what, tick, outcome)
  \/ Play
  \/ Minute

Spec == Init /\ [][Next]_vars

-----------------------------------------------------------------------------
\* Once nothing is left to draw or to send, the glass holds what the interface
\* shows, in the present orientation, whole: no page that the comparison with
\* the last frame skipped, no half of an older frame, no frame overtaken by a
\* screensaver, a rotation or a lost transaction.
PanelShowsTheScreen ==
  ~ui.dirty /\ step = ui.shown /\ ~ui.saver /\ ~ui.off /\ transfer.phase = "idle" =>
    \A p \in Pages, h \in Halves :
      ram[p][h] = Mapped([q \in Pages |-> IF q = 1 THEN screen ELSE step], turned)[p]

=============================================================================
