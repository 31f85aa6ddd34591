------------------------------ MODULE StoryFrames ------------------------------
(* One story run of the Storybook tool: StoryRunner executes scenes and        *)
(* actions on a presentation clock of its own, a FrameObserver takes a frame   *)
(* at every frame time in between, and the trace of the run becomes the cues   *)
(* of the sidecar files (sim/tutorial/story_runner.cpp, frame_pipeline.cpp,    *)
(* story_narration_beat.cpp, panel_presentation.cpp, subtitle_writer.cpp).     *)
(* The story is not fixed: any scene or action the validator admits may come   *)
(* next; one that fails ends the run where it is, and StoryOutput says what    *)
(* becomes of its frames.  What the simulated module shows is a value that may *)
(* change whenever its firmware advances; the drawn picture is the tuple of    *)
(* what it depends on, and stands for the path of the file that holds it.      *)
EXTENDS Integers, Sequences, SequencesExt

CONSTANTS
  PeriodNum, PeriodDen,  \* a frame every PeriodNum / PeriodDen time units
  Durations,             \* durations of actions, scenes and audio
  Texts,                 \* subtitles
  Faces,                 \* [shown, traces]: framebuffer, LEDs, cables; scope traces
  Linger,                \* focusLingerMs
  MaxTime,               \* bound: no scene or action begins later
  MaxScenes,             \* bound: scenes of the story
  None

NoText == "none"

VARIABLES
  sparse,    \* FrameStorageMode::SparseForPublication
  now,       \* presentationUs_
  scene,     \* [kind, index]
  subtitle,  \* activeSubtitle_
  todo,      \* the operations the current scene or action has yet to do
  beat,      \* the open narration beat: [start, budget, focus] or None
  face,      \* VisibleRuntimeState, and the traces the scope would draw
  panel,     \* PhysicalPresentationState: [pressed, scope, focus, touched]
  count,     \* frameIndex_
  frame,     \* the last of frames_: [at, text, file, due], the picture in its file
             \* and the one due at its time
  static,    \* cachedStatic...: [scene, file] or None
  last,      \* previous...: [scene, text, look, file] or None
  cues,      \* subtitleCuesFromTrace so far: [from, to, text], to = None while open
  spoken     \* the last beat's narration cue: [from, to, budget] or None

observer == <<count, frame, static, last>>
stage == <<subtitle, beat, panel, cues, spoken>>
vars == <<sparse, now, scene, todo, face, observer, stage>>

Playing == scene.kind = "tutorial"
NextFrame == (count * PeriodNum) \div PeriodDen

\* The focus ring: an explicit one, or one that lingers on a control just used.
Ring == CASE panel.focus -> "explicit"
          [] ~panel.focus /\ panel.touched # None /\ now - panel.touched <= Linger -> "automatic"
          [] OTHER -> "none"
Look == [shown |-> face.shown, pressed |-> panel.pressed, scope |-> panel.scope, ring |-> Ring]
\* TutorialRenderer.renderScene; a title card depends on its scene alone.
Picture ==
  IF Playing THEN <<"tutorial", Look, IF panel.scope THEN face.traces ELSE None, subtitle>>
  ELSE <<"card", scene.index>>

Init ==
  /\ sparse \in BOOLEAN /\ face \in Faces
  /\ now = 0 /\ todo = <<>>
  /\ scene = [kind |-> "none", index |-> 0] /\ subtitle = NoText
  /\ beat = None
  /\ panel = [pressed |-> FALSE, scope |-> FALSE, focus |-> FALSE, touched |-> None]
  /\ count = 0 /\ frame = None /\ static = None /\ last = None
  /\ cues = <<>> /\ spoken = None

-----------------------------------------------------------------------------
(* The trace: a subtitle event closes the open cue and opens the next.       *)
Closed ==
  IF cues = <<>> \/ Last(cues).to # None THEN cues
  ELSE IF Last(cues).from < now THEN [cues EXCEPT ![Len(cues)].to = now] ELSE Front(cues)
Show(text) ==
  /\ subtitle' = text
  /\ cues' = IF text = NoText THEN Closed
             ELSE Append(Closed, [from |-> now, to |-> None, text |-> text])

\* advancePresentationMs and advanceActiveMs, which runs the firmware too.
Hold(d) == [op |-> "hold", for |-> d]
Run(d)  == [op |-> "run", for |-> d]
Press(down) == [op |-> "press", down |-> down]
Do(op) == [op |-> op]

-----------------------------------------------------------------------------
(* Scenes.                                                                   *)
Idle == todo = <<>>
Between == Idle /\ scene.kind = "none" /\ now <= MaxTime /\ scene.index < MaxScenes

BeginCard(d) ==
  /\ Between
  /\ scene' = [kind |-> "card", index |-> scene.index + 1]
  /\ todo' = <<Hold(d), Do("end")>>
  /\ UNCHANGED <<sparse, now, face, observer, stage>>

\* A scene without a subtitle emits no Subtitle event.
BeginTutorial(text) ==
  /\ Between
  /\ scene' = [kind |-> "tutorial", index |-> scene.index + 1]
  /\ IF text = NoText THEN UNCHANGED <<subtitle, cues>> ELSE Show(text)
  /\ UNCHANGED <<sparse, now, todo, face, observer, beat, panel, spoken>>

EndScene ==
  /\ \/ Idle /\ Playing /\ beat = None /\ UNCHANGED todo
     \/ todo = <<Do("end")>> /\ todo' = <<>>
  /\ scene' = [scene EXCEPT !.kind = "none"]
  /\ subtitle' = NoText /\ cues' = Closed
  /\ UNCHANGED <<sparse, now, face, observer, beat, panel, spoken>>

-----------------------------------------------------------------------------
(* Actions of a tutorial scene.                                              *)
Begin(ops) == /\ Idle /\ Playing /\ now <= MaxTime /\ todo' = ops
              /\ UNCHANGED <<sparse, now, scene, face, observer>>

\* executeButton, and an encoder detent or a patch alike.
Button(d) ==
  /\ Begin(<<Run(d), Press(TRUE), Run(d), Press(FALSE), Run(d)>>)
  /\ UNCHANGED stage
\* A button that stays down over the next actions, or comes up after them.
SetButton(down, d) ==
  /\ Begin(<<Run(d), Press(down), Run(d)>>)
  /\ UNCHANGED stage
Wait(d) == Begin(<<Run(d)>>) /\ UNCHANGED stage
Subtitle(text) == Begin(<<>>) /\ Show(text) /\ UNCHANGED <<beat, panel, spoken>>
Scope(on) ==
  /\ Begin(<<>>) /\ panel' = [panel EXCEPT !.scope = on]
  /\ UNCHANGED <<subtitle, beat, cues, spoken>>
\* Inside a beat a focus without a duration stays until the beat ends.
Focus(d) ==
  /\ Begin(IF d = 0 /\ beat # None THEN <<>> ELSE <<Hold(d), Do("unfocus")>>)
  /\ panel' = [panel EXCEPT !.focus = TRUE]
  /\ beat' = IF d = 0 /\ beat # None THEN [beat EXCEPT !.focus = TRUE] ELSE beat
  /\ UNCHANGED <<subtitle, cues, spoken>>

BeginBeat(budget) ==
  /\ Begin(<<>>) /\ beat = None
  /\ beat' = [start |-> now, budget |-> budget, focus |-> FALSE]
  /\ UNCHANGED <<subtitle, panel, cues, spoken>>
\* finish: a short beat waits for the rest of its audio.
EndBeat ==
  /\ beat # None /\ now - beat.start <= beat.budget
  /\ Begin(<<Hold(beat.budget - (now - beat.start))>>
           \o (IF beat.focus THEN <<Do("unfocus")>> ELSE <<>>) \o <<Do("spoken")>>)
  /\ UNCHANGED stage

-----------------------------------------------------------------------------
(* The operations of the current action, in order.                           *)
Doing(op) == todo # <<>> /\ Head(todo).op = op
Done == todo' = Tail(todo) /\ UNCHANGED <<sparse, now, scene, face, observer, subtitle, cues>>

PressControl ==
  /\ Doing("press") /\ Done
  /\ panel' = [panel EXCEPT !.pressed = Head(todo).down, !.touched = now]
  /\ UNCHANGED <<beat, spoken>>
Unfocus ==
  /\ Doing("unfocus") /\ Done
  /\ panel' = [panel EXCEPT !.focus = FALSE]
  /\ UNCHANGED <<beat, spoken>>
EndSpeech ==
  /\ Doing("spoken") /\ Done
  /\ spoken' = [from |-> beat.start, to |-> now, budget |-> beat.budget]
  /\ beat' = None /\ UNCHANGED panel

-----------------------------------------------------------------------------
(* sampleUntil and onPresentationSample.                                     *)
Until == now + Head(todo).for
Pass(d) ==
  /\ now' = now + d
  /\ face' \in IF Head(todo).op = "run" /\ d > 0 THEN Faces ELSE {face}
  /\ todo' = <<[Head(todo) EXCEPT !.for = @ - d]>> \o Tail(todo)
  /\ UNCHANGED <<sparse, scene, observer, stage>>
Passing == Doing("run") \/ Doing("hold")

RunToFrame == Passing /\ now < NextFrame /\ NextFrame < Until /\ Pass(NextFrame - now)
RunToEnd ==
  /\ Passing /\ NextFrame >= Until
  /\ \/ Head(todo).for > 0 /\ Pass(Head(todo).for)
     \/ Head(todo).for = 0 /\ Done /\ UNCHANGED <<beat, panel, spoken>>

\* Mutant: the subtitle is not compared.
UnchangedButText == sparse /\ last # None /\ ~panel.scope /\ last.scene = scene.index /\ last.look = Look
\* samePhysicalStateForFrozenFrame and sameVisibleRuntimeState: a scope draws
\* what neither compares.
Unchanged == /\ sparse /\ last # None /\ ~panel.scope
             /\ last.scene = scene.index /\ last.text = subtitle /\ last.look = Look

\* The record of a frame that shows file, and what is remembered of it.
Store(file) ==
  /\ count' = count + 1
  /\ frame' = [at |-> now, text |-> IF Playing THEN subtitle ELSE NoText,
               file |-> file, due |-> Picture]
Remember(file) ==
  last' = [scene |-> scene.index, text |-> subtitle, look |-> Look, file |-> file]

CardIsCached == ~Playing /\ static # None /\ static.scene = scene.index
ReuseCard ==
  /\ CardIsCached
  /\ Store(static.file) /\ last' = [last EXCEPT !.file = static.file] /\ UNCHANGED static
ReuseLast ==
  /\ Playing /\ Unchanged
  /\ Store(last.file) /\ Remember(last.file) /\ UNCHANGED static
\* An equal picture is not written twice: the file it finds is the same.
Render ==
  /\ ~CardIsCached /\ ~(Playing /\ Unchanged)
  /\ Store(Picture) /\ Remember(Picture)
  /\ static' = IF Playing THEN None ELSE [scene |-> scene.index, file |-> Picture]

TakeFrame ==
  /\ Passing /\ now = NextFrame /\ NextFrame < Until
  /\ ReuseCard \/ ReuseLast \/ Render
  /\ UNCHANGED <<sparse, now, scene, todo, face, stage>>

Next ==
  \/ \E d \in Durations : BeginCard(d) \/ Button(d) \/ Wait(d) \/ BeginBeat(d)
  \/ \E d \in Durations \cup {0} : Focus(d)
  \/ \E text \in Texts \cup {NoText} : BeginTutorial(text) \/ Subtitle(text)
  \/ \E on \in BOOLEAN : Scope(on)
  \/ \E down \in BOOLEAN, d \in Durations : SetButton(down, d)
  \/ EndScene \/ EndBeat
  \/ PressControl \/ Unfocus \/ EndSpeech
  \/ RunToFrame \/ RunToEnd \/ TakeFrame

Spec == Init /\ [][Next]_vars

-----------------------------------------------------------------------------
\* Frame i is taken at i / fps and its file shows the module as it was then,
\* whatever frames were reused in between (frame_pipeline.cpp:268-317).
FramesShowTheirMoment ==
  /\ now <= NextFrame
  /\ frame # None =>
       /\ frame.at = ((count - 1) * PeriodNum) \div PeriodDen
       /\ frame.file = frame.due

\* "SRT, WebVTT, and burned-in subtitles all derive from the same Story Runner
\* subtitle events" (docs/tutorials/README.md): a frame carries the text of the
\* one cue its time lies in.
BurnedInMatchesCues ==
  frame # None =>
    LET covers(c) == c.from <= frame.at /\ (c.to = None \/ frame.at < c.to)
        said == {cues[k].text : k \in {i \in DOMAIN cues : covers(cues[i])}}
    IN said = IF frame.text = NoText THEN {} ELSE {frame.text}

\* The video leaves exactly the length of a narration beat's audio between its
\* cues, whatever the actions in it took (story_narration_beat.cpp:37-57).
BeatsLastAsLongAsTheirAudio ==
  spoken # None => spoken.to - spoken.from = spoken.budget
=============================================================================
