--------------------------- MODULE PersistentState ---------------------------
(***************************************************************************)
(* The CURRENT record, the named presets and the custom groove library     *)
(* (services/persistent_state_*, services/custom_groove_store, the UI      *)
(* handlers that call them), above the image of DurableImage: a commit     *)
(* replaces the image or leaves it alone, whatever it answers.             *)
(*                                                                         *)
(* A configuration is either plain or refers to a slot of the custom       *)
(* groove library; nothing else in it matters here.  `old' holds presets   *)
(* of a schema before v12, which lie at other offsets of the same area:    *)
(* writing a v12 record destroys the older ones it overlaps.               *)
(***************************************************************************)
EXTENDS Integers, FiniteSets

CONSTANTS
  Plain,          \* configurations without a custom groove
  Grooves,        \* slots of the custom groove library
  Factory,        \* the factory configuration
  Transports,     \* transport states, "Stopped" and "Playing" among them
  LastSlot,       \* preset slots are 0..LastSlot
  CommitDelay,    \* kPersistenceCommitDelayMs, in ticks
  OldCurrentBytes, OldPresetBytes,  \* record sizes of the older schema
  Outcomes,       \* what commits may do: subset of {"ok", "failed", "late"}
  BootOutcomes,   \* the same for the migration at boot
  OldImages,      \* TRUE: the module may start with an image of the older schema
  None

CurrentBytes == 306
PresetBytes == 322

Slots == 0..LastSlot
Configs == Plain \cup Grooves
States == [config : Configs, transport : Transports]
FactoryState == [config |-> Factory, transport |-> "Stopped"]

ASSUME PersistentStateAssumption ==
  /\ Factory \in Plain /\ Plain \cap Grooves = {}
  /\ {"Stopped", "Playing"} \subseteq Transports
  /\ LastSlot \in Nat /\ CommitDelay \in Nat
  /\ OldCurrentBytes \in 1..CurrentBytes /\ OldPresetBytes \in 1..PresetBytes
  /\ Outcomes \cup BootOutcomes \subseteq {"ok", "failed", "late"}
  /\ OldImages \in BOOLEAN
  /\ None \notin Configs /\ None \notin [format : {"old", "v12"}, state : States]
  /\ None \notin [slot : Slots, record : Configs \cup {None}]

VARIABLES
  image,    \* current, preset and old records; groove: the slots in use
  powered,
  live,     \* state_: what the module plays
  svc,      \* the service's copy of CURRENT and what it has yet to write
  listed,   \* presetValid_: the slots believed to hold a preset
  request,  \* the staged preset write: [slot, record], record None to clear
  library   \* customGrooves_ of the engine: slots loaded from a record

vars == <<image, powered, live, svc, listed, request, library>>

Records == [format : {"old", "v12"}, state : States]
Images == [current : Records \cup {None}, preset : [Slots -> Configs \cup {None}],
           old : [Slots -> Configs \cup {None}], groove : SUBSET Grooves]
Services == [stored : States, hasStored : BOOLEAN, pending : States,
             preference : Transports, writePending : BOOLEAN, age : 0..CommitDelay]
Requests == [slot : Slots, record : Configs \cup {None}] \cup {None}

-----------------------------------------------------------------------------
(* Writes to the image, byte ranges and all.                                *)

\* Old preset s overlaps the bytes first..(end - 1).
Overlaps(s, first, end) ==
  LET start == OldCurrentBytes + s * OldPresetBytes
  IN  start < end /\ first < start + OldPresetBytes

OldOutside(img, first, end) ==
  [s \in Slots |-> IF Overlaps(s, first, end) THEN None ELSE img.old[s]]

WriteCurrent(img, state) ==
  [img EXCEPT !.current = [format |-> "v12", state |-> state],
              !.old = OldOutside(img, 0, CurrentBytes)]

PresetOffset(s) == CurrentBytes + s * PresetBytes

WritePreset(img, s, record) ==
  [img EXCEPT !.preset[s] = record,
              !.old = OldOutside(img, PresetOffset(s), PresetOffset(s + 1))]

NoPresets == [s \in Slots |-> None]

ErasedImage == [current |-> None, preset |-> NoPresets, old |-> NoPresets, groove |-> {}]

\* The image after a commit of `new' with outcome o; only "ok" answers true.
After(o, new) == IF o = "failed" THEN image ELSE new

-----------------------------------------------------------------------------
(* The service's requests, as functions of its record.                      *)

\* Mutant: every request restarts the deadline.
RequestCurrentRestarting(v, config) ==
  LET durable == [config |-> config, transport |-> v.preference]
  IN  [v EXCEPT !.pending = durable, !.age = 0,
                !.writePending = ~(v.hasStored /\ durable = v.stored)]

\* Mutant: the first of several requests is the one that is written.
RequestCurrentOnce(v, config) ==
  LET durable == [config |-> config, transport |-> v.preference]
  IN  [v EXCEPT !.pending = IF v.writePending THEN @ ELSE durable,
                !.writePending = ~(v.hasStored /\ durable = v.stored)]

RequestCurrent(v, config) ==
  LET durable == [config |-> config, transport |-> v.preference]
      known == v.hasStored /\ durable = v.stored
      fresh == ~known /\ (~v.writePending \/ durable # v.pending)
  IN  [v EXCEPT !.pending = IF known \/ fresh THEN durable ELSE @,
                !.writePending = ~known,
                !.age = IF fresh \/ known THEN 0 ELSE @]

RequestTransport(v, t) ==
  LET pending == [v.pending EXCEPT !.transport = t]
      known == v.hasStored /\ t = v.stored.transport /\ pending = v.stored
      fresh == ~known /\ (~v.writePending \/ t # v.preference)
  IN  [v EXCEPT !.preference = t, !.pending = pending,
                !.writePending = ~known,
                !.age = IF fresh \/ known THEN 0 ELSE @]

PresetExists(s) ==
  IF request # None /\ request.slot = s THEN request.record # None ELSE s \in listed

\* What loadPreset reads: the staged record, or the slot's v12 record.
PresetRecord(s) ==
  IF request # None /\ request.slot = s THEN request.record ELSE image.preset[s]

Loads(s) == PresetExists(s) /\ PresetRecord(s) # None

-----------------------------------------------------------------------------
Off == [stored |-> FactoryState, hasStored |-> FALSE, pending |-> FactoryState,
        preference |-> "Stopped", writePending |-> FALSE, age |-> 0]

\* A new module, or one whose Flash an older firmware wrote.
Init ==
  /\ image \in [current : {None}, preset : {NoPresets}, old : {NoPresets}, groove : {{}}]
       \cup (IF OldImages
             THEN [current : {[format |-> "old", state |-> FactoryState]},
                   preset : {NoPresets}, old : [Slots -> Plain \cup {None}],
                   groove : {{}}]
             ELSE {})
  /\ powered = FALSE /\ live = FactoryState /\ svc = Off
  /\ listed = {} /\ request = None /\ library = {}

\* The newest schema wins.
FoundPreset(s) == IF image.preset[s] # None THEN image.preset[s] ELSE image.old[s]

\* Mutant: CURRENT is migrated in place.
MigratedInPlace(current) == WriteCurrent(image, current.state)

\* begin() builds the whole area anew: CURRENT, if there is one, and the presets.
Migrated(current) ==
  [image EXCEPT !.current = IF current = None THEN None ELSE [current EXCEPT !.format = "v12"],
                !.preset = [s \in Slots |-> FoundPreset(s)],
                !.old = NoPresets]

(* PersistentStateService::begin, restoreCurrentState, loadCustomGrooveLibrary. *)
Boot(o) ==
  LET stored == image.current # None
      state == IF stored THEN image.current.state ELSE FactoryState
      migrate == \/ stored /\ image.current.format = "old"
                 \/ \E s \in Slots : image.preset[s] = None /\ image.old[s] # None
  IN  /\ ~powered /\ powered' = TRUE
      /\ image' = IF migrate THEN After(o, Migrated(image.current)) ELSE image
      /\ live' = [state EXCEPT !.transport = "Stopped"]
      /\ svc' = [Off EXCEPT !.stored = state, !.pending = state, !.hasStored = stored,
                            !.preference = state.transport]
      /\ listed' = {s \in Slots : FoundPreset(s) # None}
      /\ request' = None
      /\ library' = image.groove

PowerLoss ==
  /\ powered /\ powered' = FALSE
  /\ live' = FactoryState /\ svc' = Off /\ listed' = {} /\ request' = None /\ library' = {}
  /\ UNCHANGED image

Tick ==
  /\ powered /\ svc.writePending /\ svc.age < CommitDelay
  /\ svc' = [svc EXCEPT !.age = @ + 1]
  /\ UNCHANGED <<image, powered, live, listed, request, library>>

\* A menu edit or a template.  Repeats of the same value are requests too.
Edit(c) ==
  /\ powered
  /\ live' = [live EXCEPT !.config = c]
  /\ svc' = RequestCurrent(svc, c)
  /\ UNCHANGED <<image, powered, listed, request, library>>

\* PLAY, PAUSE, STOP on the panel, and a groove recording started from rest.
PressTransport(t) ==
  /\ powered
  /\ live' = [live EXCEPT !.transport = t]
  /\ svc' = RequestCurrent(RequestTransport(svc, t), live.config)
  /\ UNCHANGED <<image, powered, listed, request, library>>

\* A transition taken by the external inputs is not a stored preference.
ExternalTransport(t) ==
  /\ powered
  /\ live' = [live EXCEPT !.transport = t]
  /\ UNCHANGED <<image, powered, svc, listed, request, library>>

-----------------------------------------------------------------------------
SavePreset(s) ==
  /\ powered
  /\ request' = [slot |-> s, record |-> live.config]
  /\ svc' = RequestCurrent(svc, live.config)
  /\ UNCHANGED <<image, powered, live, listed, library>>

\* References to grooves that were removed since are resolved to no groove.
LoadPreset(s) ==
  /\ powered /\ Loads(s)
  /\ LET c == IF PresetRecord(s) \in Grooves \ image.groove THEN Factory ELSE PresetRecord(s)
     IN  /\ live' = [live EXCEPT !.config = c]
         /\ svc' = RequestCurrent(svc, c)
  /\ UNCHANGED <<image, powered, listed, request, library>>

\* renamePreset and clearPreset have no caller in the UI yet.
RenamePreset(s) ==
  /\ powered /\ Loads(s)
  /\ request' = [slot |-> s, record |-> PresetRecord(s)]
  /\ UNCHANGED <<image, powered, live, svc, listed, library>>

ClearPreset(s) ==
  /\ powered
  /\ request' = [slot |-> s, record |-> None]
  /\ UNCHANGED <<image, powered, live, svc, listed, library>>

-----------------------------------------------------------------------------
\* CustomGrooveStore's load, save and clear of a slot's record.
GrooveLoads(g) == g \in image.groove
GrooveSaved(g) == [image EXCEPT !.groove = @ \cup {g}]
GrooveCleared(g) == [image EXCEPT !.groove = @ \ {g}]

\* Groove slots are written at once, not by Service.
SaveGroove(g, o) ==
  /\ powered
  /\ image' = After(o, GrooveSaved(g))
  /\ IF o = "ok"
     THEN /\ library' = library \cup {g}
          /\ live' = [live EXCEPT !.config = g]
          /\ svc' = RequestCurrent(svc, g)
     ELSE UNCHANGED <<library, live, svc>>
  /\ UNCHANGED <<powered, listed, request>>

ActivateGroove(g) ==
  /\ powered /\ GrooveLoads(g)
  /\ library' = library \cup {g}
  /\ live' = [live EXCEPT !.config = g]
  /\ svc' = RequestCurrent(svc, g)
  /\ UNCHANGED <<image, powered, listed, request>>

\* Mutant: the copy in RAM and the references to it are forgotten.
RemoveGrooveFromFlash(g, o) ==
  /\ powered /\ GrooveLoads(g)
  /\ image' = After(o, GrooveCleared(g))
  /\ UNCHANGED <<powered, live, svc, listed, request, library>>

RemoveGroove(g, o) ==
  /\ powered /\ GrooveLoads(g)
  /\ image' = After(o, GrooveCleared(g))
  /\ library' = IF o = "ok" THEN library \ {g} ELSE library
  /\ IF o = "ok" /\ live.config = g
     THEN /\ live' = [live EXCEPT !.config = Factory]
          /\ svc' = RequestCurrent(svc, Factory)
     ELSE UNCHANGED <<live, svc>>
  /\ UNCHANGED <<powered, listed, request>>

-----------------------------------------------------------------------------
CurrentReady == svc.writePending /\ (svc.age >= CommitDelay \/ request # None)

\* Mutant: every committed request is taken for a save.
ListedAfterSave == IF request = None THEN listed ELSE listed \cup {request.slot}

ListedAfterCommit ==
  CASE request = None -> listed
    [] request # None /\ request.record = None -> listed \ {request.slot}
    [] OTHER -> listed \cup {request.slot}

\* PersistentStateService::service, which the loop calls while not PLAYING.
Service(o) ==
  /\ powered /\ live.transport # "Playing"
  /\ CurrentReady \/ request # None
  /\ LET staged == IF CurrentReady THEN WriteCurrent(image, svc.pending) ELSE image
         both == IF request # None THEN WritePreset(staged, request.slot, request.record)
                 ELSE staged
     IN  image' = After(o, both)
  /\ IF o = "ok"
     THEN /\ svc' = IF CurrentReady
                    THEN [svc EXCEPT !.stored = svc.pending, !.hasStored = TRUE,
                                     !.preference = svc.pending.transport,
                                     !.writePending = FALSE, !.age = 0]
                    ELSE svc
          /\ listed' = ListedAfterCommit
          /\ request' = None
     ELSE UNCHANGED <<svc, listed, request>>
  /\ UNCHANGED <<powered, live, library>>

\* confirmFactoryReset: the transport stops even when the commit then fails.
FactoryReset(o) ==
  /\ powered
  /\ image' = After(o, WriteCurrent(ErasedImage, FactoryState))
  /\ IF o = "ok"
     THEN /\ live' = FactoryState
          /\ svc' = [Off EXCEPT !.hasStored = TRUE]
          /\ listed' = {} /\ request' = None
     ELSE /\ live' = [live EXCEPT !.transport = "Stopped"]
          /\ UNCHANGED <<svc, listed, request>>
  /\ UNCHANGED <<powered, library>>

Next ==
  \/ PowerLoss \/ Tick
  \/ \E c \in Plain : Edit(c)
  \/ \E t \in Transports : PressTransport(t) \/ ExternalTransport(t)
  \/ \E s \in Slots : SavePreset(s) \/ LoadPreset(s) \/ RenamePreset(s) \/ ClearPreset(s)
  \/ \E g \in Grooves : ActivateGroove(g)
  \/ \E g \in Grooves, o \in Outcomes : SaveGroove(g, o) \/ RemoveGroove(g, o)
  \/ \E o \in Outcomes : Service(o) \/ FactoryReset(o)
  \/ \E o \in BootOutcomes : Boot(o)

Spec == Init /\ [][Next]_vars

(* The loop runs on and its clock advances; a Flash that keeps failing is not *)
(* promised anything, so commits succeed again and again while they are tried. *)
FairSpec == Spec /\ WF_vars(Tick) /\ SF_vars(Service("ok"))

-----------------------------------------------------------------------------
(* Properties *)

\* Every variable keeps its type; the commit deadline stays within its delay.
TypeOK ==
  /\ image \in Images /\ powered \in BOOLEAN /\ live \in States
  /\ svc \in Services /\ listed \subseteq Slots /\ request \in Requests
  /\ library \subseteq Grooves

\* While no write of CURRENT is pending, the image holds what is playing:
\* requests that cancel a pending write (statesEqual with the stored state),
\* failed commits and factory resets never leave an edit without a write.
CurrentIsKept ==
  powered /\ ~svc.writePending =>
    /\ live.config = svc.stored.config
    /\ svc.hasStored => image.current # None /\ image.current.state.config = live.config

\* The strengthening behind CurrentIsKept and ImplementsAutosave.
IInv ==
  /\ TypeOK
  /\ powered => /\ svc.hasStored => image.current # None /\ image.current.state = svc.stored
                /\ ~svc.hasStored => image.current = None
                /\ svc.writePending =>
                     svc.pending = [config |-> live.config, transport |-> svc.preference]
                /\ ~svc.writePending =>
                     /\ live.config = svc.stored.config
                     /\ svc.hasStored => svc.preference = svc.stored.transport

\* The list of presets is the truth: a slot that it shows can be loaded, and
\* no other holds a record, of this schema or an older one; through saves,
\* clears, migration at boot, failed commits and factory resets.
PresetListIsTrue ==
  powered => /\ listed = {s \in Slots : image.preset[s] # None}
             /\ image.old = NoPresets

\* V1_FORWARD_COMPATIBILITY.md: "No future 1.x feature may silently invalidate
\* V1 presets".  A preset that presetExists shows after boot can be loaded.
ListedPresetLoads ==
  powered => \A s \in Slots : PresetExists(s) => PresetRecord(s) # None

\* A preset's content changes by a request for its own slot or a factory reset
\* only: neither another slot's write nor the migration of the area disturbs it.
PresetsAreIndependent ==
  [][\A s \in Slots : FoundPreset(s)' # FoundPreset(s) =>
       \/ request # None /\ request.slot = s /\ FoundPreset(s)' = request.record
       \/ image' = WriteCurrent(ErasedImage, FactoryState)]_vars

\* removeSelectedGroove "clears the runtime copy as well so a later preset
\* referencing a deleted library slot resolves to straight timing rather than
\* a stale in-RAM groove": what plays from the engine's library is stored.
StaleGrooveNeverPlays ==
  powered /\ live.config \in library => live.config \in image.groove

\* A state that stays as it is while not PLAYING reaches the image: requests
\* repeated with the same value do not postpone the commit for ever.
SavedConfig == IF image.current = None THEN Factory ELSE image.current.state.config
EditsReachFlash ==
  \A c \in Configs : \A t \in Transports \ {"Playing"} :
    <>[](powered /\ live = [config |-> c, transport |-> t]) => <>[](SavedConfig = c)

\* CURRENT - AUTO SAVE as the user sees it: no configuration is ever saved
\* but the one that plays at that moment, and a power cycle brings it back.
Promise == INSTANCE Autosave WITH
  playing <- IF powered THEN live.config ELSE SavedConfig, saved <- SavedConfig
ImplementsAutosave == Promise!Spec

\* "Explicit preset saves are staged in RAM and are flushed as soon as
\* transport is PAUSED or STOPPED" (persistent_state_service.h): a staged save
\* ends in the image unless its own slot is asked for something else, the
\* module is reset to factory state or loses power.
StagedSavesAreFlushed ==
  [][request # None /\ request.record # None /\ request' # request /\ powered' =>
       \/ image'.preset[request.slot] = request.record
       \/ request' # None /\ request'.slot = request.slot
       \/ image'.preset = NoPresets]_vars

\* loadSelectedPreset: a reference to a missing groove is resolved to OFF
\* "rather than exposing a misleading CUSTOM state backed by no durable
\* pattern"; here for every way a configuration becomes the live one.
CustomIsBackedByAPattern ==
  powered => live.config \in Plain \/ live.config \in image.groove
=============================================================================
