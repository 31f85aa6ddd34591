------------------------ MODULE PersistentStateProofs ------------------------
(***************************************************************************)
(* Proofs about PersistentState, for every number of presets and grooves,  *)
(* every commit delay and every older record size.  The hypothesis is that *)
(* no commit takes effect and still reports failure (outcome "late"):      *)
(* then the image can run ahead of what the service believes is stored.    *)
(***************************************************************************)
EXTENDS PersistentState, TLAPS

NeverLate == "late" \notin Outcomes \cup BootOutcomes

\* What the service must know while the module plays the configuration c.
Faithful(img, v, c) ==
  /\ v.hasStored => img.current # None /\ img.current.state = v.stored
  /\ ~v.hasStored => img.current = None
  /\ v.writePending => v.pending = [config |-> c, transport |-> v.preference]
  /\ ~v.writePending => /\ c = v.stored.config
                        /\ v.hasStored => v.preference = v.stored.transport

LEMMA IInvIsFaithful == IInv <=> TypeOK /\ (powered => Faithful(image, svc, live.config))
  BY DEF IInv, Faithful

-----------------------------------------------------------------------------
(* Images and services keep their types.                                    *)

LEMMA FactoryStateType == FactoryState \in States
  BY PersistentStateAssumption DEF FactoryState, States, Configs

LEMMA NoPresetsType == NoPresets \in [Slots -> Configs \cup {None}]
  BY DEF NoPresets

LEMMA OffType == Off \in Services
  BY FactoryStateType, PersistentStateAssumption DEF Off, Services

LEMMA ErasedImageType == ErasedImage \in Images
  BY NoPresetsType DEF ErasedImage, Images

LEMMA WriteCurrentType ==
  ASSUME NEW img \in Images, NEW state \in States
  PROVE  /\ WriteCurrent(img, state) \in Images
         /\ WriteCurrent(img, state).current # None
         /\ WriteCurrent(img, state).current.state = state
  <1>1. [format |-> "v12", state |-> state] \in Records /\ [format |-> "v12", state |-> state] # None
    BY PersistentStateAssumption DEF Records
  <1>2. OldOutside(img, 0, CurrentBytes) \in [Slots -> Configs \cup {None}]
    BY DEF OldOutside, Images
  <1>3. WriteCurrent(img, state).current = [format |-> "v12", state |-> state]
    BY DEF WriteCurrent, Images
  <1>4. WriteCurrent(img, state) \in Images
    BY <1>1, <1>2 DEF WriteCurrent, Images
  <1> QED BY <1>1, <1>3, <1>4

LEMMA WritePresetType ==
  ASSUME NEW img \in Images, NEW s \in Slots, NEW record \in Configs \cup {None}
  PROVE  /\ WritePreset(img, s, record) \in Images
         /\ WritePreset(img, s, record).current = img.current
  <1>1. OldOutside(img, PresetOffset(s), PresetOffset(s + 1)) \in [Slots -> Configs \cup {None}]
    BY DEF OldOutside, Images
  <1>2. [img.preset EXCEPT ![s] = record] \in [Slots -> Configs \cup {None}]
    BY DEF Images
  <1> QED BY <1>1, <1>2 DEF WritePreset, Images

LEMMA FoundPresetType ==
  ASSUME image \in Images, NEW s \in Slots
  PROVE  FoundPreset(s) \in Configs \cup {None}
  BY DEF FoundPreset, Images

\* Migration keeps the state of CURRENT, or its absence.
LEMMA MigratedKeepsCurrent ==
  ASSUME image \in Images
  PROVE  /\ Migrated(image.current) \in Images
         /\ image.current = None => Migrated(image.current).current = None
         /\ image.current # None => /\ Migrated(image.current).current # None
                                    /\ Migrated(image.current).current.state = image.current.state
  <1> DEFINE c == image.current
             new == IF c = None THEN None ELSE [c EXCEPT !.format = "v12"]
             found == [s \in Slots |-> FoundPreset(s)]
  <1>1. c \in Records \cup {None}
    BY DEF Images
  <1>2. new \in Records \cup {None} /\ (c = None => new = None)
        /\ (c # None => new # None /\ new.state = c.state)
    <2>1. CASE c = None BY <2>1
    <2>2. CASE c # None
      <3>1. new = [format |-> "v12", state |-> c.state] /\ c.state \in States
        BY <1>1, <2>2 DEF Records
      <3> QED BY <2>2, <3>1, PersistentStateAssumption DEF Records
    <2> QED BY <2>1, <2>2
  <1>3. found \in [Slots -> Configs \cup {None}]
    BY FoundPresetType
  <1>4. Migrated(c) = [image EXCEPT !.current = new, !.preset = found, !.old = NoPresets]
    BY DEF Migrated
  <1> HIDE DEF new, found
  <1>5. Migrated(c) \in Images /\ Migrated(c).current = new
    BY <1>2, <1>3, <1>4, NoPresetsType DEF Images
  <1> QED BY <1>2, <1>5

-----------------------------------------------------------------------------
(* Requests.                                                                *)

\* Whatever waited before, a request leaves the service knowing what is live.
LEMMA RequestCurrentFaithful ==
  ASSUME NEW v \in Services, NEW c \in Configs
  PROVE  LET w == RequestCurrent(v, c) IN
         /\ w \in Services
         /\ w.stored = v.stored /\ w.hasStored = v.hasStored /\ w.preference = v.preference
         /\ w.writePending => w.pending = [config |-> c, transport |-> w.preference]
         /\ ~w.writePending => v.hasStored /\ c = v.stored.config
                               /\ w.preference = v.stored.transport
  <1> DEFINE durable == [config |-> c, transport |-> v.preference]
             known == v.hasStored /\ durable = v.stored
             fresh == ~known /\ (~v.writePending \/ durable # v.pending)
  <1>1. durable \in States /\ durable.config = c /\ durable.transport = v.preference
    BY DEF States, Services
  <1>2. (IF known \/ fresh THEN durable ELSE v.pending) \in States
        /\ (~known => (IF known \/ fresh THEN durable ELSE v.pending) = durable)
    BY <1>1 DEF Services
  <1>3. (IF fresh \/ known THEN 0 ELSE v.age) \in 0..CommitDelay
    BY PersistentStateAssumption DEF Services
  <1>4. known \in BOOLEAN /\ (known => v.hasStored /\ durable = v.stored)
    BY DEF Services
  <1>5. RequestCurrent(v, c) =
          [v EXCEPT !.pending = IF known \/ fresh THEN durable ELSE v.pending,
                    !.writePending = ~known,
                    !.age = IF fresh \/ known THEN 0 ELSE v.age]
    BY DEF RequestCurrent
  <1> HIDE DEF durable, known, fresh
  <1> QED BY <1>1, <1>2, <1>3, <1>4, <1>5 DEF Services, durable

LEMMA RequestTransportType ==
  ASSUME NEW v \in Services, NEW t \in Transports
  PROVE  LET w == RequestTransport(v, t) IN
         w \in Services /\ w.stored = v.stored /\ w.hasStored = v.hasStored
  <1> DEFINE pending == [v.pending EXCEPT !.transport = t]
             known == v.hasStored /\ t = v.stored.transport /\ pending = v.stored
             fresh == ~known /\ (~v.writePending \/ t # v.preference)
  <1>1. pending \in States
    BY DEF States, Services
  <1>2. (IF fresh \/ known THEN 0 ELSE v.age) \in 0..CommitDelay
    BY PersistentStateAssumption DEF Services
  <1>3. RequestTransport(v, t) =
          [v EXCEPT !.preference = t, !.pending = pending, !.writePending = ~known,
                    !.age = IF fresh \/ known THEN 0 ELSE v.age]
    BY DEF RequestTransport
  <1>4. known \in BOOLEAN
    BY DEF Services
  <1> HIDE DEF pending, known, fresh
  <1> QED BY <1>1, <1>2, <1>3, <1>4 DEF Services

\* A request for the configuration that becomes live keeps faith with an image
\* whose CURRENT is as it was.
LEMMA FaithfulAfterRequest ==
  ASSUME NEW v \in Services, NEW c \in Configs, NEW w \in Services, NEW img, NEW img2, NEW d,
         Faithful(img, v, d), img2.current = img.current,
         w.stored = v.stored, w.hasStored = v.hasStored
  PROVE  Faithful(img2, RequestCurrent(w, c), c) /\ RequestCurrent(w, c) \in Services
  BY RequestCurrentFaithful DEF Faithful, Services

-----------------------------------------------------------------------------
(* The inductive invariant.                                                 *)

LEMMA InitIInv == Init => IInv
  <1> SUFFICES ASSUME Init PROVE IInv
    OBVIOUS
  <1>1. image \in Images
    <2>1. CASE image \in [current : {None}, preset : {NoPresets}, old : {NoPresets}, groove : {{}}]
      BY <2>1, NoPresetsType DEF Images
    <2>2. CASE image \in [current : {[format |-> "old", state |-> FactoryState]},
                          preset : {NoPresets}, old : [Slots -> Plain \cup {None}], groove : {{}}]
      <3>1. [format |-> "old", state |-> FactoryState] \in Records
        BY FactoryStateType DEF Records
      <3>2. image.old \in [Slots -> Configs \cup {None}]
        BY <2>2 DEF Configs
      <3> QED BY <2>2, <3>1, <3>2, NoPresetsType DEF Images
    <2> QED BY <2>1, <2>2 DEF Init
  <1>2. request \in Requests
    BY DEF Init, Requests
  <1> QED BY <1>1, <1>2, FactoryStateType, OffType DEF Init, IInv, TypeOK

LEMMA BootStep ==
  ASSUME IInv, NeverLate, NEW o \in BootOutcomes, Boot(o)
  PROVE  IInv'
  <1> DEFINE stored == image.current # None
             state == IF stored THEN image.current.state ELSE FactoryState
             migrate == \/ stored /\ image.current.format = "old"
                        \/ \E s \in Slots : image.preset[s] = None /\ image.old[s] # None
  <1>1. image \in Images /\ powered' = TRUE
    BY DEF IInv, TypeOK, Boot
  <1>2. state \in States
    BY <1>1, FactoryStateType DEF Images, Records
  <1>3. /\ image' = IF migrate THEN After(o, Migrated(image.current)) ELSE image
        /\ live' = [state EXCEPT !.transport = "Stopped"]
        /\ svc' = [Off EXCEPT !.stored = state, !.pending = state, !.hasStored = stored,
                              !.preference = state.transport]
        /\ listed' \subseteq Slots /\ request' = None /\ library' = image.groove
    BY DEF Boot
  <1>4. /\ image' \in Images
        /\ image.current = None => image'.current = None
        /\ image.current # None => image'.current # None /\ image'.current.state = image.current.state
    BY <1>1, <1>3, MigratedKeepsCurrent DEF After
  <1> HIDE DEF state, stored, migrate
  <1>5. /\ live' \in States /\ live'.config = state.config
        /\ svc' \in Services /\ svc'.stored = state /\ svc'.hasStored = stored
        /\ svc'.writePending = FALSE /\ svc'.preference = state.transport
    <2>1. live' \in States /\ live'.config = state.config
      BY <1>2, <1>3, PersistentStateAssumption DEF States
    <2>2. state.transport \in Transports /\ stored \in BOOLEAN
      BY <1>2 DEF States, stored
    <2> QED BY <1>2, <1>3, <2>1, <2>2, OffType DEF Services, Off
  <1>6. TypeOK'
    BY <1>1, <1>3, <1>4, <1>5 DEF TypeOK, Requests, Images
  <1>7. Faithful(image', svc', live'.config)
    BY <1>4, <1>5 DEF Faithful, state, stored
  <1> QED BY <1>6, <1>7 DEF IInv, Faithful

\* Steps that leave the image's CURRENT alone and request what becomes live.
LEMMA RequestStep ==
  ASSUME IInv, powered, powered', NEW c \in Configs, NEW w \in Services,
         w.stored = svc.stored, w.hasStored = svc.hasStored,
         image' \in Images, image'.current = image.current,
         live' \in States, live'.config = c, svc' = RequestCurrent(w, c),
         listed' \subseteq Slots, request' \in Requests, library' \subseteq Grooves
  PROVE  IInv'
  <1>1. Faithful(image, svc, live.config) /\ svc \in Services
    BY DEF IInv, TypeOK, Faithful
  <1>2. Faithful(image', svc', c) /\ svc' \in Services
    BY <1>1, FaithfulAfterRequest
  <1> QED BY <1>2 DEF IInv, TypeOK, Faithful

\* Steps that move neither the service, nor the configuration, nor CURRENT.
LEMMA QuietStep ==
  ASSUME IInv, powered' = powered, image' \in Images, image'.current = image.current,
         live' \in States, live'.config = live.config, svc' = svc,
         listed' \subseteq Slots, request' \in Requests, library' \subseteq Grooves
  PROVE  IInv'
  BY DEF IInv, TypeOK

LEMMA ServiceStep ==
  ASSUME IInv, NeverLate, NEW o \in Outcomes, Service(o)
  PROVE  /\ IInv'
         /\ image'.current # image.current =>
              image'.current # None /\ image'.current.state.config = live.config
         /\ live' = live /\ powered' = powered
  <1> DEFINE staged == IF CurrentReady THEN WriteCurrent(image, svc.pending) ELSE image
             both == IF request # None THEN WritePreset(staged, request.slot, request.record)
                     ELSE staged
  <1>1. TypeOK /\ powered /\ Faithful(image, svc, live.config) /\ powered' /\ live' = live
        /\ library' = library /\ powered' = powered
    BY DEF IInv, Faithful, Service
  <1>2. staged \in Images /\ (CurrentReady => staged.current # None /\ staged.current.state = svc.pending)
        /\ (~CurrentReady => staged.current = image.current)
    <2>1. image \in Images /\ svc.pending \in States
      BY <1>1 DEF TypeOK, Services
    <2>2. WriteCurrent(image, svc.pending) \in Images
          /\ WriteCurrent(image, svc.pending).current # None
          /\ WriteCurrent(image, svc.pending).current.state = svc.pending
      BY <2>1, WriteCurrentType
    <2> QED BY <2>1, <2>2
  <1>3. both \in Images /\ both.current = staged.current
    <2>1. CASE request # None
      <3>1. request.slot \in Slots /\ request.record \in Configs \cup {None}
        BY <1>1, <2>1 DEF TypeOK, Requests
      <3> HIDE DEF staged
      <3> QED BY <1>2, <2>1, <3>1, WritePresetType
    <2>2. CASE request = None
      BY <1>2, <2>2
    <2> QED BY <2>1, <2>2
  <1>4. image' = IF o = "failed" THEN image ELSE both
    BY DEF Service, After
  <1>5. CurrentReady => svc.writePending /\ svc.pending.config = live.config
    BY <1>1 DEF CurrentReady, Faithful
  <1>6. CASE o = "ok"
    <2>1. listed' = ListedAfterCommit /\ request' = None
      BY <1>6 DEF Service
    <2>2. listed' \subseteq Slots /\ request' \in Requests
      BY <1>1, <2>1 DEF ListedAfterCommit, TypeOK, Requests
    <2>3. image' = both
      BY <1>4, <1>6
    <2> HIDE DEF staged, both
    <2>4. CASE CurrentReady
      <3>1. svc' = [svc EXCEPT !.stored = svc.pending, !.hasStored = TRUE,
                               !.preference = svc.pending.transport,
                               !.writePending = FALSE, !.age = 0]
        BY <1>6, <2>4 DEF Service
      <3>2. /\ svc' \in Services /\ svc'.stored = svc.pending /\ svc'.hasStored = TRUE
            /\ svc'.preference = svc.pending.transport /\ svc'.writePending = FALSE
        <4>1. svc \in Services /\ svc.pending \in States /\ svc.pending.transport \in Transports
              /\ 0 \in 0..CommitDelay
          BY <1>1, PersistentStateAssumption DEF TypeOK, Services, States
        <4> QED BY <3>1, <4>1 DEF Services
      <3>3. Faithful(image', svc', live'.config)
        BY <1>1, <1>2, <1>3, <1>5, <2>3, <2>4, <3>2 DEF Faithful
      <3>4. TypeOK'
        BY <1>1, <1>3, <2>2, <2>3, <3>2 DEF TypeOK
      <3>5. IInv'
        BY <3>3, <3>4 DEF IInv, Faithful
      <3> QED BY <1>1, <1>2, <1>3, <1>5, <2>3, <2>4, <3>5
    <2>5. CASE ~CurrentReady
      <3>1. svc' = svc
        BY <1>6, <2>5 DEF Service
      <3>2. image'.current = image.current
        BY <1>2, <1>3, <2>3, <2>5
      <3>3. IInv'
        BY <1>1, <1>3, <2>2, <2>3, <3>1, <3>2, QuietStep DEF TypeOK
      <3> QED BY <1>1, <3>2, <3>3
    <2> QED BY <2>4, <2>5
  <1>7. CASE o # "ok"
    <2>1. svc' = svc /\ listed' = listed /\ request' = request
      BY <1>7 DEF Service
    <2>2. image' = image
      BY <1>4, <1>7, PersistentStateAssumption DEF NeverLate
    <2> QED BY <1>1, <2>1, <2>2, QuietStep DEF TypeOK
  <1> QED BY <1>6, <1>7

LEMMA FactoryResetStep ==
  ASSUME IInv, NeverLate, NEW o \in Outcomes, FactoryReset(o)
  PROVE  IInv'
  <1>1. TypeOK /\ powered /\ powered' = powered /\ library' = library
    BY DEF IInv, FactoryReset
  <1>2. CASE o = "ok"
    <2>1. image' = WriteCurrent(ErasedImage, FactoryState) /\ live' = FactoryState
          /\ svc' = [Off EXCEPT !.hasStored = TRUE] /\ listed' = {} /\ request' = None
      BY <1>2 DEF FactoryReset, After
    <2>2. image' \in Images /\ image'.current # None /\ image'.current.state = FactoryState
      <3>1. WriteCurrent(ErasedImage, FactoryState) \in Images
            /\ WriteCurrent(ErasedImage, FactoryState).current # None
            /\ WriteCurrent(ErasedImage, FactoryState).current.state = FactoryState
        BY ErasedImageType, FactoryStateType, WriteCurrentType
      <3> QED BY <2>1, <3>1
    <2>3. /\ svc' \in Services /\ svc'.stored = FactoryState /\ svc'.hasStored = TRUE
          /\ svc'.writePending = FALSE /\ svc'.preference = "Stopped"
      BY <2>1, OffType, PersistentStateAssumption DEF Off, Services
    <2>4. live'.config = Factory /\ FactoryState.config = Factory /\ FactoryState.transport = "Stopped"
      BY <2>1 DEF FactoryState
    <2>5. Faithful(image', svc', live'.config)
      BY <2>2, <2>3, <2>4 DEF Faithful
    <2>6. TypeOK'
      BY <1>1, <2>1, <2>2, <2>3, FactoryStateType DEF TypeOK, Requests
    <2> QED BY <2>5, <2>6 DEF IInv, Faithful
  <1>3. CASE o # "ok"
    <2>1. image' = image
      BY <1>3, PersistentStateAssumption DEF FactoryReset, After, NeverLate
    <2>2. live' = [live EXCEPT !.transport = "Stopped"] /\ svc' = svc /\ listed' = listed
          /\ request' = request
      BY <1>3 DEF FactoryReset
    <2>3. live' \in States /\ live'.config = live.config
      BY <1>1, <2>2, PersistentStateAssumption DEF TypeOK, States
    <2> QED BY <1>1, <2>1, <2>2, <2>3, QuietStep DEF TypeOK
  <1> QED BY <1>2, <1>3

LEMMA GrooveStep ==
  ASSUME IInv, NeverLate, NEW g \in Grooves, NEW o \in Outcomes,
         SaveGroove(g, o) \/ RemoveGroove(g, o)
  PROVE  IInv' /\ powered /\ powered' /\ image'.current = image.current
  <1>1. TypeOK /\ powered /\ powered' /\ powered' = powered /\ listed' = listed /\ request' = request
    BY DEF IInv, SaveGroove, RemoveGroove
  <1>2. image' \in Images /\ image'.current = image.current
    BY <1>1 DEF TypeOK, Images, SaveGroove, RemoveGroove, GrooveSaved, GrooveCleared, After
  <1>3. library' \subseteq Grooves /\ g \in Configs /\ Factory \in Configs
    BY <1>1, PersistentStateAssumption DEF TypeOK, SaveGroove, RemoveGroove, Configs
  <1>4. CASE live' = live /\ svc' = svc
    BY <1>1, <1>2, <1>3, <1>4, QuietStep DEF TypeOK
  <1>5. ASSUME NEW c \in Configs, live' = [live EXCEPT !.config = c], svc' = RequestCurrent(svc, c)
        PROVE  IInv'
    <2>1. live' \in States /\ live'.config = c
      BY <1>1, <1>5 DEF TypeOK, States
    <2> QED BY <1>1, <1>2, <1>3, <1>5, <2>1, RequestStep DEF TypeOK
  <1>6. \/ live' = live /\ svc' = svc
        \/ \E c \in Configs : live' = [live EXCEPT !.config = c] /\ svc' = RequestCurrent(svc, c)
    BY <1>3 DEF SaveGroove, RemoveGroove
  <1> QED BY <1>1, <1>2, <1>4, <1>5, <1>6

\* The actions that request what they make live, or nothing at all.
LEMMA EditorStep ==
  ASSUME IInv,
         \/ \E c \in Plain : Edit(c)
         \/ \E t \in Transports : PressTransport(t) \/ ExternalTransport(t)
         \/ \E s \in Slots : SavePreset(s) \/ LoadPreset(s) \/ RenamePreset(s) \/ ClearPreset(s)
         \/ \E g \in Grooves : ActivateGroove(g)
  PROVE  IInv' /\ powered /\ powered' /\ image' = image
  <1>1. TypeOK
    BY DEF IInv
  <1>2. ASSUME NEW c \in Plain, Edit(c)
        PROVE  IInv' /\ powered /\ powered' /\ image' = image
    <2>1. c \in Configs /\ live' \in States /\ live'.config = c
      BY <1>1, <1>2 DEF Edit, TypeOK, States, Configs
    <2> QED BY <1>1, <1>2, <2>1, RequestStep DEF Edit, TypeOK
  <1>3. ASSUME NEW t \in Transports, PressTransport(t)
        PROVE  IInv' /\ powered /\ powered' /\ image' = image
    <2>1. live' \in States /\ live'.config = live.config /\ live.config \in Configs
      BY <1>1, <1>3 DEF PressTransport, TypeOK, States
    <2>2. /\ RequestTransport(svc, t) \in Services
          /\ RequestTransport(svc, t).stored = svc.stored
          /\ RequestTransport(svc, t).hasStored = svc.hasStored
      BY <1>1, RequestTransportType DEF TypeOK
    <2> QED BY <1>1, <1>3, <2>1, <2>2, RequestStep DEF PressTransport, TypeOK
  <1>4. ASSUME NEW t \in Transports, ExternalTransport(t)
        PROVE  IInv' /\ powered /\ powered' /\ image' = image
    <2>1. live' \in States /\ live'.config = live.config
      BY <1>1, <1>4 DEF ExternalTransport, TypeOK, States
    <2> QED BY <1>1, <1>4, <2>1, QuietStep DEF ExternalTransport, TypeOK
  <1>5. ASSUME NEW s \in Slots, SavePreset(s)
        PROVE  IInv' /\ powered /\ powered' /\ image' = image
    <2>1. live.config \in Configs /\ request' \in Requests
      BY <1>1, <1>5 DEF SavePreset, TypeOK, States, Requests
    <2> QED BY <1>1, <1>5, <2>1, RequestStep DEF SavePreset, TypeOK
  <1>6. ASSUME NEW s \in Slots, LoadPreset(s)
        PROVE  IInv' /\ powered /\ powered' /\ image' = image
    <2> DEFINE c == IF PresetRecord(s) \in Grooves \ image.groove THEN Factory ELSE PresetRecord(s)
    <2>1. PresetRecord(s) \in Configs
      BY <1>1, <1>6 DEF LoadPreset, Loads, PresetRecord, TypeOK, Requests, Images
    <2>2. c \in Configs
      BY <2>1, PersistentStateAssumption DEF Configs
    <2>3. /\ powered /\ live' = [live EXCEPT !.config = c] /\ svc' = RequestCurrent(svc, c)
          /\ UNCHANGED <<image, powered, listed, request, library>>
      BY <1>6 DEF LoadPreset
    <2> HIDE DEF c
    <2>4. live' \in States /\ live'.config = c
      BY <1>1, <2>2, <2>3 DEF TypeOK, States
    <2> QED BY <1>1, <2>2, <2>3, <2>4, RequestStep DEF TypeOK
  <1>7. ASSUME NEW s \in Slots, RenamePreset(s) \/ ClearPreset(s)
        PROVE  IInv' /\ powered /\ powered' /\ image' = image
    <2>1. CASE RenamePreset(s)
      <3>1. PresetRecord(s) \in Configs
        BY <1>1, <2>1 DEF RenamePreset, Loads, PresetRecord, TypeOK, Requests, Images
      <3>2. request' \in Requests
        BY <2>1, <3>1 DEF RenamePreset, Requests
      <3> QED BY <1>1, <2>1, <3>2, QuietStep DEF RenamePreset, TypeOK
    <2>2. CASE ClearPreset(s)
      <3>1. request' \in Requests
        BY <2>2 DEF ClearPreset, Requests
      <3> QED BY <1>1, <2>2, <3>1, QuietStep DEF ClearPreset, TypeOK
    <2> QED BY <1>7, <2>1, <2>2
  <1>8. ASSUME NEW g \in Grooves, ActivateGroove(g)
        PROVE  IInv' /\ powered /\ powered' /\ image' = image
    <2>1. g \in Configs /\ live' \in States /\ live'.config = g /\ library' \subseteq Grooves
      BY <1>1, <1>8 DEF ActivateGroove, TypeOK, States, Configs
    <2> QED BY <1>1, <1>8, <2>1, RequestStep DEF ActivateGroove, TypeOK
  <1> QED BY <1>2, <1>3, <1>4, <1>5, <1>6, <1>7, <1>8

LEMMA PowerLossStep == ASSUME IInv, PowerLoss PROVE IInv'
  BY FactoryStateType, OffType DEF IInv, PowerLoss, TypeOK, Requests

LEMMA TickStep == ASSUME IInv, Tick PROVE IInv'
  <1>1. svc \in Services /\ svc.age < CommitDelay /\ svc' = [svc EXCEPT !.age = @ + 1]
    BY DEF IInv, TypeOK, Tick
  <1>2. svc.age + 1 \in 0..CommitDelay
    BY <1>1, PersistentStateAssumption DEF Services
  <1>3. svc' \in Services /\ svc'.stored = svc.stored /\ svc'.hasStored = svc.hasStored
        /\ svc'.writePending = svc.writePending /\ svc'.pending = svc.pending
        /\ svc'.preference = svc.preference
    BY <1>1, <1>2 DEF Services
  <1> QED BY <1>3 DEF IInv, TypeOK, Tick

LEMMA Step ==
  ASSUME IInv, NeverLate, [Next]_vars
  PROVE  IInv'
  <1>1. CASE Next
    BY <1>1, PowerLossStep, TickStep, EditorStep, GrooveStep, ServiceStep, FactoryResetStep, BootStep
    DEF Next
  <1>2. CASE UNCHANGED vars
    BY <1>2 DEF vars, IInv, TypeOK
  <1> QED BY <1>1, <1>2

-----------------------------------------------------------------------------
\* The image and the service agree on CURRENT, and a pending write carries the
\* live configuration, in every reachable state.
THEOREM Invariance == ASSUME NeverLate PROVE Spec => []IInv
  <1>1. IInv /\ [Next]_vars => IInv'
    BY Step
  <1> QED BY <1>1, InitIInv, PTL DEF Spec

\* persistCurrentState: while no write is pending, what plays is what the image
\* would bring back, for every number of presets and every commit delay.
THEOREM CurrentAlwaysKept == ASSUME NeverLate PROVE Spec => []CurrentIsKept
  <1>1. IInv => CurrentIsKept
    BY DEF IInv, CurrentIsKept
  <1> QED BY <1>1, Invariance, PTL

-----------------------------------------------------------------------------
(* Refinement of Autosave.                                                  *)

Playing == IF powered THEN live.config ELSE SavedConfig

LEMMA InitPromise == Init => Promise!Init
  BY DEF Init, Promise!Init, SavedConfig, FactoryState

\* A step of the module is a step of the promise or none.
LEMMA StepPromise ==
  ASSUME IInv, NeverLate, [Next]_vars
  PROVE  [Promise!Next]_<<Playing, SavedConfig>>
  <1> USE DEF Promise!Next
  <1>0. TypeOK /\ IInv'
    BY Step DEF IInv
  <1>1. CASE UNCHANGED vars
    BY <1>1 DEF vars, Playing, SavedConfig
  <1>2. CASE PowerLoss
    BY <1>2 DEF PowerLoss, Playing, SavedConfig, Promise!PowerCycle
  <1>3. ASSUME image'.current = image.current, powered, powered'
        PROVE  [Promise!Next]_<<Playing, SavedConfig>>
    <2>1. SavedConfig' = SavedConfig
      BY <1>3 DEF SavedConfig
    <2>2. Playing' \in Configs
      BY <1>0, <1>3 DEF Playing, IInv, TypeOK, States
    <2> QED BY <2>1, <2>2 DEF Promise!Edit, Playing
  <1>4. CASE Tick
    BY <1>3, <1>4 DEF Tick
  <1>5. ASSUME NEW o \in Outcomes, Service(o)
        PROVE  [Promise!Next]_<<Playing, SavedConfig>>
    <2>1. /\ image'.current # image.current =>
               image'.current # None /\ image'.current.state.config = live.config
          /\ live' = live /\ powered' = powered /\ powered
      BY <1>5, ServiceStep DEF Service
    <2>2. CASE image'.current = image.current
      BY <1>3, <2>1, <2>2
    <2>3. CASE image'.current # image.current
      BY <2>1, <2>3 DEF Promise!Save, Playing, SavedConfig
    <2> QED BY <2>2, <2>3
  <1>6. ASSUME NEW o \in Outcomes, FactoryReset(o)
        PROVE  [Promise!Next]_<<Playing, SavedConfig>>
    <2>1. CASE o = "ok"
      <3>1. image'.current # None /\ image'.current.state = FactoryState
        BY <1>6, <2>1, ErasedImageType, FactoryStateType, WriteCurrentType DEF FactoryReset, After
      <3>2. powered' /\ live' = FactoryState
        BY <1>6, <2>1 DEF FactoryReset
      <3> QED BY <3>1, <3>2 DEF Promise!Reset, Playing, SavedConfig, FactoryState
    <2>2. CASE o # "ok"
      <3>1. image' = image /\ powered /\ powered'
        BY <1>6, <2>2, PersistentStateAssumption DEF FactoryReset, After, NeverLate
      <3> QED BY <1>3, <3>1
    <2> QED BY <2>1, <2>2
  <1>7. ASSUME NEW o \in BootOutcomes, Boot(o)
        PROVE  [Promise!Next]_<<Playing, SavedConfig>>
    <2>1. /\ image.current = None => image'.current = None
          /\ image.current # None =>
               image'.current # None /\ image'.current.state = image.current.state
      BY <1>0, <1>7, MigratedKeepsCurrent DEF Boot, After, TypeOK
    <2>2. SavedConfig' = SavedConfig
      BY <2>1 DEF SavedConfig
    <2>3. live'.config = SavedConfig
      BY <1>0, <1>7, FactoryStateType DEF Boot, SavedConfig, TypeOK, Images, Records, States, FactoryState
    <2>4. ~powered /\ powered'
      BY <1>7 DEF Boot
    <2> QED BY <2>2, <2>3, <2>4 DEF Playing
  <1>8. ASSUME NEW g \in Grooves, NEW o \in Outcomes, SaveGroove(g, o) \/ RemoveGroove(g, o)
        PROVE  [Promise!Next]_<<Playing, SavedConfig>>
    BY <1>3, <1>8, GrooveStep
  <1>9. ASSUME \/ \E c \in Plain : Edit(c)
               \/ \E t \in Transports : PressTransport(t) \/ ExternalTransport(t)
               \/ \E s \in Slots : SavePreset(s) \/ LoadPreset(s) \/ RenamePreset(s) \/ ClearPreset(s)
               \/ \E g \in Grooves : ActivateGroove(g)
        PROVE  [Promise!Next]_<<Playing, SavedConfig>>
    BY <1>3, <1>9, EditorStep
  <1> HIDE DEF Promise!Next
  <1> QED BY <1>1, <1>2, <1>4, <1>5, <1>6, <1>7, <1>8, <1>9 DEF Next

\* CURRENT - AUTO SAVE: requests, commits, failures, migration at boot, factory
\* resets and power loss are, to the user, steps of Autosave or none.
THEOREM Refinement == ASSUME NeverLate PROVE Spec => ImplementsAutosave
  <1>1. IInv /\ [Next]_vars => [Promise!Next]_<<Playing, SavedConfig>>
    BY StepPromise
  <1> QED BY <1>1, InitPromise, Invariance, PTL DEF Spec, ImplementsAutosave, Promise!Spec, Playing

-----------------------------------------------------------------------------
(* Removed grooves.                                                         *)

LEMMA PlainIsNotLoaded == ASSUME TypeOK, NEW c \in Plain PROVE c \notin library
  BY PersistentStateAssumption DEF TypeOK

LEMMA StepKeepsGrooves ==
  ASSUME IInv, NeverLate, StaleGrooveNeverPlays, [Next]_vars
  PROVE  StaleGrooveNeverPlays'
  <1> USE DEF StaleGrooveNeverPlays
  <1>0. TypeOK /\ Factory \notin library
    BY PlainIsNotLoaded, PersistentStateAssumption DEF IInv
  <1>1. ASSUME powered, live'.config = live.config, library' = library, image'.groove = image.groove
        PROVE  StaleGrooveNeverPlays'
    BY <1>1
  <1>2. CASE UNCHANGED vars
    BY <1>2 DEF vars
  <1>3. CASE PowerLoss
    BY <1>3 DEF PowerLoss
  <1>4. CASE Tick
    BY <1>1, <1>4 DEF Tick
  <1>5. ASSUME NEW c \in Plain, Edit(c)
        PROVE  StaleGrooveNeverPlays'
    BY <1>0, <1>5, PlainIsNotLoaded DEF Edit, TypeOK, States
  <1>6. ASSUME NEW t \in Transports, PressTransport(t) \/ ExternalTransport(t)
        PROVE  StaleGrooveNeverPlays'
    BY <1>0, <1>1, <1>6 DEF PressTransport, ExternalTransport, TypeOK, States
  <1>7. ASSUME NEW s \in Slots, SavePreset(s) \/ RenamePreset(s) \/ ClearPreset(s)
        PROVE  StaleGrooveNeverPlays'
    BY <1>1, <1>7 DEF SavePreset, RenamePreset, ClearPreset
  <1>8. ASSUME NEW s \in Slots, LoadPreset(s)
        PROVE  StaleGrooveNeverPlays'
    <2> DEFINE c == IF PresetRecord(s) \in Grooves \ image.groove THEN Factory ELSE PresetRecord(s)
    <2>1. live' = [live EXCEPT !.config = c] /\ library' = library /\ image' = image
      BY <1>8 DEF LoadPreset
    <2>2. c \in library => c \in image.groove
      BY <1>0 DEF TypeOK
    <2> HIDE DEF c
    <2>3. live'.config = c
      BY <1>0, <2>1 DEF TypeOK, States
    <2> QED BY <2>1, <2>2, <2>3
  <1>9. ASSUME NEW g \in Grooves, ActivateGroove(g)
        PROVE  StaleGrooveNeverPlays'
    BY <1>0, <1>9 DEF ActivateGroove, GrooveLoads, TypeOK, States
  <1>10. ASSUME NEW g \in Grooves, NEW o \in Outcomes, SaveGroove(g, o)
         PROVE  StaleGrooveNeverPlays'
    <2>1. CASE o = "ok"
      BY <1>0, <1>10, <2>1 DEF SaveGroove, GrooveSaved, After, TypeOK, States, Images
    <2>2. CASE o # "ok"
      <3>1. image' = image
        BY <1>10, <2>2, PersistentStateAssumption DEF SaveGroove, After, NeverLate
      <3> QED BY <1>1, <1>10, <2>2, <3>1 DEF SaveGroove
    <2> QED BY <2>1, <2>2
  <1>11. ASSUME NEW g \in Grooves, NEW o \in Outcomes, RemoveGroove(g, o)
         PROVE  StaleGrooveNeverPlays'
    <2>1. CASE o = "ok"
      <3>1. library' = library \ {g} /\ image'.groove = image.groove \ {g} /\ powered
        BY <1>0, <1>11, <2>1 DEF RemoveGroove, GrooveCleared, GrooveLoads, After, TypeOK, Images
      <3>2. CASE live.config = g
        BY <1>0, <1>11, <2>1, <3>1, <3>2 DEF RemoveGroove, GrooveCleared, GrooveLoads, TypeOK, States
      <3>3. CASE live.config # g
        BY <1>11, <2>1, <3>1, <3>3 DEF RemoveGroove
      <3> QED BY <3>2, <3>3
    <2>2. CASE o # "ok"
      <3>1. image' = image
        BY <1>11, <2>2, PersistentStateAssumption DEF RemoveGroove, After, NeverLate
      <3> QED BY <1>1, <1>11, <2>2, <3>1 DEF RemoveGroove
    <2> QED BY <2>1, <2>2
  <1>12. ASSUME NEW o \in Outcomes, Service(o)
         PROVE  StaleGrooveNeverPlays'
    <2>1. image'.groove = image.groove
      BY <1>0, <1>12 DEF Service, After, WritePreset, WriteCurrent, TypeOK, Images
    <2> QED BY <1>1, <1>12, <2>1 DEF Service
  <1>13. ASSUME NEW o \in Outcomes, FactoryReset(o)
         PROVE  StaleGrooveNeverPlays'
    <2>1. CASE o = "ok"
      BY <1>0, <1>13, <2>1 DEF FactoryReset, FactoryState
    <2>2. CASE o # "ok"
      <3>1. image' = image
        BY <1>13, <2>2, PersistentStateAssumption DEF FactoryReset, After, NeverLate
      <3>2. live'.config = live.config
        BY <1>0, <1>13, <2>2 DEF FactoryReset, TypeOK, States
      <3> QED BY <1>1, <1>13, <3>1, <3>2 DEF FactoryReset
    <2> QED BY <2>1, <2>2
  <1>14. ASSUME NEW o \in BootOutcomes, Boot(o)
         PROVE  StaleGrooveNeverPlays'
    <2>1. image'.groove = image.groove
      BY <1>0, <1>14 DEF Boot, After, Migrated, TypeOK, Images
    <2> QED BY <1>14, <2>1 DEF Boot
  <1> HIDE DEF StaleGrooveNeverPlays
  <1> QED BY <1>2, <1>3, <1>4, <1>5, <1>6, <1>7, <1>8, <1>9, <1>10, <1>11, <1>12, <1>13, <1>14 DEF Next

\* removeSelectedGroove and the resolution of loadPreset: what plays from the
\* engine's groove library is stored, also after removals, failed ones and resets.
THEOREM StaleGrooveNever == ASSUME NeverLate PROVE Spec => []StaleGrooveNeverPlays
  <1>1. Init => StaleGrooveNeverPlays
    BY DEF Init, StaleGrooveNeverPlays
  <1>2. IInv /\ StaleGrooveNeverPlays /\ [Next]_vars => StaleGrooveNeverPlays'
    BY StepKeepsGrooves
  <1> QED BY <1>1, <1>2, Invariance, PTL DEF Spec

-----------------------------------------------------------------------------
(* The list of presets.  A migration that fails at boot leaves presets of   *)
(* the older schema listed and unreadable (ListedPresetLoads), so it is     *)
(* assumed to succeed here.                                                 *)

BootSucceeds == BootOutcomes = {"ok"}

ListInv ==
  /\ PresetListIsTrue
  /\ ~powered => image.old = NoPresets \/ image.preset = NoPresets

LEMMA OldOutsideNone ==
  ASSUME NEW img, img.old = NoPresets, NEW first, NEW end
  PROVE  OldOutside(img, first, end) = NoPresets
  BY DEF OldOutside, NoPresets

LEMMA WriteCurrentKeepsPresets ==
  ASSUME NEW img \in Images, NEW state \in States
  PROVE  /\ WriteCurrent(img, state).preset = img.preset
         /\ img.old = NoPresets => WriteCurrent(img, state).old = NoPresets
  BY OldOutsideNone DEF WriteCurrent, Images

LEMMA WritePresetKeepsOthers ==
  ASSUME NEW img \in Images, NEW s \in Slots, NEW record \in Configs \cup {None}
  PROVE  /\ WritePreset(img, s, record).preset = [img.preset EXCEPT ![s] = record]
         /\ img.old = NoPresets => WritePreset(img, s, record).old = NoPresets
  BY OldOutsideNone DEF WritePreset, Images

LEMMA ServiceKeepsList ==
  ASSUME IInv, NeverLate, PresetListIsTrue, NEW o \in Outcomes, Service(o)
  PROVE  PresetListIsTrue'
  <1> DEFINE staged == IF CurrentReady THEN WriteCurrent(image, svc.pending) ELSE image
             both == IF request # None THEN WritePreset(staged, request.slot, request.record)
                     ELSE staged
  <1>1. TypeOK /\ powered /\ image \in Images /\ svc.pending \in States
        /\ listed = {s \in Slots : image.preset[s] # None} /\ image.old = NoPresets
    BY DEF IInv, TypeOK, Services, Service, PresetListIsTrue
  <1>2. staged \in Images /\ staged.preset = image.preset /\ staged.old = NoPresets
    BY <1>1, WriteCurrentType, WriteCurrentKeepsPresets
  <1>3. image' = IF o = "failed" THEN image ELSE both
    BY DEF Service, After
  <1> HIDE DEF staged
  <1>4. CASE o = "ok"
    <2>1. image' = both /\ listed' = ListedAfterCommit
      BY <1>3, <1>4 DEF Service
    <2>2. CASE request = None
      BY <1>1, <1>2, <2>1, <2>2 DEF ListedAfterCommit, PresetListIsTrue
    <2>3. CASE request # None
      <3>1. request.slot \in Slots /\ request.record \in Configs \cup {None}
        BY <1>1, <2>3 DEF TypeOK, Requests
      <3>2. image'.preset = [image.preset EXCEPT ![request.slot] = request.record]
            /\ image'.old = NoPresets
        BY <1>2, <2>1, <2>3, <3>1, WritePresetKeepsOthers
      <3>3. image.preset \in [Slots -> Configs \cup {None}]
        BY <1>1 DEF Images
      <3>4. listed' = {s \in Slots : image'.preset[s] # None}
        BY <1>1, <2>1, <2>3, <3>1, <3>2, <3>3 DEF ListedAfterCommit
      <3> QED BY <3>2, <3>4 DEF PresetListIsTrue
    <2> QED BY <2>2, <2>3
  <1>5. CASE o # "ok"
    BY <1>1, <1>3, <1>5, PersistentStateAssumption DEF Service, NeverLate, PresetListIsTrue
  <1> QED BY <1>4, <1>5

LEMMA BootMakesList ==
  ASSUME IInv, BootSucceeds, ListInv, NEW o \in BootOutcomes, Boot(o)
  PROVE  PresetListIsTrue'
  <1> DEFINE migrate == \/ image.current # None /\ image.current.format = "old"
                        \/ \E s \in Slots : image.preset[s] = None /\ image.old[s] # None
  <1>1. image \in Images /\ ~powered /\ o = "ok"
    BY DEF IInv, TypeOK, Boot, BootSucceeds
  <1>2. listed' = {s \in Slots : FoundPreset(s) # None}
        /\ image' = IF migrate THEN Migrated(image.current) ELSE image
    BY <1>1 DEF Boot, After
  <1>3. CASE migrate
    <2>1. image'.preset = [s \in Slots |-> FoundPreset(s)] /\ image'.old = NoPresets
      BY <1>1, <1>2, <1>3 DEF Migrated, Images
    <2> QED BY <1>2, <2>1 DEF PresetListIsTrue
  <1>4. CASE ~migrate
    <2>1. image' = image /\ \A s \in Slots : image.preset[s] = None => image.old[s] = None
      BY <1>2, <1>4
    <2>2. image.old = NoPresets
      <3>1. CASE image.preset = NoPresets
        <4>1. \A s \in Slots : image.old[s] = None
          BY <2>1, <3>1 DEF NoPresets
        <4>2. image.old \in [Slots -> Configs \cup {None}]
          BY <1>1 DEF Images
        <4> QED BY <4>1, <4>2 DEF NoPresets
      <3> QED BY <1>1, <3>1 DEF ListInv
    <2>3. listed' = {s \in Slots : image.preset[s] # None}
      BY <1>2, <2>1 DEF FoundPreset
    <2> QED BY <2>1, <2>2, <2>3 DEF PresetListIsTrue
  <1> QED BY <1>3, <1>4

LEMMA StepKeepsList ==
  ASSUME IInv, NeverLate, BootSucceeds, ListInv, [Next]_vars
  PROVE  ListInv'
  <1>0. TypeOK /\ PresetListIsTrue
    BY DEF IInv, ListInv
  <1>1. ASSUME powered, powered', listed' = listed, image'.preset = image.preset, image'.old = image.old
        PROVE  ListInv'
    BY <1>0, <1>1 DEF ListInv, PresetListIsTrue
  <1>2. CASE UNCHANGED vars
    BY <1>2 DEF vars, ListInv, PresetListIsTrue
  <1>3. CASE PowerLoss
    BY <1>0, <1>3 DEF PowerLoss, ListInv, PresetListIsTrue
  <1>4. CASE Tick
    BY <1>1, <1>4 DEF Tick
  <1>5. ASSUME \/ \E c \in Plain : Edit(c)
               \/ \E t \in Transports : PressTransport(t) \/ ExternalTransport(t)
               \/ \E s \in Slots : SavePreset(s) \/ LoadPreset(s) \/ RenamePreset(s) \/ ClearPreset(s)
               \/ \E g \in Grooves : ActivateGroove(g)
        PROVE  ListInv'
    <2>1. listed' = listed
      BY <1>5 DEF Edit, PressTransport, ExternalTransport, SavePreset, LoadPreset, RenamePreset,
                  ClearPreset, ActivateGroove
    <2> QED BY <1>1, <1>5, <2>1, EditorStep
  <1>6. ASSUME NEW g \in Grooves, NEW o \in Outcomes, SaveGroove(g, o) \/ RemoveGroove(g, o)
        PROVE  ListInv'
    <2>1. image'.preset = image.preset /\ image'.old = image.old
      BY <1>0, <1>6 DEF SaveGroove, RemoveGroove, GrooveSaved, GrooveCleared, GrooveLoads, After, TypeOK, Images
    <2> QED BY <1>1, <1>6, <2>1 DEF SaveGroove, RemoveGroove
  <1>7. ASSUME NEW o \in Outcomes, Service(o)
        PROVE  ListInv'
    BY <1>0, <1>7, ServiceKeepsList DEF ListInv, Service
  <1>8. ASSUME NEW o \in Outcomes, FactoryReset(o)
        PROVE  ListInv'
    <2>1. CASE o = "ok"
      <3>1. image'.preset = NoPresets /\ image'.old = NoPresets
        <4>1. ErasedImage.preset = NoPresets /\ ErasedImage.old = NoPresets
          BY DEF ErasedImage
        <4> QED BY <1>8, <2>1, <4>1, ErasedImageType, FactoryStateType, WriteCurrentKeepsPresets
                DEF FactoryReset, After
      <3>2. listed' = {} /\ powered'
        BY <1>8, <2>1 DEF FactoryReset
      <3> QED BY <3>1, <3>2 DEF ListInv, PresetListIsTrue, NoPresets
    <2>2. CASE o # "ok"
      <3>1. image' = image /\ listed' = listed /\ powered /\ powered'
        BY <1>8, <2>2, PersistentStateAssumption DEF FactoryReset, After, NeverLate
      <3> QED BY <1>1, <3>1
    <2> QED BY <2>1, <2>2
  <1>9. ASSUME NEW o \in BootOutcomes, Boot(o)
        PROVE  ListInv'
    BY <1>9, BootMakesList DEF ListInv, Boot
  <1> QED BY <1>2, <1>3, <1>4, <1>5, <1>6, <1>7, <1>8, <1>9 DEF Next

\* presetExists and the preset list of the menus: exactly the slots that hold a
\* record are listed, and nothing of the older schema is left behind.
THEOREM PresetListAlwaysTrue == ASSUME NeverLate, BootSucceeds PROVE Spec => []PresetListIsTrue
  <1>1. Init => ListInv
    BY DEF Init, ListInv, PresetListIsTrue
  <1>2. IInv /\ ListInv /\ [Next]_vars => ListInv'
    BY StepKeepsList
  <1>3. ListInv => PresetListIsTrue
    BY DEF ListInv
  <1> QED BY <1>1, <1>2, <1>3, Invariance, PTL DEF Spec
=============================================================================
