------------------------------- MODULE MCMemory -------------------------------
(***************************************************************************)
(* One run for what the module remembers: the current state, presets and   *)
(* custom grooves (PersistentState), the pattern and expression stores     *)
(* beside them (SequencerStores), what these keep of gates (PatternBank)   *)
(* and of expression (ExpressionList), and the bytes of records of every   *)
(* schema (StateSchemas).  They share no state here: a behaviour is about  *)
(* one of them, `part', and the variables of the others keep an initial    *)
(* value; the last three modules take turns with v1, v2, ...               *)
(*                                                                         *)
(* Two preset slots and one custom groove; older records have the sizes of *)
(* schema v11.                                                             *)
(***************************************************************************)
EXTENDS PersistentState, RecordLayout

CONSTANTS p1, p2, g1, clean, seeded, s1, s2, n1

VARIABLES
  part,
  flash, on, playing, bank, steps, dirty, age, engine, clipboard, turn, reset,
  v1, v2, v3, v4, v5, v6, v7, v8, v9

v1to9 == <<v1, v2, v3, v4, v5, v6, v7, v8, v9>>
storesVars ==
  <<flash, on, playing, bank, steps, dirty, age, engine, clipboard, turn, reset>>
everything == <<part, vars, storesVars, v1to9>>

\* One channel with two pattern slots and room for one override; a commit may follow
\* an edit at once, ...
Stores == INSTANCE SequencerStores WITH
  Patterns <- {clean, seeded}, Clean <- clean, Legacy <- seeded, Slots <- {s1, s2},
  First <- s1, Steps <- {n1}, MaxOverrides <- 1, CommitDelay <- 0,
  Outcomes <- {"ok", "failed"}, powered <- on

\* ... and with one slot it has to wait, for whether edits that go on get written.
OneSlot == INSTANCE SequencerStores WITH
  Patterns <- {clean, seeded}, Clean <- clean, Legacy <- seeded, Slots <- {s1},
  First <- s1, Steps <- {n1}, MaxOverrides <- 1, CommitDelay <- 1,
  Outcomes <- {"ok", "failed"}, powered <- on

\* A configuration in which no two fields that could be confused have one value, ...
Given(f) ==
  CASE f[1] = "bpm" -> 301           [] f[1] = "minimumBpm" -> 258
    [] f[1] = "maximumBpm" -> 777    [] f[1] = "beats" -> 3 + f[2]
    [] f[1] = "unit" -> 8            [] f[1] = "transport" -> 2
    [] f[1] = "ppqn" -> 24           [] f[1] = "glitchFilterUs" -> 515
    [] f[1] = "timeoutMs" -> 1541    [] f[1] = "factor" -> 20 + f[2]
    [] f[1] = "numerator" -> 2 + f[2]      [] f[1] = "denominator" -> 3 + f[2]
    [] f[1] = "swing" -> 30 + f[2]         [] f[1] = "gateLengthMs" -> 1290 + f[2]
    [] f[1] = "phase" -> 60 + f[2]         [] f[1] = "humanizeUs" -> 1805
    [] f[1] = "bank" -> 2                  [] f[1] = "bankGateMs" -> 1033
    [] f[1] = "screensaver" -> 14          [] f[1] = "screensaverAfter" -> 41
    [] f[1] = "dimAfter" -> 42             [] f[1] = "offAfter" -> 43
    [] f[1] = "probability" -> 80 + f[2]   [] f[1] = "steps" -> 40 + f[2]
    [] f[1] = "hits" -> 11 + f[2]          [] f[1] = "rotation" -> 12 + f[2]
    [] f[1] = "length" -> 50 + f[2]        [] f[1] = "sequencerRotation" -> 21 + f[2]
    [] f[1] = "pattern" -> [i \in 1..8 |-> 100 + 8 * f[2] + i]
    [] f[1] = "groove" -> 8                [] f[1] = "amount" -> 70 + f[2]
    [] f[1] = "grooveRotation" -> 40 + f[2]   [] f[1] = "input1" -> 5
    [] f[1] = "input2" -> 6                [] f[1] = "customSlot" -> f[2] + 1
    [] f[1] = "preCountSteps" -> 33        [] f[1] = "smoothing" -> 3
    [] OTHER -> 1

\* ... and what one of its fields may be instead, at or beyond a limit.
Changes ==
  { <<"bpm", 0, 12>>, <<"bpm", 0, 0>>, <<"bpm", 0, 999>>, <<"beats", 0, 17>>, <<"unit", 3, 5>>,
    <<"hits", 8, 49>>, <<"rotation", 8, 48>>, <<"input2", 0, 5>>, <<"input1", 0, 0>>,
    <<"grooveRotation", 0, 64>>, <<"groove", 8, 7>>, <<"dimAfter", 0, 44>>,
    <<"humanizeUs", 0, 2001>>, <<"smoothing", 0, 4>>, <<"customSlot", 4, 10>>,
    <<"length", 2, 0>>, <<"muted", 5, 0>>, <<"preCountSteps", 0, 65>> }

Distinct == [f \in Fields |-> Given(f)]
Changed(c) == [Distinct EXCEPT ![<<c[1], c[2]>>] = c[3]]

Damage == {"none", "magic", "version", "slot", "size", "name", "sum"}

Schemas == INSTANCE StateSchemas WITH
  Layout <- NewestLayout, Places <- NewestPlaces,
  Cases <- {<<Distinct, f>> : f \in Damage} \cup {<<Changed(c), "none">> : c \in Changes},
  kind <- v1, schema <- v2, saved <- v3, flaw <- v4, record <- v5, loaded <- v6, boots <- v7

\* Keys at both ends of their range, and fewer rows than steps to fill them.
Expression == INSTANCE ExpressionList WITH
  Patterns <- {<<0, 7>>, <<7, 0>>}, Steps <- {0, 127}, MaxOverrides <- 2,
  Metadata <- {[probability |-> 0, gate |-> 0, ratchet |-> 1, tie |-> FALSE],
               [probability |-> 0, gate |-> 0, ratchet |-> 1, tie |-> TRUE],
               [probability |-> 100, gate |-> 10, ratchet |-> 8, tie |-> FALSE]},
  list <- v1, image <- v2, meant <- v3, kept <- v4

\* Words of two bits, so that patterns end before, at and behind the boundary.
Bank == INSTANCE PatternBank WITH
  Slots <- {0, 1}, First <- 0, WordBits <- 2, ByteBits <- 1, MaxEdits <- 2,
  Clean <- [length |-> 3, rotation |-> 0, gates |-> <<{0}, {0}>>],
  Legacy <- [length |-> 2, rotation |-> 1, gates |-> <<{1}, {0}>>],
  patterns <- v1, active <- v2, dirty <- v3, clipboard <- v4, image <- v5,
  drawn <- v6, copied <- v7, kept <- v8, edits <- v9

\* The payload sizes of the header are those of the layout.
ASSUME SchemasAssumption == Schemas!SchemasAssumption

\* PersistentState's own constants are checked where it states them.
ASSUME StoresAssumption == Stores!StoresAssumption

Unused5to9 == v5 = None /\ v6 = None /\ v7 = None /\ v8 = None /\ v9 = None
Unused == v1 = None /\ v2 = None /\ v3 = None /\ v4 = None /\ Unused5to9

JointInit ==
  /\ part \in {"state", "stores", "slot", "schemas", "expression", "bank"}
  /\ Init /\ IF part = "slot" THEN OneSlot!Init ELSE Stores!Init
  /\ \/ part \in {"state", "stores", "slot"} /\ Unused
     \/ part = "schemas" /\ Schemas!Init /\ v8 = None /\ v9 = None
     \/ part = "expression" /\ Expression!Init /\ Unused5to9
     \/ part = "bank" /\ Bank!Init
  /\ part # "state" => image.current = None

JointNext ==
  \/ part = "state" /\ Next /\ UNCHANGED <<part, storesVars, v1to9>>
  \/ part = "stores" /\ Stores!Next /\ UNCHANGED <<part, vars, v1to9>>
  \/ part = "slot" /\ OneSlot!Next /\ UNCHANGED <<part, vars, v1to9>>
  \/ part = "schemas" /\ Schemas!Next /\ UNCHANGED <<part, vars, storesVars, v8, v9>>
  \/ /\ part = "expression" /\ Expression!Next
     /\ UNCHANGED <<part, vars, storesVars, v5, v6, v7, v8, v9>>
  \/ part = "bank" /\ Bank!Next /\ UNCHANGED <<part, vars, storesVars>>

Turn(store) == OneSlot!Skip(store) \/ \E o \in {"ok", "failed"} : OneSlot!Commit(store, o)

\* The fairness of both modules, for the behaviours that are about writing.
JointSpec ==
  /\ JointInit /\ [][JointNext]_everything
  /\ WF_vars(part = "state" /\ Tick)
  /\ SF_vars(part = "state" /\ Service("ok"))
  /\ WF_storesVars(part = "slot" /\ OneSlot!Tick)
  /\ \A store \in {"bank", "steps"} :
       /\ WF_storesVars(part = "slot" /\ Turn(store))
       /\ SF_storesVars(part = "slot" /\ OneSlot!Commit(store, "ok"))

\* SequencerStores!EngineShowsActiveSlot: the engine plays the active slot.
EngineShowsActiveSlot == part = "stores" => Stores!EngineShowsActiveSlot

\* PersistentState!EditsReachFlash and SequencerStores!DirtyIsCommitted: edits that
\* go on do not postpone the write.
EditsAreWritten == EditsReachFlash /\ (part = "slot" => OneSlot!DirtyIsCommitted)

\* PatternBank!GatesAreAsDrawn and ExpressionList!EveryStepHasItsOwn: gates cut off by a
\* shorter length stay away, and a row removed takes no other with it.
StepsAreAsEdited ==
  /\ part = "bank" => Bank!GatesAreAsDrawn
  /\ part = "expression" => Expression!EveryStepHasItsOwn

\* StateSchemas!EverySchemaIsRead: every valid record is read as it was meant.
EverySchemaIsRead == part = "schemas" => Schemas!EverySchemaIsRead
=============================================================================
