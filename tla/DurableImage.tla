----------------------------- MODULE DurableImage -----------------------------
(***************************************************************************)
(* What PersistentStorage promises its clients (hal/persistent_storage.h): *)
(* one logical image that updates replace as a whole.                      *)
(*                                                                         *)
(* An update is a draft that starts as a copy of the image; it takes       *)
(* effect at one instant or never, also when power fails in the middle;    *)
(* `true' is answered only for a draft that has taken effect.  A damaged   *)
(* image falls back to the one it replaced, if that still exists.          *)
(***************************************************************************)
CONSTANTS
  Words,   \* the words of the image
  Data,    \* their values
  Erased,  \* the value of a word that was never written
  None     \* no draft, no previous image

VARIABLES
  image,     \* what reads return
  previous,  \* the image that `image' replaced, or None
  draft,     \* the update in progress, or None
  answer     \* what the last update returned: "none", "true", "false"

vars == <<image, previous, draft, answer>>

Blank == [w \in Words |-> Erased]

Init ==
  /\ image \in [Words -> Data]
  /\ previous = None /\ draft = None /\ answer = "none"

Begin == draft' = image /\ answer' = "none" /\ UNCHANGED <<image, previous>>

Stage(ws, v) ==
  /\ draft # None
  /\ draft' = [w \in Words |-> IF w \in ws THEN v ELSE draft[w]]
  /\ UNCHANGED <<image, previous, answer>>

\* The instant an update takes effect.  A first image replaces none.
Install ==
  /\ draft # None
  /\ image' = draft
  /\ previous' \in {image, None}
  /\ UNCHANGED <<draft, answer>>

\* Room for the next image is made at the expense of the previous one only.
ForgetPrevious == previous' = None /\ UNCHANGED <<image, draft, answer>>

Answer(ok) ==
  /\ draft # None
  /\ ok => draft = image
  /\ draft' = None
  /\ answer' = IF ok THEN "true" ELSE "false"
  /\ UNCHANGED <<image, previous>>

\* The client discards its draft, or power fails.
Drop == draft' = None /\ answer' = "none" /\ UNCHANGED <<image, previous>>

\* The stored image is damaged while no update is in progress.
Decay ==
  /\ draft = None
  /\ image' = IF previous = None THEN Blank ELSE previous
  /\ previous' = None
  /\ UNCHANGED <<draft, answer>>

Next ==
  \/ Begin \/ Install \/ ForgetPrevious \/ Drop \/ Decay
  \/ \E ws \in SUBSET Words, v \in Data : Stage(ws, v)
  \/ \E ok \in BOOLEAN : Answer(ok)

Spec == Init /\ [][Next]_vars
=============================================================================
