------------------------------- MODULE Autosave -------------------------------
(***************************************************************************)
(* CURRENT - AUTO SAVE as its user sees it: one saved configuration, which *)
(* at some later moment becomes the one that is playing, and which a power *)
(* cycle brings back.  No other value is ever saved.                       *)
(***************************************************************************)
CONSTANTS Configs, Factory
VARIABLES playing, saved

Init == playing = Factory /\ saved = Factory

Edit == playing' \in Configs /\ UNCHANGED saved
Save == saved' = playing /\ UNCHANGED playing
PowerCycle == playing' = saved /\ UNCHANGED saved
Reset == playing' = Factory /\ saved' = Factory

Next == Edit \/ Save \/ PowerCycle \/ Reset
Spec == Init /\ [][Next]_<<playing, saved>>
=============================================================================
