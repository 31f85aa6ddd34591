------------------------------ MODULE MCEventGrid ------------------------------
(***************************************************************************)
(* Custom grooves with and without Humanize, on the instance on which      *)
(* their order is refuted.  One tick is 1/12 of a master beat, so that a   *)
(* triplet channel has few ticks between its events.                       *)
(***************************************************************************)
EXTENDS EventGrid

Customs ==
  [tempo : {[num |-> 1, den |-> 12]}, mode : {"Clock"},
   rate : {[num |-> 1, den |-> 1, factor |-> f, multiply |-> TRUE] : f \in {1, 3}},
   local : {4}, unit : {4}, phase : {0}, swing : {0}, preset : {"Custom"}, amount : {100},
   rotation : {0}, custom : {<<-120, 120>>, <<120, -120>>}, humanize : {0, 250}]
=============================================================================
