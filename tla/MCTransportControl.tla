-------------------------- MODULE MCTransportControl --------------------------
(* Instances of TransportControl: pairs of roles whose handlers meet, with  *)
(* queues of one edge so that losses and dropped edges happen at once.      *)
EXTENDS TransportControl

Cfg(a, b, external, lossStops, gate) ==
  [role |-> <<a, b>>, external |-> external, lossStops |-> lossStops,
   resetGate |-> gate, timing |-> 1]

\* START and STOP cables, or RUN and TAP; SYNC with RESET in gate
\* mode and with the loss policy STOP; RUN and RESET with the roles edited.
Cables    == {Cfg("Start", "Stop", FALSE, FALSE, FALSE), Cfg("Run", "Tap", FALSE, FALSE, FALSE)}
StartStop == {Cfg("Start", "Stop", FALSE, FALSE, FALSE)}
SyncReset == {Cfg("Sync", "Reset", TRUE, TRUE, TRUE)}
RunReset  == {Cfg("Run", "Reset", FALSE, FALSE, TRUE), Cfg("Sync", "Run", TRUE, TRUE, FALSE)}
=============================================================================
