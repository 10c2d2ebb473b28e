------------------------------ MODULE InputsMC ------------------------------
(* What the loop task samples: the buttons and the temperature probe. They  *)
(* share no state, so one run explores each of them with the other at rest. *)
EXTENDS ButtonManager, TemperatureProbe

VARIABLE part \* "buttons" or "probe"

InputsInit == ButtonsInit /\ ProbeInit /\ part \in {"buttons", "probe"}

InputsNext ==
    /\ UNCHANGED part
    /\ \/ part = "buttons" /\ ButtonsNext /\ UNCHANGED probeVars
       \/ part = "probe" /\ ProbeNext /\ UNCHANGED buttonVars

InputsSpec == InputsInit /\ [][InputsNext]_<<buttonVars, probeVars, part>>
=============================================================================
