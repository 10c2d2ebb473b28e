------------------------------- MODULE RelayMC -------------------------------
(* Model checking of RelayController. *)
EXTENDS RelayController
=============================================================================
