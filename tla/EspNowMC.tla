------------------------------ MODULE EspNowMC ------------------------------
(* EspNowBridge on a line a - b - c: a command of a reaches c only through b,  *)
(* and b's relayed copy comes back to a.                                       *)
EXTENDS EspNowBridge, TLC

CONSTANTS a, b, c

MCNodes == {a, b, c}
MCHears == (a :> {b}) @@ (b :> {a, c}) @@ (c :> {b})
MCCommands == {[src |-> a, target |-> "all", install |-> TRUE],
               [src |-> c, target |-> a, install |-> FALSE]}
=============================================================================
