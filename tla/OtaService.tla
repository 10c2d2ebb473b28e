------------------------------ MODULE OtaService ------------------------------
(***************************************************************************)
(* What relaying OTA commands promises, whatever the frames do: a node     *)
(* works at one command at a time, only at one that was issued, for this   *)
(* node and not worked at since its last restart; a firmware is flashed by *)
(* an install command only, and runs from the next restart on.             *)
(* EspNowBridge implements it.                                             *)
(***************************************************************************)
CONSTANTS
    Nodes, Commands, \* commands are [src, target, install]; "all" is a target
    None             \* no command

VARIABLES
    issued,     \* commands that operators have given
    working,    \* for each node, the command it works at
    carriedOut, \* for each node, the commands it has begun since its restart
    running,    \* the firmware a node runs
    flashed     \* a new firmware waits for the next restart

Issue(c) ==
    /\ c \notin issued
    /\ issued' = issued \cup {c}
    /\ UNCHANGED <<working, carriedOut, running, flashed>>

Begin(n, c) ==
    /\ working[n] = None
    /\ c \in issued /\ c.target \in {"all", n}
    /\ c \notin carriedOut[n]
    /\ working' = [working EXCEPT ![n] = c]
    /\ carriedOut' = [carriedOut EXCEPT ![n] = @ \cup {c}]
    /\ UNCHANGED <<issued, running, flashed>>

\* Checks, and updates that fail, change nothing.
End(n) ==
    /\ working[n] # None
    /\ working' = [working EXCEPT ![n] = None]
    /\ UNCHANGED <<issued, carriedOut, running, flashed>>

EndUpdated(n) ==
    /\ working[n] # None
    /\ working[n].install /\ running[n] = "old"
    /\ working' = [working EXCEPT ![n] = None]
    /\ flashed' = [flashed EXCEPT ![n] = TRUE]
    /\ UNCHANGED <<issued, carriedOut, running>>

Restart(n) ==
    /\ working' = [working EXCEPT ![n] = None]
    /\ carriedOut' = [carriedOut EXCEPT ![n] = {}]
    /\ running' = [running EXCEPT ![n] = IF flashed[n] THEN "new" ELSE @]
    /\ flashed' = [flashed EXCEPT ![n] = FALSE]
    /\ UNCHANGED issued

Init ==
    /\ issued = {}
    /\ working = [n \in Nodes |-> None]
    /\ carriedOut = [n \in Nodes |-> {}]
    /\ running = [n \in Nodes |-> "old"] /\ flashed = [n \in Nodes |-> FALSE]

Next ==
    \/ \E c \in Commands : Issue(c) \/ \E n \in Nodes : Begin(n, c)
    \/ \E n \in Nodes : End(n) \/ EndUpdated(n) \/ Restart(n)

Spec == Init /\ [][Next]_<<issued, working, carriedOut, running, flashed>>
=============================================================================
