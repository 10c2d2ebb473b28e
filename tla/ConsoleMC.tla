----------------------------- MODULE ConsoleMC -----------------------------
(* The web page, and the settings of network and time that it changes. The *)
(* models share no state, and neither do the radio and the clock within    *)
(* NetworkSettings: one run explores each with the others at rest.         *)
EXTENDS WebConsole, NetworkSettings

CONSTANTS n1, n2, p1, p2

\* Passwords of the networks, and a device made for n1.
MCKey == (n1 :> p1) @@ (n2 :> p2)
MCDefault == [ssid |-> n1, pass |-> p1]

VARIABLE part \* "page", "wifi" or "time"

\* Between two polls of a page that shows what there is.
PageAtRest ==
    /\ device = [p \in Panels |-> 1] /\ shown = device
    /\ up = TRUE /\ busy = FALSE
    /\ left = [t \in Tasks |-> <<>>] /\ held = [t \in Tasks |-> NoAnswer]
    /\ queue = <<>> /\ answers = <<>>
    /\ clicks = 0 /\ others = 0 /\ disturbed = FALSE

\* In the network for a while.
NetAtRest ==
    /\ flash = [ssid |-> n1, pass |-> p1, profile |-> Current,
                enabled |-> None, server |-> None, zone |-> None]
    /\ wifi = MCDefault /\ target = MCDefault /\ link = n1
    /\ retryDue = TRUE /\ aps = Networks
    /\ timeSync = DefaultTime /\ sntp = Rule(DefaultTime)
    /\ syncDue = FALSE
    /\ puts = <<>> /\ job = <<>> /\ resets = 0
    /\ entered = [wifi |-> DefaultWifi, time |-> DefaultTime]
    /\ unsaved = [wifi |-> FALSE, time |-> FALSE]

MCInit ==
    \/ part = "page" /\ ConsoleInit /\ NetAtRest
    \/ part \in {"wifi", "time"} /\ NetInit /\ PageAtRest

MCNext ==
    /\ UNCHANGED part
    /\ \/ part = "page" /\ ConsoleNext /\ UNCHANGED netVars
       \/ /\ UNCHANGED consoleVars
          /\ \/ part # "page" /\ DeviceNext
             \/ part = "wifi" /\ WifiNext
             \/ part = "time" /\ TimeNext

\* ConsoleFairness where the page may move; at rest nothing else of it is enabled.
PageFairness ==
    \A t \in Polls :
        /\ WF_consoleVars(part = "page" /\ Poll(t))
        /\ SF_consoleVars(HandleTask(t)) /\ SF_consoleVars(DeliverTask(t))

MCSpec ==
    /\ MCInit /\ [][MCNext]_<<consoleVars, netVars, part>>
    /\ NetFairness
    /\ WF_consoleVars(ComesUp) /\ PageFairness
=============================================================================
