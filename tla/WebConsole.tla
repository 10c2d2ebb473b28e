----------------------------- MODULE WebConsole -----------------------------
(***************************************************************************)
(* The web page of the device (the script in WebControlServer.cpp) and the *)
(* handlers that answer it. Every click runs an asynchronous function that *)
(* awaits one request after the other; two timers poll meanwhile. The      *)
(* device handles one request at a time, in the order they arrive unless   *)
(* the network changes it, and it restarts and is changed by others.       *)
(*                                                                         *)
(* Of what the device holds and the page shows, the panels that the timers *)
(* refresh are followed; a value is a version number, 0 while the page     *)
(* shows none. Only the trim is a number, because the page computes with   *)
(* what it shows. Relay and settings are shown like them, on demand.       *)
(***************************************************************************)
EXTENDS Integers, FiniteSets, SequencesExt

CONSTANTS
    Clicks,    \* functions of the page that may run at the same time
    MaxClicks, \* bound
    MaxLate,   \* bound: the clicks after which none follows a disturbance
    MaxOthers  \* bound: changes made by others, and restarts

ASSUME ConsoleAssumption ==
    /\ IsFiniteSet(Clicks) /\ Clicks # {}
    /\ Clicks \cap {"pollLiveTemperature", "pollCurrentTime"} = {} \* the timers are no clicks
    /\ MaxClicks \in Nat /\ MaxLate \in 0..MaxClicks /\ MaxOthers \in Nat

VARIABLES
    device,    \* [Panels -> Nat]: what the device holds
    up,        \* the device is running
    shown,     \* [Panels -> Nat]: what the page shows
    busy,      \* ids.buttons are disabled
    left,      \* [Tasks -> Seq(Requests)]: requests a function has still to await
    held,      \* [Tasks]: answers it has got and not yet shown
    queue,     \* tasks whose request is at the device, in the order of arrival
    answers,   \* answers on their way to the page
    clicks,    \* counts up to MaxClicks
    others,    \* counts up to MaxOthers
    disturbed  \* history: the network, others, or a button that is not disabled interfered

page        == <<shown, busy, left, held>>
net         == <<queue, answers>>
consoleVars == <<device, up, page, net, clicks, others, disturbed>>

Panels == {"time", "trim"}
Polls  == {"pollLiveTemperature", "pollCurrentTime"}
Tasks  == Clicks \cup Polls

NoAnswer == <<>>

-----------------------------------------------------------------------------
(* Requests: the panels their answer shows, the panels they change, whether the page shows the   *)
(* answer at once or with the next one, the value sent, and whether the device restarts.         *)

Get(panels) ==
    [reads |-> panels, writes |-> {}, atOnce |-> TRUE, value |-> 0, restarts |-> FALSE]
Post(panels, changed) == [Get(panels) EXCEPT !.writes = changed]
Held(request) == [request EXCEPT !.atOnce = FALSE]

Status      == Get({"trim"})
Config      == Get({"trim"})
Time        == Get({"time"})

\* Mutant: the answer lacks the trim.
Temperature_NoTrim == Get({})

Temperature == Get({"trim"})

SaveTime    == Post({"time"}, {"time"})
Calibrate   == Post({"trim"}, {})
SaveTrim(value) == [Post({"trim"}, {"trim"}) EXCEPT !.value = value]

\* The other settings are saved in turn; the weekly update is an event of the schedule.
SaveSettings == [Post({"trim"}, {"time"}) EXCEPT !.restarts = TRUE]

\* Relay, scan and update have no part in the panels.
Elsewhere == Get({})

(* The functions of the page. *)

RefreshStatus == <<Status, Held(Config), Held(Time), Temperature, Elsewhere>>
SendCommand   == <<Elsewhere, Status>>
ApplyConfig   == <<SaveSettings, Held(Status), Config>>

SaveTimeConfig    == <<SaveTime>>
SyncTimeNow       == <<SaveTime>>
SaveScheduleEvent == <<SaveTime>>
DeleteEvent       == <<SaveTime>>

CaptureTemperaturePoint     == <<Calibrate>>
ResetTemperatureCalibration == <<Calibrate>>
SaveTemperatureMonitoring   == <<Calibrate>>

SetTemperatureTrimOffset(offset) == <<SaveTrim(offset)>>
AdjustTemperatureTrim(delta)     == SetTemperatureTrimOffset(shown["trim"] + delta)

ScanWifi         == <<Elsewhere>>
CheckOtaUpdate   == <<Elsewhere>>
InstallOtaUpdate == <<[Elsewhere EXCEPT !.restarts = TRUE]>>

\* Behind ids.buttons, which are disabled while busy...
Listed ==
    {RefreshStatus, SendCommand, ApplyConfig, ScanWifi, SaveTimeConfig, SyncTimeNow,
     SaveScheduleEvent, CheckOtaUpdate, InstallOtaUpdate, CaptureTemperaturePoint,
     ResetTemperatureCalibration, AdjustTemperatureTrim(1), SetTemperatureTrimOffset(0)}

\* ... and behind the buttons that are not.
Unlisted == {SaveTemperatureMonitoring, DeleteEvent}

-----------------------------------------------------------------------------
(* The page *)

Runs(t) == left[t] # <<>>

Start(t, requests) ==
    /\ left' = [left EXCEPT ![t] = requests]
    /\ queue' = Append(queue, t)
    /\ UNCHANGED <<device, up, shown, held, answers, others>>

\* Any task that is free.
FreeTask == CHOOSE t \in Clicks : ~Runs(t)

\* Mutant: setBusy(true) is forgotten.
Click_NotBusy(requests) ==
    /\ clicks < (IF disturbed THEN MaxLate ELSE MaxClicks) /\ clicks' = clicks + 1
    /\ ~busy \/ requests \in Unlisted
    /\ disturbed' = (disturbed \/ busy)
    /\ UNCHANGED busy
    /\ \E t \in Clicks : ~Runs(t)
    /\ Start(FreeTask, requests)

Click(requests) ==
    /\ clicks < (IF disturbed THEN MaxLate ELSE MaxClicks) /\ clicks' = clicks + 1
    /\ ~busy \/ requests \in Unlisted
    /\ disturbed' = (disturbed \/ busy)
    /\ busy' = TRUE
    /\ \E t \in Clicks : ~Runs(t)
    /\ Start(FreeTask, requests)

PollLiveTemperature == <<Temperature>>
PollCurrentTime     == <<Time>>

\* The timers know nothing of busy. Bound: setInterval() starts a poll also while the one
\* before it still waits; here that one is over by then. Answers for one panel that overtake
\* each other come from a poll and a function such as refreshStatus(), which asks for both.
Poll(t) ==
    /\ ~Runs(t)
    /\ Start(t, IF t = "pollCurrentTime" THEN PollCurrentTime ELSE PollLiveTemperature)
    /\ UNCHANGED <<busy, clicks, disturbed>>

\* Mutant: what was awaited is not dropped when a later request fails.
Finish_KeepsHeld(t) ==
    /\ left' = [left EXCEPT ![t] = <<>>]
    /\ busy' = (busy /\ t \in Polls)
    /\ UNCHANGED <<held, queue>>

\* The end of a function. finally { setBusy(false) } does not ask who else is busy.
Finish(t) ==
    /\ left' = [left EXCEPT ![t] = <<>>]
    /\ held' = [held EXCEPT ![t] = NoAnswer]
    /\ busy' = (busy /\ t \in Polls)
    /\ UNCHANGED queue

\* An await returns.
NextRequest(t, got) ==
    IF Len(left[t]) = 1
    THEN Finish(t)
    ELSE /\ left' = [left EXCEPT ![t] = Tail(@)]
         /\ held' = [held EXCEPT ![t] = IF Head(left[t]).atOnce THEN NoAnswer ELSE got]
         /\ queue' = Append(queue, t)
         /\ UNCHANGED busy

\* Panels that are filled from one answer, and from an older one where it says nothing.
Filled(new, old) ==
    [p \in DOMAIN new \cup DOMAIN old |-> IF p \in DOMAIN new THEN new[p] ELSE old[p]]

Deliver(i) ==
    LET t   == answers[i].to
        got == Filled(answers[i].data, held[t])
    IN  /\ answers' = RemoveAt(answers, i)
        /\ disturbed' = (disturbed \/ i # 1)
        /\ IF answers[i].ok
           THEN /\ NextRequest(t, got)
                /\ shown' = IF Head(left[t]).atOnce THEN Filled(got, shown) ELSE shown
           ELSE Finish(t) /\ UNCHANGED shown
        /\ UNCHANGED <<device, up, clicks, others>>

\* The connection fails, before or after the device handled the request.
Fail(t) ==
    /\ disturbed' = TRUE
    /\ left' = [left EXCEPT ![t] = <<>>]
    /\ held' = [held EXCEPT ![t] = NoAnswer]
    /\ busy' = (busy /\ t \in Polls)
    /\ \/ \E i \in 1..Len(queue) :
              queue[i] = t /\ queue' = RemoveAt(queue, i) /\ UNCHANGED answers
       \/ \E i \in 1..Len(answers) :
              answers[i].to = t /\ answers' = RemoveAt(answers, i) /\ UNCHANGED queue
    /\ UNCHANGED <<device, up, shown, clicks, others>>

-----------------------------------------------------------------------------
(* The device *)

\* What the panels become when those in `changed` are changed.
Changed(request, changed) ==
    [p \in Panels |-> IF p \notin changed THEN device[p]
                      ELSE IF p = "trim" THEN request.value ELSE device[p] + 1]

Answer(t, ok, data) == answers' = Append(answers, [to |-> t, ok |-> ok, data |-> data])

Taken(i) ==
    /\ up
    /\ queue' = RemoveAt(queue, i)
    /\ disturbed' = (disturbed \/ i # 1)
    /\ UNCHANGED <<page, clicks, others>>

Handle(i) ==
    LET request == Head(left[queue[i]])
    IN  /\ Taken(i)
        /\ device' = Changed(request, request.writes)
        /\ Answer(queue[i], TRUE, [p \in request.reads |-> device'[p]])
        /\ up' = ~request.restarts

\* 400 and 500, which the handlers behind the polls never answer. POST /config may have saved
\* some of its settings before.
Refuse(i) ==
    LET request == Head(left[queue[i]])
    IN  /\ Taken(i)
        /\ request.writes # {} \/ request.reads = {}
        /\ \E changed \in SUBSET request.writes :
               /\ changed = {} \/ request.restarts
               /\ device' = Changed(request, changed)
        /\ Answer(queue[i], FALSE, NoAnswer)
        /\ UNCHANGED up

\* The buttons of the board, the schedule, the server, another page, the sensor.
Others(p) ==
    /\ others < MaxOthers /\ others' = others + 1
    /\ device' = [device EXCEPT ![p] = @ + 1]
    /\ disturbed' = TRUE
    /\ UNCHANGED <<up, page, net, clicks>>

GoesDown ==
    /\ others < MaxOthers /\ others' = others + 1
    /\ up /\ up' = FALSE
    /\ UNCHANGED <<device, page, net, clicks, disturbed>>

ComesUp ==
    /\ ~up /\ up' = TRUE
    /\ UNCHANGED <<device, page, net, clicks, others, disturbed>>

-----------------------------------------------------------------------------
\* The page has just been loaded; its last lines call refreshStatus().
ConsoleInit ==
    /\ LET t == CHOOSE t \in Clicks : TRUE
       IN  /\ left = [x \in Tasks |-> IF x = t THEN RefreshStatus ELSE <<>>]
           /\ queue = <<t>>
    /\ device = [p \in Panels |-> 1]
    /\ shown = [p \in Panels |-> 0]
    /\ up = TRUE /\ busy = TRUE
    /\ held = [t \in Tasks |-> NoAnswer]
    /\ answers = <<>>
    /\ clicks = 0 /\ others = 0
    /\ disturbed = FALSE

ConsoleNext ==
    \/ \E requests \in Listed \cup Unlisted : Click(requests)
    \/ \E t \in Polls : Poll(t)
    \/ \E i \in 1..Len(queue) : Handle(i) \/ Refuse(i)
    \/ \E i \in 1..Len(answers) : Deliver(i)
    \/ \E t \in Tasks : Fail(t)
    \/ \E p \in Panels : Others(p)
    \/ GoesDown \/ ComesUp

HandleTask(t)  == \E i \in 1..Len(queue) : queue[i] = t /\ Handle(i)
DeliverTask(t) == \E i \in 1..Len(answers) : answers[i].to = t /\ Deliver(i)

\* The timers go on and not every poll fails; a device that is down comes up.
ConsoleFairness ==
    /\ WF_consoleVars(ComesUp)
    /\ \A t \in Polls :
           /\ WF_consoleVars(Poll(t))
           /\ SF_consoleVars(HandleTask(t))
           /\ SF_consoleVars(DeliverTask(t))

ConsoleSpec == ConsoleInit /\ [][ConsoleNext]_consoleVars /\ ConsoleFairness

-----------------------------------------------------------------------------
Waiting(t) == Cardinality({i \in DOMAIN queue : queue[i] = t})
                + Cardinality({i \in DOMAIN answers : answers[i].to = t})

\* Type invariant; a function that runs waits for exactly one answer, and one that has ended has
\* dropped what it had not shown.
ConsoleTypeOK ==
    /\ device \in [Panels -> Nat] /\ shown \in [Panels -> Nat]
    /\ up \in BOOLEAN /\ busy \in BOOLEAN /\ disturbed \in BOOLEAN
    /\ clicks \in 0..MaxClicks /\ others \in 0..MaxOthers
    /\ \A t \in Tasks :
           /\ Waiting(t) = (IF Runs(t) THEN 1 ELSE 0)
           /\ ~Runs(t) => held[t] = NoAnswer

\* Every click on a trim button moves the trim of the device: the value that is sent was computed
\* from the trim the device still has when it handles the request. That holds while requests
\* arrive in order, nobody else changes the device, and no button that setBusy() forgets was
\* pressed: its function enables the others while a first click is still on its way.
TrimClicksAddUp ==
    [][device'["trim"] # device["trim"] /\ ~disturbed' =>
          device'["trim"] \in {0, device["trim"] + 1}]_consoleVars

\* Once nobody changes the device any more, what the page polls ends up shown and stays shown:
\* whatever failed, was answered late, or was fetched before a change and shown after it.
PageCatchesUp ==
    <>[](\A p \in Panels : shown[p] = device[p])
=============================================================================
