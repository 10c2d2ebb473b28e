----------------------------- MODULE DeviceLoop -----------------------------
(* The main loop around the components modelled elsewhere (main.cpp): serial *)
(* commands, mDNS, the web server, the host name, firmware updates, the      *)
(* update check after boot, and every way the device restarts.  What makes a *)
(* button's callback run is in ButtonManager; here it may run in any pass.   *)
(*                                                                           *)
(* One pass of loop() is the round serial, buttons, schedule, net, web,      *)
(* session, tail.  Between two steps of the pass the Wi-Fi link may change,  *)
(* the Wi-Fi task may carry out an ESP-NOW update and time may pass; a step  *)
(* that blocks is one after which time passes before the next.               *)
EXTENDS Integers

CONSTANTS Names,       \* host names a client may ask for, the default among them
          DefaultName, \* DEVICE_HOSTNAME_DEFAULT
          None,        \* no mDNS name, no download
          Versions,    \* releases: triples <<major, minor, patch>>
          FirstVersion,\* the release the device leaves the factory with
          MaxEvents    \* bound: requests, commands and resets from outside

ASSUME DeviceAssumption ==
    /\ DefaultName \in Names /\ None \notin Names \cup Versions
    /\ Versions \subseteq Nat \X Nat \X Nat /\ FirstVersion \in Versions
    /\ MaxEvents \in Nat

VARIABLES pc,         \* where loop() is; "boot" while setup() runs
          link,       \* WiFi.status() == WL_CONNECTED
          hostname,   \* deviceHostname
          stored,     \* the hostname key of device_cfg
          mdns,       \* None, or the name mDNS answers to (mdnsStarted)
          web,        \* the web server's started
          version,    \* FIRMWARE_VERSION of the image that runs
          installed,  \* the version of the image the boot loader starts next
          latest,     \* the release the API calls the latest
          job,        \* [Tasks -> download in progress]: "loop" and "wifi" task
          after,      \* where the pass goes on after a failed update
          pending,    \* bootOtaCheckPending
          attempted,  \* bootOtaCheckAttempted
          restartAt,  \* [Timers -> {"none", "waiting", "due"}]
          events      \* bound: outside events so far

network  == <<link, hostname, stored, mdns, web>>
checks   == <<pending, attempted>>
firmware == <<version, installed, latest, job, after>>
vars     == <<pc, network, checks, firmware, restartAt, events>>

Tasks  == {"loop", "wifi"}
Timers == {"reboot", "unified"}   \* rebootPending and unifiedRestartPending
NextStep == [serial |-> "buttons", buttons |-> "schedule", schedule |-> "net", net |-> "web",
             web |-> "session", session |-> "tail", tail |-> "serial"]

Running == pc # "boot"
Event == events < MaxEvents /\ events' = events + 1

At(p)   == pc = p
Proceed == pc' = NextStep[pc]

\* A pass takes all serial lines and due events there are, but one web request
\* and one message of the server.
AfterRequest == IF pc \in {"serial", "schedule"} THEN pc ELSE NextStep[pc]

(***************************************************************************)
(* Restarts.                                                                *)
(***************************************************************************)

\* ESP.restart(), a watchdog or the power: RAM is gone, flash is not, and the
\* boot loader starts the image that was installed last.
Forget(kept) ==
    /\ pc' = "boot"
    /\ link' = FALSE
    /\ stored' = kept
    /\ hostname' \in {kept, DefaultName}   \* the default when NVS cannot be opened
    /\ mdns' = None
    /\ web' = FALSE
    /\ version' = installed
    /\ job' = [t \in Tasks |-> None]
    /\ after' = "serial"
    /\ pending' = TRUE
    /\ attempted' = FALSE
    /\ restartAt' = [t \in Timers |-> "none"]

Reboot(kept) == Running /\ Forget(kept) /\ UNCHANGED <<installed, latest>>
Restart      == Reboot(stored)

\* setup(): everything the loop needs is there when it returns.
Setup ==
    /\ At("boot")
    /\ pc' = "serial"
    /\ UNCHANGED <<network, checks, firmware, restartAt, events>>

(***************************************************************************)
(* Firmware updates.                                                        *)
(***************************************************************************)

\* Mutant: any lower part makes a version the older one.
CompareSemver_Unordered(left, right) ==
    IF \E i \in 1..3 : left[i] < right[i] THEN -1 ELSE IF left = right THEN 0 ELSE 1

\* compareSemver() on versions that parse.
CompareSemver(left, right) ==
    IF \E i \in 1..3 : left[i] # right[i]
    THEN LET i == CHOOSE i \in 1..3 :
                      left[i] # right[i] /\ \A j \in 1..(i - 1) : left[j] = right[j]
         IN  IF left[i] < right[i] THEN -1 ELSE 1
    ELSE 0

UpdateAvailable == CompareSemver(version, latest) < 0

\* fetchLatestReleaseJson() and parseLatestInfo() need Wi-Fi; that they fail
\* all the same is the update that does not start.
ReleaseKnown == link

\* performUpdate() up to the download: the check, which needs Wi-Fi and an
\* answer of the release API, decides on the release of this moment.
StartUpdate(task) ==
    /\ ReleaseKnown
    /\ UpdateAvailable
    /\ job[task] = None
    /\ job' = [job EXCEPT ![task] = latest]

\* Mutant: the boot loader is switched over without a complete image.
FinishUpdate_Unchecked(task) ==
    /\ installed' = job[task]
    /\ job' = [job EXCEPT ![task] = None]

\* The rest of performUpdate(): the image is written and made the next to start.
FinishUpdate(task) ==
    /\ job[task] # None
    /\ installed' = job[task]
    /\ job' = [job EXCEPT ![task] = None]

\* Any failure on the way leaves the installed image alone.
FailUpdate(task) ==
    /\ job[task] # None
    /\ job' = [job EXCEPT ![task] = None]
    /\ UNCHANGED installed

\* ota-update or POST /ota/update in the loop task.  After a success the
\* handler waits 150 ms and restarts the device.
LoopUpdateStarts ==
    /\ Event
    /\ StartUpdate("loop")
    /\ pc' = "update"
    /\ after' = AfterRequest
    /\ UNCHANGED <<network, checks, version, installed, latest, restartAt>>

LoopUpdateEnds ==
    /\ At("update")
    /\ \/ FinishUpdate("loop") /\ pc' = "restart"
       \/ FailUpdate("loop") /\ pc' = after
    /\ UNCHANGED <<network, checks, version, latest, after, restartAt, events>>

RestartAfterUpdate == At("restart") /\ Restart /\ UNCHANGED events

\* handleEspNowOtaUpdate() in the Wi-Fi task, at any point of the loop's pass.
\* The node that installs the image is not restarted by it.
EspUpdateStarts ==
    /\ Running
    /\ Event
    /\ StartUpdate("wifi")
    /\ UNCHANGED <<pc, network, checks, version, installed, latest, after, restartAt>>

EspUpdateEnds ==
    /\ Running
    /\ FinishUpdate("wifi") \/ FailUpdate("wifi")
    /\ UNCHANGED <<pc, network, checks, version, latest, after, restartAt, events>>

\* handleEspNowOtaResult() in the Wi-Fi task: a peer says it has updated.
PeerUpdated == Event /\ Restart

(***************************************************************************)
(* One pass of loop().                                                      *)
(***************************************************************************)

\* requestRebootCommand() and scheduleUnifiedRestart(): now and later requests
\* set the time anew.
RestartRequest(timer) ==
    /\ Event
    /\ restartAt' = [restartAt EXCEPT ![timer] = "waiting"]
    /\ pc' = AfterRequest
    /\ UNCHANGED <<network, checks, firmware>>

\* forceReconnect(): the link is taken down, and comes up again by itself.
Reconnect ==
    /\ Event
    /\ link' = FALSE
    /\ pc' = AfterRequest
    /\ UNCHANGED <<hostname, stored, mdns, web, checks, firmware, restartAt>>

\* Commands reach the router from the serial line, the schedule and the web.
Command ==
    /\ \/ pc \in {"serial", "schedule"}
       \/ pc = "web" /\ web
    /\ RestartRequest("reboot") \/ LoopUpdateStarts \/ Reconnect

\* Steps of the pass with nothing to do for this module.
Idle ==
    /\ pc \in {"serial", "schedule", "web", "session"}
    /\ Proceed
    /\ UNCHANGED <<network, checks, firmware, restartAt, events>>

\* buttonManager.update(): the reset button restarts the device; the BOOT
\* button first clears the saved settings (clearUserSettings()).
PollButtons ==
    /\ At("buttons")
    /\ \/ Proceed /\ UNCHANGED <<network, checks, firmware, restartAt>>
       \/ Restart
       \/ Reboot(DefaultName)
    /\ UNCHANGED events

\* maintainMdns() and beginIfNeeded(); MDNS.begin() may fail.
MdnsStarts == link /\ mdns = None /\ mdns' = hostname
MdnsFails  == link /\ mdns = None /\ mdns' = None
MdnsStays  == link /\ mdns # None /\ mdns' = mdns
MdnsStops  == ~link /\ mdns' = None

Net(mdnsStep) ==
    /\ At("net")
    /\ mdnsStep
    /\ web' = (web \/ link)
    /\ Proceed
    /\ UNCHANGED <<link, hostname, stored, checks, firmware, restartAt, events>>

\* POST /hostname: updateDeviceHostname().  The key may not get written, and
\* mDNS may not come up again; neither stops the rename.
SetHostname(name) ==
    /\ At("web")
    /\ web
    /\ Event
    /\ IF name = hostname
       THEN UNCHANGED <<hostname, stored, link, mdns>>
       ELSE /\ hostname' = name
            /\ stored' \in {stored, name}
            /\ IF link THEN link' = FALSE /\ mdns' \in {None, name}
                       ELSE UNCHANGED <<link, mdns>>
    /\ Proceed
    /\ UNCHANGED <<web, checks, firmware, restartAt>>

\* POST /config restarts the device after it has saved, whatever it saved.
SaveConfig(name) ==
    /\ At("web")
    /\ web
    /\ Event
    /\ \E kept \in {stored, name} : Reboot(kept)

\* A restart message of the Unified Server.
ServerRestart == At("session") /\ RestartRequest("unified")

BootCheckDue == pending /\ ~attempted /\ link

\* Mutant: the one attempt is spent before there is Wi-Fi.
BootCheck_Spent ==
    /\ pending' = (pending /\ ~BootCheckDue)
    /\ attempted' = TRUE

\* maybeRunBootOtaCheck(): one check, its result does not matter.
BootCheck ==
    /\ pending' = (pending /\ ~BootCheckDue)
    /\ attempted' = (attempted \/ BootCheckDue)

\* Mutant: the server's restart is not looked at.
AnyDue_RebootOnly == restartAt["reboot"] = "due"

AnyDue == \E t \in Timers : restartAt[t] = "due"

Tail ==
    /\ At("tail")
    /\ ~AnyDue
    /\ BootCheck
    /\ Proceed
    /\ UNCHANGED <<network, firmware, restartAt, events>>

TailRestart == At("tail") /\ AnyDue /\ Restart /\ UNCHANGED events

(***************************************************************************)
(* The world.                                                               *)
(***************************************************************************)

RestartDue(timer) ==
    /\ Running
    /\ restartAt[timer] = "waiting"
    /\ restartAt' = [restartAt EXCEPT ![timer] = "due"]
    /\ UNCHANGED <<pc, network, checks, firmware, events>>

LinkUp ==
    /\ Running
    /\ ~link
    /\ link' = TRUE
    /\ UNCHANGED <<pc, hostname, stored, mdns, web, checks, firmware, restartAt, events>>

LinkDown ==
    /\ link
    /\ link' = FALSE
    /\ UNCHANGED <<pc, hostname, stored, mdns, web, checks, firmware, restartAt, events>>

\* A release is published, or the newest one is withdrawn.
Publish(v) ==
    /\ v # latest
    /\ latest' = v
    /\ UNCHANGED <<pc, network, checks, version, installed, job, after, restartAt, events>>

PowerCycle == Event /\ Restart

Init ==
    /\ pc = "boot"
    /\ link = FALSE
    /\ hostname = DefaultName
    /\ stored = DefaultName
    /\ mdns = None
    /\ web = FALSE
    /\ version = FirstVersion
    /\ installed = FirstVersion
    /\ latest = FirstVersion
    /\ job = [t \in Tasks |-> None]
    /\ after = "serial"
    /\ pending = TRUE
    /\ attempted = FALSE
    /\ restartAt = [t \in Timers |-> "none"]
    /\ events = 0

LoopStep ==
    \/ Setup
    \/ Command
    \/ Idle
    \/ PollButtons
    \/ Net(MdnsStarts) \/ Net(MdnsFails) \/ Net(MdnsStays) \/ Net(MdnsStops)
    \/ \E name \in Names : SetHostname(name) \/ SaveConfig(name)
    \/ ServerRestart
    \/ Tail
    \/ TailRestart
    \/ LoopUpdateEnds
    \/ RestartAfterUpdate

WifiTask == EspUpdateStarts \/ EspUpdateEnds \/ PeerUpdated

World ==
    \/ \E t \in Timers : RestartDue(t)
    \/ LinkUp
    \/ LinkDown
    \/ \E v \in Versions : Publish(v)
    \/ PowerCycle

Next == LoopStep \/ WifiTask \/ World

Spec == Init /\ [][Next]_vars

\* The loop comes round, time passes, and MDNS.begin() does not fail for ever.
Fairness ==
    /\ WF_vars(LoopStep)
    /\ \A t \in Timers : WF_vars(RestartDue(t))
    /\ SF_vars(Net(MdnsStarts))

FairSpec == Spec /\ Fairness

(***************************************************************************)
(* Properties.                                                              *)
(***************************************************************************)

\* Every variable stays in its range.
TypeOK ==
    /\ pc \in DOMAIN NextStep \cup {"boot", "update", "restart"}
    /\ link \in BOOLEAN
    /\ {hostname, stored} \subseteq Names
    /\ mdns \in Names \cup {None}
    /\ web \in BOOLEAN
    /\ {version, installed, latest} \subseteq Versions
    /\ job \in [Tasks -> Versions \cup {None}]
    /\ after \in DOMAIN NextStep
    /\ {pending, attempted} \subseteq BOOLEAN
    /\ restartAt \in [Timers -> {"none", "waiting", "due"}]
    /\ events \in 0..MaxEvents

\* The order of releases, written down without compareSemver(); every part of
\* a version number of the instance is below 100.
Rank(v) == 10000 * v[1] + 100 * v[2] + v[3]

\* Whatever is published or withdrawn, and however the updates of the two
\* tasks cross each other and the restarts, the device never goes back to an
\* older firmware.
NeverOlder == [][Rank(version') >= Rank(version)]_vars

\* A reboot that a command or the server asked for happens, also when a later
\* request or an update comes in between.
RestartHappens == \A t \in Timers : restartAt[t] # "none" ~> ~Running

\* Once the Wi-Fi link stays up, the device is reachable by name and by HTTP
\* and has made its update check, whatever happened before.
ServicesComeUp == <>[]link => <>[](mdns # None /\ web /\ ~pending)
=============================================================================
