--------------------------- MODULE NetworkSettings ---------------------------
(***************************************************************************)
(* What the device keeps to find its network and the time: the Wi-Fi       *)
(* credentials and the link (WiFiManager.cpp), the time settings and what  *)
(* SNTP was told (TimeSyncManager.cpp), and the web handlers that change   *)
(* them (POST /config and /time/config of WebControlServer.cpp).           *)
(*                                                                         *)
(* Everything runs in the loop task. A handler is a job: a sequence of     *)
(* steps, each followed by the flash writes it started. A reset may come   *)
(* between any two. Names, passwords, servers and zones are model values.  *)
(* What is only reported (whether the clock is set, the time and status of *)
(* the last synchronisation) is left out.                                  *)
(***************************************************************************)
EXTENDS Integers, Sequences

CONSTANTS
    Networks, Passwords,
    Key,            \* the password of each network
    DefaultWifi,    \* WIFI_SSID, WIFI_PASS
    Servers, Zones,
    DefaultServer, DefaultZone, \* TIME_SERVER_DEFAULT, TIME_TZ_DEFAULT
    None,
    MaxResets       \* bound: resets, refusals of NVS and lost writes

ASSUME NetworkAssumption ==
    /\ Key \in [Networks -> Passwords]
    /\ DefaultWifi \in [ssid : Networks, pass : Passwords]
    /\ DefaultServer \in Servers /\ DefaultZone \in Zones
    /\ None \notin Networks \cup Passwords \cup Servers \cup Zones \cup BOOLEAN
    /\ MaxResets \in Nat

VARIABLES
    wifi,       \* wifiSsid, wifiPassword
    target,     \* what WiFi.begin() was last called with
    link,       \* the network the station is in, or None
    retryDue,   \* 15 s have passed since lastWifiRetry
    aps,        \* the networks on the air
    timeSync,   \* syncEnabled, ntpServer, tzRule
    sntp,       \* what configTzTime() was last called with, or None
    syncDue,    \* the interval has passed since lastSyncAttemptMs
    flash,      \* the keys of the namespaces wifi_cfg and time_cfg
    puts,       \* flash writes that remain of the step before
    job,        \* steps that remain of the handler, the first one next
    resets,     \* counts resets, refusals and lost writes
    entered,    \* history: the settings the user gave last, or the defaults
    unsaved     \* history, per namespace: they may not have reached flash, or not RAM

radio   == <<target, link, retryDue, aps>>
clock   == <<timeSync, sntp, syncDue>>
record  == <<entered, unsaved>>
netVars == <<wifi, radio, clock, flash, puts, job, resets, record>>

WifiKeys == {"ssid", "pass", "profile"}
Fields == {"enabled", "server", "zone"}
Keys == WifiKeys \cup Fields
Credentials == [ssid : Networks, pass : Passwords]
TimeSettings == [enabled : BOOLEAN, server : Servers, zone : Zones]
DefaultTime == [enabled |-> TRUE, server |-> DefaultServer, zone |-> DefaultZone]
Rule(t) == [server |-> t.server, zone |-> t.zone]

\* WIFI_CREDENTIALS_PROFILE_VERSION, and any other value of the key.
Current == "current"
Foreign == "foreign"

Idle == puts = <<>> /\ job = <<>>

\* The next step of the job may run.
Step(kind) == puts = <<>> /\ job # <<>> /\ Head(job).do = kind

WifiPuts(c) == <<<<"ssid", c.ssid>>, <<"pass", c.pass>>, <<"profile", Current>>>>
TimePuts(t) == <<<<"server", t.server>>, <<"zone", t.zone>>, <<"enabled", t.enabled>>>>

\* preferences.begin() fails, or a put does.
Refusal == resets < MaxResets /\ resets' = resets + 1

Unsave(key) ==
    unsaved' = IF key \in WifiKeys THEN [unsaved EXCEPT !.wifi = TRUE]
                                   ELSE [unsaved EXCEPT !.time = TRUE]

\* No put is checked: one that does not reach flash changes nothing, and the rest goes on.
PutNext ==
    /\ puts # <<>>
    /\ puts' = Tail(puts)
    /\ \/ flash' = [flash EXCEPT ![Head(puts)[1]] = Head(puts)[2]] /\ UNCHANGED <<resets, unsaved>>
       \/ Refusal /\ UNCHANGED flash /\ Unsave(Head(puts)[1])
    /\ UNCHANGED <<wifi, radio, clock, job, entered>>

-----------------------------------------------------------------------------
(* The radio, and the networks around it. *)

\* WiFi.begin(), and the automatic reconnection of the library.
Join ==
    /\ link = None
    /\ target.ssid \in aps /\ target.pass = Key[target.ssid]
    /\ link' = target.ssid
    /\ UNCHANGED <<wifi, target, retryDue, aps, clock, flash, puts, job, resets, record>>

\* Networks come and go; a short gap may pass without any of them going.
LinkLost(now) ==
    /\ aps' = now
    /\ link' = None
    /\ aps # now \/ link # None
    /\ UNCHANGED <<wifi, target, retryDue, clock, flash, puts, job, resets, record>>

NetworksChange(now) ==
    /\ link \in now \cup {None}
    /\ now # aps /\ aps' = now
    /\ UNCHANGED <<wifi, target, link, retryDue, clock, flash, puts, job, resets, record>>

RetryTime ==
    /\ ~retryDue /\ retryDue' = TRUE
    /\ UNCHANGED <<wifi, target, link, aps, clock, flash, puts, job, resets, record>>

\* Mutant: WiFi.begin() without arguments, which repeats the last attempt.
MaintainWifi_SameTarget ==
    /\ Idle /\ link = None /\ retryDue
    /\ retryDue' = FALSE
    /\ UNCHANGED <<wifi, target, link, aps, clock, flash, puts, job, resets, record>>

MaintainWifi ==
    /\ Idle /\ link = None /\ retryDue
    /\ target' = wifi
    /\ retryDue' = FALSE
    /\ UNCHANGED <<wifi, link, aps, clock, flash, puts, job, resets, record>>

ForceReconnect == target' = wifi /\ link' = None

\* The serial command.
Reconnect ==
    /\ Idle
    /\ ForceReconnect
    /\ UNCHANGED <<wifi, retryDue, aps, clock, flash, puts, job, resets, record>>

-----------------------------------------------------------------------------
(* POST /config: the credentials first, then the other settings. *)

Blank == "blank"

\* setCredentials(): a blank password keeps the one there is.
ConfigSave(ssid, pass) ==
    LET c == [ssid |-> ssid, pass |-> IF pass = Blank THEN wifi.pass ELSE pass]
    IN  /\ Idle /\ link # None
        /\ wifi' = c
        /\ entered' = [entered EXCEPT !.wifi = c]
        /\ \/ puts' = WifiPuts(c) /\ unsaved' = [unsaved EXCEPT !.wifi = FALSE] /\ UNCHANGED resets
           \/ Refusal /\ puts' = <<>> /\ unsaved' = [unsaved EXCEPT !.wifi = TRUE]
        /\ job' = <<[do |-> "settings"]>>
        /\ UNCHANGED <<radio, clock, flash>>

\* One of the other settings is refused: 400, and the credentials stay, in RAM and flash.
ConfigRefused ==
    /\ Step("settings")
    /\ job' = <<>>
    /\ UNCHANGED <<wifi, radio, clock, flash, puts, resets, record>>

\* They are accepted. The handler reconnects itself, or through a new host name, or not at all.
ConfigAccepted ==
    /\ Step("settings")
    /\ ForceReconnect \/ UNCHANGED <<target, link>>
    /\ job' = <<[do |-> "restart"]>>
    /\ UNCHANGED <<wifi, retryDue, aps, clock, flash, puts, resets, record>>

-----------------------------------------------------------------------------
(* TimeSyncManager *)

\* applyTimeConfig() and the attempt; getLocalTime() only waits.
ForceSync ==
    IF timeSync.enabled THEN sntp' = Rule(timeSync) /\ syncDue' = FALSE
                        ELSE UNCHANGED <<sntp, syncDue>>

\* POST /time/config with any of its fields: one setter for each, in this order.
Setter(change, f) ==
    IF f \in DOMAIN change THEN <<[do |-> "set", field |-> f, value |-> change[f]]>> ELSE <<>>

Setters(change) ==
    Setter(change, "enabled") \o Setter(change, "server") \o Setter(change, "zone")

TimeConfigSave(change) ==
    /\ Idle /\ link # None
    /\ job' = Setters(change)
    /\ entered' = [entered EXCEPT !.time =
                      [f \in Fields |-> IF f \in DOMAIN change THEN change[f] ELSE timeSync[f]]]
    /\ unsaved' = [unsaved EXCEPT !.time = (unsaved.time /\ DOMAIN change # Fields)]
    /\ UNCHANGED <<wifi, radio, clock, flash, puts, resets>>

\* setEnabled(), setServer() and setTimezone() up to their save, which writes all keys.
SetField ==
    /\ Step("set")
    /\ timeSync' = [timeSync EXCEPT ![Head(job).field] = Head(job).value]
    /\ \/ puts' = TimePuts(timeSync') /\ UNCHANGED <<resets, unsaved>>
       \/ Refusal /\ puts' = <<>> /\ unsaved' = [unsaved EXCEPT !.time = TRUE]
    /\ job' = <<[do |-> "apply"]>> \o Tail(job)
    /\ UNCHANGED <<wifi, radio, sntp, syncDue, flash, entered>>

\* Mutant: SNTP is configured only once.
Apply_Once ==
    /\ Step("apply")
    /\ IF timeSync.enabled /\ sntp = None THEN ForceSync ELSE UNCHANGED <<sntp, syncDue>>
    /\ job' = Tail(job)
    /\ UNCHANGED <<wifi, radio, timeSync, flash, puts, resets, record>>

\* ... and what follows it.
Apply ==
    /\ Step("apply")
    /\ ForceSync
    /\ job' = Tail(job)
    /\ UNCHANGED <<wifi, radio, timeSync, flash, puts, resets, record>>

\* POST /time/sync
SyncNow ==
    /\ Idle /\ link # None
    /\ ForceSync
    /\ UNCHANGED <<wifi, radio, timeSync, flash, puts, job, resets, record>>

MaintainTime ==
    /\ Idle /\ timeSync.enabled /\ link # None /\ syncDue
    /\ ForceSync
    /\ UNCHANGED <<wifi, radio, timeSync, flash, puts, job, resets, record>>

SyncTime ==
    /\ ~syncDue /\ syncDue' = TRUE
    /\ UNCHANGED <<wifi, radio, timeSync, sntp, flash, puts, job, resets, record>>

-----------------------------------------------------------------------------
(* Restarts *)

\* Mutant: a string that was never written has no default.
Stored_NoDefault(key, default) ==
    IF key = "enabled" /\ flash[key] = None THEN default ELSE flash[key]

Stored(key, default) == IF flash[key] = None THEN default ELSE flash[key]

\* loadCredentials(): credentials of another profile give way to the compiled ones.
LoadWifi(readable) ==
    LET c == IF readable /\ flash["profile"] = Current
             THEN [ssid |-> Stored("ssid", DefaultWifi.ssid),
                   pass |-> Stored("pass", DefaultWifi.pass)]
             ELSE DefaultWifi
    IN  /\ wifi' = c
        /\ target' = c
        /\ puts' = IF readable /\ flash["profile"] # Current THEN WifiPuts(c) ELSE <<>>

\* loadSettings() and begin().
LoadTime(readable) ==
    LET t == IF readable
             THEN [f \in Fields |-> Stored(f, DefaultTime[f])]
             ELSE DefaultTime
    IN  /\ timeSync' = t
        /\ sntp' = IF t.enabled THEN Rule(t) ELSE None

Boot(wifiReadable, timeReadable) ==
    /\ LoadWifi(wifiReadable)
    /\ LoadTime(timeReadable)
    /\ link' = None
    /\ retryDue' = FALSE /\ syncDue' = FALSE
    /\ job' = <<>>
    /\ UNCHANGED <<aps, flash>>

Restart ==
    /\ Step("restart")
    /\ Boot(TRUE, TRUE)
    /\ UNCHANGED <<resets, record>>

\* Of a save the user asked for; begin() writes the defaults outside any job.
Pending(keys) == job # <<>> /\ \E i \in DOMAIN puts : puts[i][1] \in keys

\* A reset cuts off what was going on; a namespace that cannot be opened gives the defaults.
Reset(wifiReadable, timeReadable) ==
    /\ resets < MaxResets /\ resets' = resets + 1
    /\ Boot(wifiReadable, timeReadable)
    /\ unsaved' = [wifi |-> unsaved.wifi \/ ~wifiReadable \/ Pending(WifiKeys),
                   time |-> \/ unsaved.time \/ ~timeReadable \/ Pending(Fields)
                            \/ \E i \in DOMAIN job : job[i].do = "set"]
    /\ UNCHANGED entered

\* clearUserSettings(), then a restart; a namespace may fail to clear.
FactoryReset(clearsWifi, clearsTime) ==
    /\ Idle
    /\ flash' = [k \in Keys |-> IF k \in WifiKeys THEN (IF clearsWifi THEN None ELSE flash[k])
                                                  ELSE (IF clearsTime THEN None ELSE flash[k])]
    /\ entered' = [wifi |-> IF clearsWifi THEN DefaultWifi ELSE entered.wifi,
                   time |-> IF clearsTime THEN DefaultTime ELSE entered.time]
    /\ unsaved' = [wifi |-> unsaved.wifi /\ ~clearsWifi, time |-> unsaved.time /\ ~clearsTime]
    /\ job' = <<[do |-> "restart"]>>
    /\ UNCHANGED <<wifi, radio, clock, puts, resets>>

-----------------------------------------------------------------------------
\* Switched on for the first time, or after an update that changed the compiled profile.
NetInit ==
    /\ \E profile \in {None, Foreign} :
           flash = [k \in Keys |-> IF k = "profile" THEN profile ELSE None]
    /\ wifi = DefaultWifi /\ target = DefaultWifi /\ link = None
    /\ retryDue = FALSE
    /\ aps = Networks
    /\ timeSync = DefaultTime /\ sntp = Rule(DefaultTime)
    /\ syncDue = FALSE
    /\ puts = WifiPuts(DefaultWifi) /\ job = <<>>
    /\ resets = 0
    /\ entered = [wifi |-> DefaultWifi, time |-> DefaultTime]
    /\ unsaved = [wifi |-> FALSE, time |-> FALSE]

\* What both halves need.
DeviceNext ==
    \/ PutNext \/ Join \/ Restart
    \/ \E w, t \in BOOLEAN : Reset(w, t) \/ FactoryReset(w, t)

WifiNext ==
    \/ \E now \in SUBSET Networks : LinkLost(now) \/ NetworksChange(now)
    \/ RetryTime \/ MaintainWifi \/ Reconnect
    \/ \E ssid \in Networks, pass \in Passwords \cup {Blank} : ConfigSave(ssid, pass)
    \/ ConfigRefused \/ ConfigAccepted

TimeNext ==
    \/ \E given \in SUBSET Fields \ {{}} : \E new \in TimeSettings :
           TimeConfigSave([f \in given |-> new[f]])
    \/ SetField \/ Apply
    \/ SyncNow \/ MaintainTime \/ SyncTime

NetNext == DeviceNext \/ WifiNext \/ TimeNext

\* The loop task goes on; 15 s pass; an attempt with the right password at a network that stays
\* on the air succeeds within them.
LoopGoesOn == PutNext \/ Restart \/ ConfigRefused \/ ConfigAccepted \/ SetField \/ Apply

NetFairness ==
    /\ WF_netVars(LoopGoesOn)
    /\ WF_netVars(RetryTime) /\ WF_netVars(MaintainWifi)
    /\ WF_netVars(Join)

NetSpec == NetInit /\ [][NetNext]_netVars /\ NetFairness

-----------------------------------------------------------------------------
Optional(S) == S \cup {None}
FlashTypes == [ssid : Optional(Networks), pass : Optional(Passwords),
               profile : Optional({Current, Foreign}),
               enabled : Optional(BOOLEAN), server : Optional(Servers), zone : Optional(Zones)]

\* Type invariant; the device never runs without credentials or a rule.
NetTypeOK ==
    /\ wifi \in Credentials /\ target \in Credentials
    /\ link \in Networks \cup {None} /\ aps \subseteq Networks
    /\ timeSync \in TimeSettings /\ sntp \in [server : Servers, zone : Zones] \cup {None}
    /\ retryDue \in BOOLEAN /\ syncDue \in BOOLEAN
    /\ flash \in FlashTypes
    /\ Len(puts) <= 3 /\ Len(job) <= 3
    /\ entered \in [wifi : Credentials, time : TimeSettings]
    /\ unsaved \in [wifi : BOOLEAN, time : BOOLEAN]

\* The network the user named last is there and the password fits, from some time on, and no
\* reset or NVS failure cut the save off: then the device is in a network again and again,
\* whatever drops, restarts, refused or factory reset settings came before. It does not follow
\* that it is that network: a refused POST /config leaves the old link until it drops.
RejoinsNetwork ==
    <>[](/\ entered.wifi.ssid \in aps /\ Key[entered.wifi.ssid] = entered.wifi.pass
         /\ ~unsaved.wifi)
        => []<>(link # None)

\* Between handlers, the time settings are those the user gave last, and while they say that
\* the clock is synchronised SNTP works with their server and zone: the events of the schedule
\* are due in that zone and no other, also after the switch was off while they changed, and
\* after restarts. Switching off stops nothing: SNTP then goes on with what it was told before,
\* until a restart, and of that nothing is said here.
ClockFollowsSettings ==
    Idle /\ ~unsaved.time =>
        /\ timeSync = entered.time
        /\ timeSync.enabled => sntp = Rule(timeSync)
=============================================================================
