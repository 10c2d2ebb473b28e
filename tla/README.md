# A TLA+ model of ContactorRelays

The firmware in `src/` runs a mains relay on an ESP32-C3: a push button, HTTP, a WebSocket to a
"Unified Server", a weekly schedule and ESP-NOW peers command it, an auto-off timer guards it,
and its state has to survive resets at any moment. Most of the code is plain; the hard part is
what happens *between* two statements: a reset between two flash writes, Wi-Fi that goes between
two steps of `loop()`, a receive callback that runs in another task, a clock that is set by an
hour, a web page whose timers and clicks run past each other. This directory models those parts in
TLA+ (ten models and two abstract specifications), checks them with TLC on small instances and
proves every safety property of all ten, and both refinements, with TLAPS.

Paths below are relative to the firmware's `src/` directory (`main.cpp` is `src/main.cpp` of the
repository).

## 1. Inventory

### Tasks and their interaction

There is one *loop task*: `setup()` and then `loop()` for ever (`main.cpp:1397-1576`). HTTP
handlers, WebSocket messages, scheduled and serial commands, and button callbacks are all called
from it, one at a time, and may block it for seconds (OTA download, redirects, `getLocalTime`,
`forceReconnect`). The *Wi-Fi task* of the ESP32 runs `EspNowDiscoveryBridge::onDataRecv()` and,
inside it, checks and whole firmware updates; nothing is locked. A reset (power, watchdog,
brownout, `ESP.restart()` from eight places) may come anywhere.

| Component | State | Operations | Hard behaviour | What makes it correct |
|---|---|---|---|---|
| Relay controller (`RelayController.cpp`) | relay, timeout, timer (`armed`, two deadlines, remaining seconds), five NVS keys | `begin`, `set`, `toggle`, `setAutoOffMinutes`, `maintain` | resets between two of five puts; unset and stepped clocks; 32-bit milliseconds | an energised relay with a timeout has its timer; what a returned command did is in flash; what was switched off stays off; the timer neither fires early nor gets lost |
| Reset diagnostics (`ResetDiagnostics.cpp`) | reset reason | force the relay off at boot | reset again before the override was saved | off after a brownout, and stays off |
| Calibration storage (`CalibrationRecordStorage.cpp`, `TemperatureCalibrationRecord.cpp`) | two record slots with generations, a v2 blob, eight legacy keys | load, migrate, verified write, mirrors | reset inside a write; generation wrap; failed writes | behaves as one record replaced as a whole |
| Temperature probe (`TemperatureProbeManager.cpp`, `ProbePresenceFilter.cpp`) | calibration in RAM, sample counters, presence, raw values | setters, captures, `maintain` | a setter changes RAM, filter and reading first and undoes them when the save fails; settings are loaded by the first setter | RAM and flash agree; the reading is what the samples say |
| Schedule (`ScheduleManager.cpp`) | table of ten events, next id, clock stamps | add, update, delete, weekly OTA event, dispatch | reset between eleven unchecked puts; commands that restart the device while slots are walked; local time that repeats | unique ids, nothing in RAM only but what flash lost, no event twice in a minute |
| ESP-NOW bridge (`discovery/espnow_discovery_bridge.cpp`) | ring of eight seen ids, pending advertisement | send, relay and carry out OTA commands; results; advertise | two tasks; copies lost, late and duplicated | a command is carried out once; flooding ends |
| UDP discovery (`discovery/udp_discovery.cpp`) | multicast socket, pending flag, Wi-Fi edge | advertise, `server_hello` | failing sends, Wi-Fi gaps | no change is lost to listeners |
| Unified client (`UnifiedServerClient.cpp`) | server, `connected`, heartbeat time | configure, register, publish, heartbeat, commands | socket and flag disagree; reconfigured in the middle of a pass | server's view is the relay's state |
| Buttons (`ButtonManager.cpp`) | last reading, stable state, debounce time per button; hold time | `begin`, `update` | chatter, a loop that samples late, finger on a button at boot | one callback per real press |
| OTA updates (`OtaUpdateManager.cpp`) | result of the last check | check, install | two tasks at once; a release withdrawn in between | never an older version |
| Main loop (`main.cpp`) | host name, mDNS flag, boot check flags, two pending restarts | `loop`, `setup`, settings | blocking steps, restarts from everywhere | restarts happen, services come up |
| Web server (`WebControlServer.cpp`) | `started` | routes to the operations above | several settings in one request, some saved when a later one fails | the operations' own properties |
| Web page (the script in `WebControlServer.cpp`) | what it shows, answers it still holds, the busy flag | functions behind the buttons, two polling timers | asynchronous functions interleave at each `await`; the flag is no count; answers fail or come late | the page ends up showing the device; every click on the trim counts |
| Commands (`CommandRouter.cpp`, `DeviceCommands.cpp`) | a constant table | dispatch | | |
| Wi-Fi manager (`WiFiManager.cpp`) | credentials, retry time, three NVS keys | `maintain`, `setCredentials`, `forceReconnect` | three puts without a check; a request that is refused after the credentials were taken | the device comes back to a network it was told of |
| Time sync (`TimeSyncManager.cpp`) | server, zone, switch, three NVS keys; what SNTP was told | setters, `forceSync`, `maintain` | one request is up to three setters with three unchecked saves | while sync is on SNTP follows the settings the user gave last |
| Manifest, build | none | | | not modelled |

Calls between components: every component that changes the relay goes through
`RelayController::set()`, whose callback sets the pending flags of UDP discovery and ESP-NOW and
publishes over the WebSocket (`onRelayStateChanged`). The schedule dispatches through
`CommandRouter`, so that a scheduled command may restart the device, start an update or toggle
the relay. An ESP-NOW command runs `OtaUpdateManager::performUpdate()`; its result restarts
peers. `server_hello` packets and web requests reconfigure the Unified client. `POST /config` goes to
the Wi-Fi manager first and then to the settings of `main.cpp`, and ends in a restart.

## 2. Modules

| Module | Models | Run by | Proved in |
|---|---|---|---|
| `RelayController` | relay, timer, NVS, boot decision | `RelayMC` | `RelayController_proofs` |
| `CalibrationRegister` | abstract: one durable record and the setter that replaces it | through `CalibrationStore` | |
| `CalibrationStore` | slots, migration, mirrors, setters; implements `CalibrationRegister` | `CalibrationMC` | `CalibrationStore_proofs` |
| `ScheduleManager` | table, edits, weekly event, dispatch, saves | `ScheduleMC` | `ScheduleManager_proofs` |
| `OtaService` | abstract: commands carried out by nodes, without any frames | through `EspNowBridge` | |
| `EspNowBridge` | OTA commands among several nodes; implements `OtaService` | `EspNowMC` | `EspNowBridge_proofs` |
| `StateReporting` | the composition of `loop()`, UDP discovery, ESP-NOW advertisement and Unified client around the relay's state | itself | `StateReporting_proofs` |
| `ButtonManager` | debouncing and holds | `InputsMC` | `Inputs_proofs` |
| `TemperatureProbe` | presence filter, reading, setters with their save and rollback | `InputsMC` | `Inputs_proofs` |
| `DeviceLoop` | the pass of `loop()`, restarts, updates, mDNS, host name, boot check | `DeviceMC` | `DeviceLoop_proofs` |
| `NetworkSettings` | credentials, the link, time settings, SNTP, the handlers that change them | `ConsoleMC` | `Console_proofs` |
| `WebConsole` | the functions and timers of the web page against the handlers | `ConsoleMC` | `Console_proofs` |

`InputsMC` and `ConsoleMC` put two models that share no state into one run: a variable `part` says
which of them moves while the others are at rest, so that the run explores their sum and not their
product. For the inputs `Composition` proves that this is sound: a behaviour of `InputsMC` is one of
each of the two.

Common conventions. An operation is one action that changes RAM (and GPIO) followed by one action
per flash write, because a reset can only be told apart there; `pc` says which write is next.
Records of variables group what a class keeps. `history` and `ghost` variables only serve
properties, and a definition that ends in a name like `_NoDedup` is a plausible slip of the code
kept to show that a property notices it; it is used by no specification. Strings, JSON, log
lines and the numbers of a calibration are reduced to what the properties tell apart.

### Correspondence in detail

**RelayController.** `Set(on)` (also `toggle()`), `SetAgain` (the state it already has) and
`SetAutoOffMinutes` are the operations; each ends in `Persist`, and the five `PersistKey` steps of
`persistState()` follow in the code's order (state, minutes, armed, epoch, remaining).
`LoadWithoutTimer`, `LoadExpired` and `LoadArmed` are `loadPersistedState()`, which normalises what
a cut-off save left; `ShouldForceRelayOff` is the decision of `ResetDiagnostics.cpp`, and
`ApplyOutput` drives the GPIO only at the end of the boot. `Expired` holds the two ways
`maintain()` finds the timeout over: by the wall clock if it is set, else by `millis()`. `off` and
`owed` are history: where it is kept that the relay was last switched off (nowhere, in RAM, in
flash), and for how long the last command promised it on. Time is
counted in units of one minute of the configured timeout, milliseconds modulo `MsWrap`.

**CalibrationStore.** A setter copies the fields (`prev`), changes RAM, writes the record to the
slot that is *not* the newest with the next generation, reads it back, then mirrors v2 and the
eight legacy keys one put at a time; a failed write restores RAM. A write cut off by a reset
leaves a blob that fails its CRC (`NoRecord`). `Newest` picks the newer by wrapping subtraction.
A load that cannot open NVS works on defaults and marks the manager loaded: the abstract register
calls this being *blind* and lets the next setter replace every field, because the code does. A
write that reached flash but could not be read back counts as failed in the code and is later
found by a boot; that needs reads that fail transiently and is left out.

**ScheduleManager.** Edits come from the web handlers; `Maintain` takes the minute once and walks
the slots with it (`RunSlot`, `SkipSlot`), a reset may come between two slots; `EndMaintain`
saves when a one-shot event was disabled. Saves walk the next id and the slots put by put; `PutKey`
lands or is lost, and nobody looks, so the loop goes on either way. `lost` is history: the keys whose
last put did not reach flash. Three things follow in the code and are named in the properties:
RAM and flash may differ in exactly those keys; a reset after a lost next id gives ids out again
(`restarted`); a one-shot event whose disabling was lost runs again (`spent` is set only when that put
lands). `MaxFaults` counts lost puts, saves and loads that cannot open NVS.
Recurring events are reduced to a minute modulo `Period`, the week of the code.

**EspNowBridge.** `SendCommand` and `RecordOwn` are two steps of the loop task (the id is
recorded after the frame went out); `Deliver` is `onDataRecv()` in the Wi-Fi task: relay, record,
start; `FinishCommand` ends the check or update that runs inside the callback. Frames are a set:
reordered, delayed and lost at will. Ids are the commands themselves. `OtaService` knows only which
commands were issued, what each node works at and which firmware it runs: sending issues a command,
a started callback is its `Begin`, everything on the air is a stutter.

**StateReporting.** `pc` follows `loop()`: head, UDP, ESP-NOW, WebSocket, heartbeat, then the edge
check, which asks for Wi-Fi twice (`EdgeCheck`, `EdgeStore`). Wi-Fi may change between any two.
`uni.connected` (the flag) and `socket` (the TCP session of the library) are separate variables.

**ButtonManager.** `Update(r)` polls all three buttons with a reading `r` that is arbitrary while
a contact chatters. `ResetButton` and `FactoryReset` are the callbacks that end in a restart,
`Begin` takes the levels at boot as they are. Differences of `millis()` are kept saturated.

**DeviceLoop.** One action per step of the pass; commands, web requests and server messages come
in at the steps that take them. `LoopUpdateStarts` ... `RestartAfterUpdate` is an update in the
loop task, `EspUpdateStarts`/`EspUpdateEnds` one in the Wi-Fi task at the same time. `installed`
is what the boot loader starts next, `version` what runs. A pending restart is `waiting` until its
time has come (`RestartDue`). `maintainMdns()` and `beginIfNeeded()` are one step: they ask for
Wi-Fi a few microseconds apart.

**TemperatureProbe.** `GoodSample`, `BadSample` and `StableRaw` are `ProbePresenceFilter`; `Sample` and
`MaintainDisabled` are `maintain()`. A setter loads (`LoadCalibration`), checks, changes RAM and saves
(`StartSave`), where `undo` holds what the C++ copies to locals: `SaveSucceeds` drops it, `SaveFails` puts back what the code puts
back. `stored` is the one record that `CalibrationStore` implements. `samples` is history: every
sample since the filter was last cleared, against which `Connected` defines presence a second time.

**NetworkSettings.** A handler is a `job`, a sequence of steps; each step is followed by the `puts`
it started, one key at a time, and a reset may come between any two. `ConfigSave` takes the
credentials before `ConfigRefused` or `ConfigAccepted` decides on the rest, as `handleConfigSave()`
does. `TimeConfigSave` is up to three setters, each of which saves all keys (`SetField`) before it
configures SNTP (`Apply`). `sntp` is what `configTzTime()` was last called with; switching sync off
leaves it as it is. A put that is lost goes unnoticed (`PutNext`). `entered` and `unsaved` are history:
what the user asked for, and whether a reset, a refusal or a lost put took it away.

**WebConsole.** A function of the page is the sequence of requests it awaits; `Click` starts it,
`Deliver` continues it with an answer, `Finish` and `Fail` are its `finally`. `queue` holds requests
at the device, `answers` those on their way back; taking any but the first of either is the network's
reordering. Panels are version numbers; the trim is a number because the page computes with the
value it shows. The panels followed are the ones the two timers poll, `time` and `trim`. A timer starts
a poll only once its previous one is over (`Poll`); `setInterval()` would not wait. A poll only shows
what it gets, and answers for one panel that overtake each other occur all the same, between a poll
and a function that asks for that panel.

## 3. Runs

| Run | Result | Distinct states | Shows |
|---|---|---|---|
| `relay` | holds | 1.23 M | `TimerGuardsOutput`, `StorageMirrorsRam`, `StaysOff`, `PromiseKept`, `AutoOffHappens` with resets anywhere, lost writes, an unset clock and one that is set back |
| `relay_early` | **violated** | | `PromiseKept` once SNTP may set the clock forward |
| `calibration_store` | holds | 590 k | `RamMatchesStorage`, `GenerationsAdjacent`, `MirrorsCovered`, and `ImplementsRegister`, the refinement |
| `calibration_boot` | **violated** | | after `setup()` nothing was loaded |
| `schedule` | holds | 8.31 M | `DistinctIds`, `SavedMatchesRam`, `RunsOncePerMinute`, `OneShotNeverRepeats`, with puts cut off and puts lost |
| `espnow` | holds | 972 k | `ImplementsOtaService`, the refinement, and `FloodEnds` |
| `espnow_restart` | **violated** | | a result restarts the node that has nothing to install |
| `reporting` | holds | 242 k | `NothingUntold`, `ServerInSync`, `ListenersAreTold` |
| `reporting_session` | **violated** | | a session that outlives a Wi-Fi gap is never used again |
| `inputs` | holds | 4.79 M | `AnswersAPress`, `SeenHoldIsReal` of the buttons; `ReadingMatchesHistory`, `DisabledReadsNothing` of the probe |
| `device` | holds | 434 k | `NeverOlder`, `RestartHappens`, `ServicesComeUp` |
| `console` | holds | 692 k | `TrimClicksAddUp`, `PageCatchesUp` of the page; `RejoinsNetwork`, `ClockFollowsSettings` of the settings |

Each takes between 15 seconds and two and a half minutes with two workers:
`tlc -workers 2 -config Inputs.cfg InputsMC` and so on; `PROJECT.json` pairs modules and
configurations.

### Bounds, and why they are enough

* `relay`: `MaxMinutes = 2` gives a timeout that is changed to a shorter, a longer and no timeout;
  `Horizon = 3` lets one run out, and a second one be armed, with resets in between; the millisecond
  word wraps after `MsWrap = 4`, within the run. A clock that is set may be set back to an earlier
  time that is still set; only a cold reset makes it "not set" again. `HasRoom` stops an arming that
  would need a clock value past `Horizon`, and nothing else. An arming whose `millis()` deadline lies
  across the wrap promises nothing (`Promised`): without a clock it is over at once, every 49 days.
* `calibration_store`: two fields are one that a setter changes and one that must stay; one of the
  four records is not valid, so legacy keys that cannot be migrated occur; five generations wrap
  within the run, and `GenMod > 3` is what the proof needs of 256.
* `schedule`: two slots hold the weekly event and another one; five ids wrap; three minutes with a
  period of two make the weekly event due twice. One failure of NVS (`MaxFaults = 1`) is enough for
  each of the cases the properties except: a lost next id, a lost slot, a save or a load that cannot
  open NVS; the proofs hold for any number. Edits and clock changes happen while the loop task is
  between operations (`MayEdit`), also after a save that failed.
* `espnow`: in a line of three nodes a command needs a relay and its copy comes back to the sender;
  `MaxHops = 2` as in `triggerEspNowOta()`; two commands, one for all nodes and one for one node,
  cross each other. `todo` bounds each to be sent once. A ring of three ids outlasts two commands,
  as eight do in use; with a ring of one `ImplementsOtaService` fails, as it must.
* `reporting`: two servers, so that one replaces the other mid-pass. Intervals are `due` flags.
* `inputs`: `Bounce < Debounce` and `Bounce < BootTicks` are assumptions of `ButtonManager`, the
  smallest values with `Debounce < Hold` are used; a blocked loop is a `Tick` without `Update`. The
  probe finds and loses presence after two samples (five in the code), of three raw values one below,
  two inside the range; five samples are enough for presence, loss, and presence again with a setter
  and a failed save anywhere.
* `console`: two functions of the page and both timers at once, two clicks, one of which may come
  after the network reordered or lost something, and one change or restart from outside. Two networks, passwords, servers and
  zones are one that is compiled in and one that is entered; two resets, refusals or lost puts reach a save
  that is cut off and whose successor is cut off too.
* `device`: `MaxEvents = 4` outside requests per behaviour: two updates with two restarts, or a
  rename with restarts. Three releases include the pair where the minor number grows and the patch
  number falls. Button restarts and Wi-Fi changes are not bounded.

### Fairness

The loop task is never blocked for ever, so each step of a pass is weakly fair; time passes.
Beyond that: `relay` assumes
that `maintain()` runs at least once while the timeout is over (strong fairness: it runs thousands of
times a minute); `espnow` that a frame on the air
arrives or is lost; `reporting` that a multicast send succeeds now and then, that the library
reconnects a closed session now and then and notices a broken one; `device` that `MDNS.begin()`
does not fail for ever while Wi-Fi is up. `ListenersAreTold` also needs the multicast group to be
joined when Wi-Fi comes up (`JoinMayFail = FALSE`): a join that fails is not tried again.

`console` assumes of the page that its timers go on and that not every poll fails (strong fairness of
handling and delivering a poll), and that a device that restarts comes up; no click has to be
answered. Of the network it assumes that 15 s pass, and that an attempt with the right password at a
network that stays on the air succeeds within them. Nothing makes a network stay: `RejoinsNetwork`
says so in its premise.

## 4. What was found

1. `RelayController.cpp:317` takes any `time() > 0` for a set clock. The ESP32 clock counts from 0
   at power-on, so a deadline armed before the first SNTP answer lies decades in the past
   afterwards, and the relay goes off at once (`relay_early`).
2. `TemperatureProbeManager::begin()` has no caller: until a setter runs, the device works on
   default calibration values and migrates nothing, against `README.md:201` (`calibration_boot`).
3. `main.cpp:972` prints "Update installed; rebooting device." in the nodes that *hear* a result.
   The node that installed goes on with its old firmware (`espnow_restart`).
4. `UnifiedServerClient.cpp:119` clears `connected` when Wi-Fi is gone; only a new session sets it
   again. A TCP session that outlives a short gap still takes commands but sends neither
   heartbeats nor state (`reporting_session`). That the session outlives the gap is an assumption
   about lwIP and the WebSocket library.

Seen while modelling, without a run: the "Backoff on failure too" of
`espnow_discovery_bridge.cpp:108` does not back off, the pending flag brings the next send in the
next pass; a loop blocked for five seconds between two taps on BOOT clears the settings
(`ButtonManager.cpp:126`, where `docs/WIRING.md:23` asks for a hold of five seconds; `SeenHoldIsReal`
therefore only speaks of a loop that samples in time); after a Wi-Fi gap that starts behind
`maintainMdns()` and ends before the next one, with `POST /hostname` in between, mDNS answers the
old name until Wi-Fi drops again (`main.cpp:561`); switching automatic updates on reports success
with a full schedule (`main.cpp:522`); the eleven puts of the schedule are not looked at
(`ScheduleManager.cpp:98`), so that a lost one gives an id out twice after a reset, brings a deleted
event back or lets a one-shot event run again, while `POST /schedule/*` reports success.

Of the web page: `setBusy()` sets a flag, and the buttons of `deleteEvent` and of the monitoring
switch are not among those it disables, so that two clicks on "+" around one of them are computed
from the same trim and one is lost (`WebControlServer.cpp:1107`; `TrimClicksAddUp` leaves those out);
`POST /config` is answered after the device began to restart, and the page may report a save that
happened as failed; a poll overwrites the time form while it is being filled in; a null temperature
shows as "0.00 C". Of the settings: a refused `POST /config` keeps the new credentials
(`WebControlServer.cpp:2152`); SNTP keeps running after time sync is switched off, because nothing
stops it; `resetCredentialsToDefaults()` has no caller; the lazy load leaves the reading of a probe
that is stored as switched off (`TemperatureProbeManager.cpp:232`).

## 5. Proofs

`tlapm <module>_proofs.tla` checks each file in seconds, `Console_proofs` in two minutes. The theorems hold for all values of the
constants that satisfy the named assumptions of the module.

| Theorem | States | Argument |
|---|---|---|
| `RelayController_proofs!TypeCorrect` | types | inductive, with lemmas on the timer and the puts |
| `TimerGuarded` | `[]TimerGuardsOutput`, also with lost writes and clock steps | `GuardInv`: the timer is armed exactly while RAM has the relay on with a timeout, and the GPIO is low until `begin()` ends |
| `StorageMirrored` | `[]StorageMirrorsRam` | `MirrorInv`: which keys agree after how many steps of the save, unless one was `lost` |
| `OffStays` | `[]StaysOff` | `OffInv`: a relay that is off is so in RAM, except between a brownout's load and its override, and in flash once the save of that decision (`MirrorInv`) has returned; the GPIO is low while the two may differ |
| `KeptPromise` | `[]PromiseKept` if the clock is not set forward | `OwedInv`: the deadline in use, by the clock or by `millis()`, and the stored one with its remaining time, lie at least what is owed ahead. The remaining time that `maintain()` computes in RAM may wrap and be too short when the clock was set back far; no save ever writes it. With `GuardInv` the GPIO follows RAM |
| `CalibrationStore_proofs!TypeCorrect`, `SlotsAdjacent`, `StorageAgrees`, `MirrorsAreCovered` | the run's invariants | `IInv`, with `WrittenIsNewest`: a record written over the older slot wins, for any modulus above 3 |
| `Refinement` | `Spec => ImplementsRegister` | every step of the store is a step of `CalibrationRegister` or a stutter |
| `ScheduleManager_proofs!Types` | types | by groups of variables; that a free slot is found needs a least one, by well-foundedness |
| `SavedIsRam`, `IdsAreDistinct` | `[]SavedMatchesRam`, `[]DistinctIds`, any number of puts lost | `SavedInv`: flash agrees up to the slot the save is at, but for the keys in `lost`; `IdInv`: ids in RAM, in flash and in any mixture of both are distinct and below the next one in RAM, and below the one in flash unless its put was lost, which the next reset counts as `restarted` |
| `RunsOnce` | `RunsOncePerMinute` | `RunInv`: a clock set back by less than the period meets only the last run's minute again (`Residue`) |
| `NoRepeat` | `OneShotNeverRepeats` | `SpentInv`: once the put of its end landed, a one-shot event that ran is off in RAM and in flash until the slot is edited, and no put that is lost or cut off later can enable it |
| `EspNowBridge_proofs!TypeCorrect`, `OnceOnly` | `[]TypeOK`, `CarriedOutOnce` if the ring holds every command once and a node's own twice (`RingOutlasts`) | `RingInv`: the ring is no longer than the ids received and sent since the restart, so nothing leaves it; the second place is for an own command whose copy came back before `RecordOwn` |
| `Implements` | `Spec => ImplementsOtaService` under `RingOutlasts` | every step is one of `OtaService` or a stutter; `Issued`: what is on the air or being worked at was sent by an operator before; `OnceOnly` gives `Begin` its guard |
| `StateReporting_proofs!TypeCorrect`, `AdvertisedOrPending`, `ServerKnows` | the run's invariants, for any set of servers | the three together are inductive |
| `Inputs_proofs!ButtonTypes`, `OnlyPressesAnswered` | `[]ButtonsTypeOK`, `[]AnswersAPress` | `ButtonsInv`: while no press waits, a reading that disagrees with the finger was taken during the last chatter and is younger than it, so `Bounce < Debounce` keeps it from being accepted; `Bounce < BootTicks` does the same for a press before a boot |
| `HoldIsReal` | `SeenHoldIsReal` if contacts chatter and a hold takes time (`0 < Bounce`, `0 < Hold`) | `HoldInv`: as long as every tick is sampled and the release is not accepted yet, the debouncer has read the contact open for as long as it has been open beyond its chatter, so that a release is accepted before it counts as long. Both hypotheses are needed: TLC finds a behaviour against the property with either at 0 |
| `Inputs_proofs!ProbeTypes`, `NoReadingWhenOff`, `ReadingFollowsHistory` | the probe's invariants, for histories of any length | `FilterInv`: each counter is the length of the last run of its kind, cut off at the limit; the same for what a failed save would restore |
| `DeviceLoop_proofs!Types`, `NoDowngrade` | `[]TypeOK`; `NeverOlder` for version parts below 100 (`SmallParts`) | `ReleaseInv`: what was found newer than the running version stays newer, whichever task installs first |
| `Composition` | `InputsSpec => ButtonsSpec /\ ProbeSpec` | a step of the composition is a step of one and leaves the other alone |
| `Console_proofs!NetTypes`, `ClockFollows` | `[]NetTypeOK`, `[]ClockFollowsSettings` | `ClockInv`: unless a write is known to be lost (`unsaved`), each field is in flash as entered, or its put or its setter is still to come; setters of one request are for different fields (`SettersList`) |
| `ConsoleTypes` | `[]ConsoleTypeOK` | `Flight`: a function that runs waits for exactly one request, queued or answered; `Content`: what it holds is what its requests read |
| `ClicksAddUp` | `TrimClicksAddUp` | `TrimInv`, while nothing was lost, overtaken or reset: at most one click runs, and `busy` says so; every answer not followed by that of a click, and then the page itself, carries the trim of the device, so that a request computed from it sets one more |

Only model-checked: liveness (`AutoOffHappens`, `FloodEnds`, `ListenersAreTold`, `RestartHappens`,
`ServicesComeUp`, `PageCatchesUp`, `RejoinsNetwork`), because fairness and `ENABLED` are beyond the
prover. The four violated properties are refuted by their runs; `PromiseKept` is proved under the
hypothesis that its run breaks. The theorems about the run `console` speak of `ConsoleSpec` and
`NetSpec`, its two parts: it moves one of them with the other in a state of rest.

## 6. Not modelled

Reading handlers, JSON and manifest building, the small second page, the look of the page, serial
line editing, scanning, URL parsing, semantic versions that do not parse, the interpolation from raw
values to degrees and the trim's share in it, calendar arithmetic (zones, summer time) beyond a clock
that repeats minutes, the saturating brownout counter (only shown), data races on `String` values and
on the UDP socket between the two tasks, the 49-day wrap of `millis()` outside the relay timer, NVS
reads that fail transiently, and what a node does with the ESP-NOW advertisements of others (it
forwards them over UDP from the Wi-Fi task, which is the data race above).

Overlapping polls of one timer of the page are not modelled either (section 2, `WebConsole`).

Known hazards without a property: eight, listed in `PROJECT.json` with the reason. Six of them are
modelled, but the code does what a property would forbid: a blind load that ends in a replaced
calibration or a replaced schedule, ids after their wrap, a weekly event that does not follow its
switch, the late Wi-Fi flag of an advertisement, and a multicast group that is not joined again. A
backoff that the pending flag undoes (section 4) and a calibration that is stored but reported as
failed are two more that only cost an extra packet and an extra click.

## 7. Plan

Done, in this order: relay and its NVS (what the device is for), calibration storage with its
abstract register, schedule, ESP-NOW, reporting, buttons, the loop around all of them; then the
probe, network and time settings, the web page, the proofs of section 5, the last of them the page,
the hold of the BOOT button, `OtaService` and the two promises of the relay (`StaysOff`,
`PromiseKept`). What would come next:

1. An abstract relay, on and off with a promise, that `RelayController` implements: `StaysOff`
   and `PromiseKept` as one specification.
2. The receiving side of ESP-NOW advertisements, once the forwarding has left the Wi-Fi task.
3. NVS reads that fail transiently, in `CalibrationStore`: a refinement in which a failed save may
   still be found by the next boot.
4. An abstract specification of a settings store (put by put against all at once) that both
   `RelayController` and `NetworkSettings` implement, as `CalibrationStore` does its register.
