-------------------------- MODULE DeviceLoop_proofs --------------------------
(* Theorems about DeviceLoop, for every set of host names and releases and    *)
(* any number of outside events.                                              *)
EXTENDS DeviceLoop, TLAPS

(***************************************************************************)
(* Types.                                                                   *)
(***************************************************************************)

NetworkType ==
    /\ link \in BOOLEAN /\ web \in BOOLEAN
    /\ hostname \in Names /\ stored \in Names /\ mdns \in Names \cup {None}

FirmwareType ==
    /\ version \in Versions /\ installed \in Versions /\ latest \in Versions
    /\ job \in [Tasks -> Versions \cup {None}]
    /\ after \in DOMAIN NextStep

ControlType == pc \in DOMAIN NextStep \cup {"boot", "update", "restart"}

CheckType == pending \in BOOLEAN /\ attempted \in BOOLEAN

TimerType == restartAt \in [Timers -> {"none", "waiting", "due"}]

EventType == events \in 0..MaxEvents

\* TypeOK by groups of variables, each of which some actions leave alone.
TypeInv == NetworkType /\ FirmwareType /\ ControlType /\ CheckType /\ TimerType /\ EventType

LEMMA TypeGroups == TypeInv => TypeOK
  BY DEF TypeInv, NetworkType, FirmwareType, ControlType, CheckType, TimerType, EventType, TypeOK

\* Where the pass goes on is always one of its steps.
LEMMA NextStepType ==
    /\ DOMAIN NextStep = {"serial", "buttons", "schedule", "net", "web", "session", "tail"}
    /\ \A p \in DOMAIN NextStep : NextStep[p] \in DOMAIN NextStep
  BY DEF NextStep

LEMMA EventCounts == TypeInv /\ Event => EventType'
  BY DeviceAssumption DEF TypeInv, EventType, Event

\* A restart leaves every variable in its range, the name being the one flash keeps or the default.
LEMMA ForgetTypes ==
    ASSUME TypeInv, NEW kept \in Names, Forget(kept)
    PROVE  /\ NetworkType' /\ ControlType' /\ CheckType' /\ TimerType'
           /\ version' \in Versions /\ job' \in [Tasks -> Versions \cup {None}]
           /\ after' \in DOMAIN NextStep
<1>1. NetworkType'
  <2>1. hostname' \in Names
    BY DeviceAssumption DEF Forget
  <2> QED
    BY <2>1 DEF Forget, NetworkType
<1>2. ControlType' /\ CheckType' /\ TimerType'
  BY DEF Forget, ControlType, CheckType, TimerType
<1>3. version' \in Versions /\ job' \in [Tasks -> Versions \cup {None}]
  BY DEF Forget, TypeInv, FirmwareType
<1>4. after' \in DOMAIN NextStep
  BY NextStepType DEF Forget
<1> QED
  BY <1>1, <1>2, <1>3, <1>4

LEMMA RebootTypes ==
    ASSUME TypeInv, NEW kept \in Names, Reboot(kept), Event \/ events' = events
    PROVE  TypeInv'
<1>1. EventType'
  BY EventCounts DEF TypeInv, EventType
<1>2. installed' \in Versions /\ latest' \in Versions
  BY DEF Reboot, TypeInv, FirmwareType
<1> QED
  BY <1>1, <1>2, ForgetTypes DEF Reboot, TypeInv, FirmwareType

LEMMA AfterRequestType == TypeInv /\ ControlType /\ pc \in DOMAIN NextStep
                              => AfterRequest \in DOMAIN NextStep
  BY NextStepType DEF AfterRequest

LEMMA CommandTypes == TypeInv /\ (Command \/ ServerRestart) => TypeInv'
<1> SUFFICES ASSUME TypeInv, Command \/ ServerRestart PROVE TypeInv'
  OBVIOUS
<1>1. AfterRequest \in DOMAIN NextStep
  BY NextStepType DEF Command, ServerRestart, At, AfterRequest
<1>2. ASSUME NEW t \in Timers, RestartRequest(t) PROVE TypeInv'
  <2>1. TimerType' /\ ControlType'
    BY <1>1, <1>2 DEF RestartRequest, TypeInv, TimerType, ControlType
  <2> QED
    BY <1>2, <2>1, EventCounts DEF RestartRequest, TypeInv, network, checks, firmware, NetworkType,
                                   FirmwareType, CheckType
<1>3. ASSUME LoopUpdateStarts PROVE TypeInv'
  <2>1. FirmwareType' /\ ControlType'
    BY <1>1, <1>3 DEF LoopUpdateStarts, StartUpdate, TypeInv, FirmwareType, ControlType
  <2> QED
    BY <1>3, <2>1, EventCounts DEF LoopUpdateStarts, TypeInv, network, checks, NetworkType,
                                   CheckType, TimerType
<1>4. ASSUME Reconnect PROVE TypeInv'
  BY <1>1, <1>4, EventCounts DEF Reconnect, TypeInv, checks, firmware, NetworkType, FirmwareType,
                                 ControlType, CheckType, TimerType
<1> QED
  BY <1>2, <1>3, <1>4 DEF Command, ServerRestart, Timers

NetStep == Net(MdnsStarts) \/ Net(MdnsFails) \/ Net(MdnsStays) \/ Net(MdnsStops)

LEMMA NetTypes == TypeInv /\ NetStep => TypeInv'
<1> SUFFICES ASSUME TypeInv, NetStep PROVE TypeInv'
  OBVIOUS
<1>1. /\ At("net") /\ Proceed /\ web' = (web \/ link)
      /\ UNCHANGED <<link, hostname, stored, checks, firmware, restartAt, events>>
  BY DEF NetStep, Net
<1>2. mdns' \in Names \cup {None}
  BY DEF NetStep, Net, MdnsStarts, MdnsFails, MdnsStays, MdnsStops, TypeInv, NetworkType
<1>3. NetworkType'
  BY <1>1, <1>2 DEF TypeInv, NetworkType
<1>4. ControlType'
  BY <1>1, NextStepType DEF At, Proceed, ControlType
<1> QED
  BY <1>1, <1>3, <1>4 DEF TypeInv, checks, firmware, FirmwareType, CheckType, TimerType, EventType

LEMMA WebTypes ==
    ASSUME TypeInv, NEW name \in Names, SetHostname(name) \/ SaveConfig(name)
    PROVE  TypeInv'
<1>1. CASE SetHostname(name)
  <2>1. NetworkType'
    BY <1>1 DEF SetHostname, TypeInv, NetworkType
  <2>2. ControlType'
    BY <1>1, NextStepType DEF SetHostname, At, Proceed, ControlType
  <2> QED
    BY <1>1, <2>1, <2>2, EventCounts DEF SetHostname, TypeInv, checks, firmware, FirmwareType,
                                         CheckType, TimerType
<1>2. CASE SaveConfig(name)
  BY <1>2, RebootTypes DEF SaveConfig, TypeInv, NetworkType
<1> QED
  BY <1>1, <1>2

LEMMA UpdateTypes ==
    TypeInv /\ (LoopUpdateEnds \/ EspUpdateStarts \/ EspUpdateEnds) => TypeInv'
<1> SUFFICES ASSUME TypeInv, LoopUpdateEnds \/ EspUpdateStarts \/ EspUpdateEnds PROVE TypeInv'
  OBVIOUS
<1>1. CASE LoopUpdateEnds
  <2>1. FirmwareType' /\ ControlType'
    BY <1>1 DEF LoopUpdateEnds, FinishUpdate, FailUpdate, Tasks, TypeInv, FirmwareType, ControlType
  <2> QED
    BY <1>1, <2>1 DEF LoopUpdateEnds, TypeInv, network, checks, NetworkType, CheckType, TimerType,
                      EventType
<1>2. CASE EspUpdateStarts
  <2>1. FirmwareType'
    BY <1>2 DEF EspUpdateStarts, StartUpdate, TypeInv, FirmwareType
  <2> QED
    BY <1>2, <2>1, EventCounts DEF EspUpdateStarts, TypeInv, network, checks, NetworkType,
                                   ControlType, CheckType, TimerType
<1>3. CASE EspUpdateEnds
  <2>1. FirmwareType'
    BY <1>3 DEF EspUpdateEnds, FinishUpdate, FailUpdate, Tasks, TypeInv, FirmwareType
  <2> QED
    BY <1>3, <2>1 DEF EspUpdateEnds, TypeInv, network, checks, NetworkType, ControlType, CheckType,
                      TimerType, EventType
<1> QED
  BY <1>1, <1>2, <1>3

\* The steps of the loop that are left, and the world's.
LEMMA OtherTypes ==
    TypeInv /\ (Setup \/ Idle \/ Tail \/ World) => TypeInv'
<1> SUFFICES ASSUME TypeInv, Setup \/ Idle \/ Tail \/ World PROVE TypeInv'
  OBVIOUS
<1> USE DEF TypeInv, network, checks, firmware
<1>1. CASE Setup
  <2>1. ControlType'
    BY <1>1, NextStepType DEF Setup, ControlType
  <2> QED
    BY <1>1, <2>1 DEF Setup, NetworkType, FirmwareType, CheckType, TimerType, EventType
<1>2. CASE Idle
  <2>1. ControlType'
    BY <1>2, NextStepType DEF Idle, Proceed, ControlType
  <2> QED
    BY <1>2, <2>1 DEF Idle, NetworkType, FirmwareType, CheckType, TimerType, EventType
<1>3. CASE Tail
  <2>1. ControlType'
    BY <1>3, NextStepType DEF Tail, At, Proceed, ControlType
  <2>2. CheckType'
    <3>1. pending' = (pending /\ ~BootCheckDue) /\ attempted' = (attempted \/ BootCheckDue)
      BY <1>3 DEF Tail, BootCheck
    <3> QED
      BY <3>1, Zenon DEF CheckType
  <2> QED
    BY <1>3, <2>1, <2>2 DEF Tail, NetworkType, FirmwareType, TimerType, EventType
<1>4. ASSUME NEW t \in Timers, RestartDue(t) PROVE TypeInv'
  <2>1. TimerType'
    BY <1>4 DEF RestartDue, TimerType
  <2> QED
    BY <1>4, <2>1 DEF RestartDue, NetworkType, FirmwareType, ControlType, CheckType, EventType
<1>5. CASE LinkUp \/ LinkDown
  BY <1>5 DEF LinkUp, LinkDown, NetworkType, FirmwareType, ControlType, CheckType, TimerType,
              EventType
<1>6. ASSUME NEW v \in Versions, Publish(v) PROVE TypeInv'
  BY <1>6 DEF Publish, NetworkType, FirmwareType, ControlType, CheckType, TimerType, EventType
<1>7. CASE PowerCycle
  BY <1>7, RebootTypes DEF PowerCycle, Restart, NetworkType
<1> QED
  BY <1>1, <1>2, <1>3, <1>4, <1>5, <1>6, <1>7 DEF World

LEMMA RestartTypes ==
    TypeInv /\ (PollButtons \/ TailRestart \/ RestartAfterUpdate \/ PeerUpdated) => TypeInv'
<1> SUFFICES ASSUME TypeInv, PollButtons \/ TailRestart \/ RestartAfterUpdate \/ PeerUpdated
             PROVE  TypeInv'
  OBVIOUS
<1>1. stored \in Names /\ DefaultName \in Names
  BY DeviceAssumption DEF TypeInv, NetworkType
<1>2. ASSUME NEW kept \in {stored, DefaultName}, Reboot(kept), Event \/ events' = events
      PROVE  TypeInv'
  BY <1>1, <1>2, RebootTypes
<1>3. CASE PollButtons
  <2>1. CASE Proceed /\ UNCHANGED <<network, checks, firmware, restartAt>>
    <3>1. ControlType'
      BY <1>3, <2>1, NextStepType DEF PollButtons, At, Proceed, ControlType
    <3> QED
      BY <1>3, <2>1, <3>1 DEF PollButtons, TypeInv, network, checks, firmware, NetworkType,
                              FirmwareType, CheckType, TimerType, EventType
  <2> QED
    BY <1>2, <1>3, <2>1 DEF PollButtons, Restart
<1>4. CASE TailRestart \/ RestartAfterUpdate \/ PeerUpdated
  BY <1>2, <1>4 DEF TailRestart, RestartAfterUpdate, PeerUpdated, Restart
<1> QED
  BY <1>3, <1>4

LEMMA NextTypes == TypeInv /\ [Next]_vars => TypeInv'
<1> SUFFICES ASSUME TypeInv, [Next]_vars PROVE TypeInv'
  OBVIOUS
<1>1. CASE UNCHANGED vars
  BY <1>1 DEF vars, network, checks, firmware, TypeInv, NetworkType, FirmwareType, ControlType,
              CheckType, TimerType, EventType
<1> QED
  BY <1>1, CommandTypes, NetTypes, WebTypes, UpdateTypes, OtherTypes, RestartTypes
     DEF Next, LoopStep, NetStep, WifiTask

LEMMA InitTypes == Init => TypeInv
<1> SUFFICES ASSUME Init PROVE TypeInv
  OBVIOUS
<1>1. NetworkType /\ FirmwareType
  BY DeviceAssumption, NextStepType DEF Init, NetworkType, FirmwareType
<1>2. ControlType /\ CheckType /\ TimerType
  BY DEF Init, ControlType, CheckType, TimerType
<1>3. EventType
  BY DeviceAssumption DEF Init, EventType
<1> QED
  BY <1>1, <1>2, <1>3 DEF TypeInv

\* Every variable stays in its range, wherever in the pass requests, updates and resets strike.
THEOREM Types == Spec => []TypeOK
<1>1. Spec => []TypeInv
  BY InitTypes, NextTypes, PTL DEF Spec
<1> QED
  BY <1>1, TypeGroups, PTL

(***************************************************************************)
(* Releases.                                                                *)
(***************************************************************************)

\* Rank writes a version as one number; it does so when no part reaches the base.
SmallParts == Versions \subseteq (0..99) \X (0..99) \X (0..99)

LEMMA RankIsNumber ==
    ASSUME SmallParts, NEW v \in Versions
    PROVE  /\ v[1] \in 0..99 /\ v[2] \in 0..99 /\ v[3] \in 0..99
           /\ Rank(v) \in Int
<1>1. v[1] \in 0..99 /\ v[2] \in 0..99 /\ v[3] \in 0..99
  BY DEF SmallParts
<1> DEFINE a == v[1]
           b == v[2]
           c == v[3]
<1>2. Rank(v) = 10000 * a + 100 * b + c
  BY Zenon DEF Rank
<1>3. a \in 0..99 /\ b \in 0..99 /\ c \in 0..99
  BY <1>1
<1> HIDE DEF a, b, c
<1>4. Rank(v) \in Int
  BY <1>2, <1>3
<1> QED
  BY <1>1, <1>4

\* compareSemver() calls only a version of lower rank the older one.
LEMMA OlderRanksLower ==
    ASSUME SmallParts, NEW l \in Versions, NEW r \in Versions, CompareSemver(l, r) < 0
    PROVE  Rank(l) =< Rank(r)
<1> DEFINE Differ(i) == l[i] # r[i] /\ \A j \in 1..(i - 1) : l[j] = r[j]
<1>1. /\ l[1] \in 0..99 /\ l[2] \in 0..99 /\ l[3] \in 0..99
      /\ r[1] \in 0..99 /\ r[2] \in 0..99 /\ r[3] \in 0..99
  BY RankIsNumber
<1>2. \E i \in 1..3 : l[i] # r[i]
  BY DEF CompareSemver
<1>3. \E i \in 1..3 : Differ(i)
  <2>1. 1..3 = {1, 2, 3} /\ 1..(1 - 1) = {} /\ 1..(2 - 1) = {1} /\ 1..(3 - 1) = {1, 2}
    OBVIOUS
  <2>2. CASE l[1] # r[1]
    BY <2>1, <2>2
  <2>3. CASE l[1] = r[1] /\ l[2] # r[2]
    BY <2>1, <2>3
  <2>4. CASE l[1] = r[1] /\ l[2] = r[2]
    BY <2>1, <2>4, <1>2
  <2> QED
    BY <2>2, <2>3, <2>4
<1> DEFINE first == CHOOSE i \in 1..3 : Differ(i)
<1>4. first \in 1..3 /\ Differ(first)
  BY <1>3
<1>5. CompareSemver(l, r) = IF l[first] < r[first] THEN -1 ELSE 1
  BY <1>2 DEF CompareSemver
<1> HIDE DEF first
<1>6. l[first] < r[first]
  BY <1>5
<1>7. \/ l[1] < r[1]
      \/ l[1] = r[1] /\ l[2] < r[2]
      \/ l[1] = r[1] /\ l[2] = r[2] /\ l[3] < r[3]
  BY <1>4, <1>6
<1> DEFINE a == l[1]
           b == l[2]
           c == l[3]
           x == r[1]
           y == r[2]
           z == r[3]
<1>8. Rank(l) = 10000 * a + 100 * b + c /\ Rank(r) = 10000 * x + 100 * y + z
  BY Zenon DEF Rank
<1>9. /\ a \in 0..99 /\ b \in 0..99 /\ c \in 0..99
      /\ x \in 0..99 /\ y \in 0..99 /\ z \in 0..99
      /\ a < x \/ (a = x /\ b < y) \/ (a = x /\ b = y /\ c < z)
  BY <1>1, <1>7, Zenon
<1> HIDE DEF a, b, c, x, y, z
<1> QED
  BY <1>8, <1>9

\* Neither the image the boot loader starts next nor a download of either task is older than the
\* firmware that runs; they may be older than each other when a release is withdrawn.
ReleaseInv ==
    /\ Rank(version) =< Rank(installed)
    /\ \A t \in Tasks : job[t] # None => Rank(version) =< Rank(job[t])

\* Both tasks only download what the check of this moment calls newer.
LEMMA StartKeeps ==
    ASSUME SmallParts, TypeInv, ReleaseInv, NEW t \in Tasks, StartUpdate(t),
           version' = version, installed' = installed
    PROVE  ReleaseInv'
<1>1. Rank(version) =< Rank(latest)
  BY OlderRanksLower DEF StartUpdate, UpdateAvailable, TypeInv, FirmwareType
<1>2. \A u \in Tasks : job'[u] = IF u = t THEN latest ELSE job[u]
  BY DEF StartUpdate, TypeInv, FirmwareType
<1> QED
  BY <1>1, <1>2 DEF ReleaseInv

\* A download that ends is installed or given up.
LEMMA EndKeeps ==
    ASSUME TypeInv, ReleaseInv, NEW t \in Tasks, FinishUpdate(t) \/ FailUpdate(t),
           version' = version
    PROVE  ReleaseInv'
<1>1. \A u \in Tasks : job'[u] = IF u = t THEN None ELSE job[u]
  BY DEF FinishUpdate, FailUpdate, TypeInv, FirmwareType
<1>2. Rank(version) =< Rank(installed')
  BY DEF FinishUpdate, FailUpdate, ReleaseInv
<1> QED
  BY <1>1, <1>2 DEF ReleaseInv

\* A restart takes the installed image, and drops the downloads.
LEMMA RebootKeeps ==
    ASSUME SmallParts, TypeInv, ReleaseInv, NEW kept, Reboot(kept)
    PROVE  ReleaseInv' /\ Rank(version') >= Rank(version)
<1>1. version' = installed /\ installed' = installed /\ \A t \in Tasks : job'[t] = None
  BY DEF Reboot, Forget
<1>2. Rank(installed) \in Int /\ Rank(version) \in Int
  BY RankIsNumber DEF TypeInv, FirmwareType
<1> QED
  BY <1>1, <1>2 DEF ReleaseInv

LEMMA NextKeeps ==
    ASSUME SmallParts, TypeInv, ReleaseInv, [Next]_vars
    PROVE  ReleaseInv' /\ Rank(version') >= Rank(version)
<1>1. ASSUME version' = version PROVE Rank(version') >= Rank(version)
  <2>1. Rank(version) \in Int
    BY RankIsNumber DEF TypeInv, FirmwareType
  <2> QED
    BY <1>1, <2>1
<1>2. ASSUME UNCHANGED firmware PROVE ReleaseInv' /\ version' = version
  BY <1>2 DEF firmware, ReleaseInv
<1>3. ASSUME NEW kept, Reboot(kept) PROVE ReleaseInv' /\ Rank(version') >= Rank(version)
  BY <1>3, RebootKeeps
<1>4. CASE Command \/ ServerRestart
  <2>1. CASE LoopUpdateStarts
    BY <1>1, <2>1, StartKeeps DEF LoopUpdateStarts, Tasks
  <2>2. CASE ~LoopUpdateStarts
    <3>1. UNCHANGED firmware
      BY <1>4, <2>2 DEF Command, ServerRestart, RestartRequest, Reconnect
    <3> QED
      BY <1>1, <1>2, <3>1
  <2> QED
    BY <2>1, <2>2
<1>5. CASE NetStep
  BY <1>1, <1>2, <1>5 DEF NetStep, Net
<1>6. CASE \E name \in Names : SetHostname(name) \/ SaveConfig(name)
  BY <1>1, <1>2, <1>3, <1>6 DEF SetHostname, SaveConfig
<1>7. CASE LoopUpdateEnds
  BY <1>1, <1>7, EndKeeps DEF LoopUpdateEnds, Tasks
<1>8. CASE EspUpdateStarts
  BY <1>1, <1>8, StartKeeps DEF EspUpdateStarts, Tasks
<1>9. CASE EspUpdateEnds
  BY <1>1, <1>9, EndKeeps DEF EspUpdateEnds, Tasks
<1>10. CASE PollButtons \/ TailRestart \/ RestartAfterUpdate \/ PeerUpdated \/ PowerCycle
  BY <1>1, <1>2, <1>3, <1>10 DEF PollButtons, TailRestart, RestartAfterUpdate, PeerUpdated,
                                 PowerCycle, Restart
<1>11. CASE Setup \/ Idle \/ Tail \/ UNCHANGED vars
  BY <1>1, <1>2, <1>11 DEF Setup, Idle, Tail, vars
<1>12. CASE \/ \E t \in Timers : RestartDue(t)
            \/ LinkUp \/ LinkDown
            \/ \E v \in Versions : Publish(v)
  <2>1. version' = version /\ installed' = installed /\ job' = job
    BY <1>12 DEF RestartDue, LinkUp, LinkDown, Publish, firmware
  <2> QED
    BY <1>1, <2>1 DEF ReleaseInv
<1> QED
  BY <1>4, <1>5, <1>6, <1>7, <1>8, <1>9, <1>10, <1>11, <1>12
     DEF Next, LoopStep, NetStep, WifiTask, World

\* Whatever is published or withdrawn, and however the updates of the two tasks cross each other
\* and the restarts, the device never goes back to an older firmware (NeverOlder).
THEOREM NoDowngrade == ASSUME SmallParts PROVE Spec => NeverOlder
<1>1. Init => ReleaseInv
  <2> SUFFICES ASSUME Init PROVE ReleaseInv
    OBVIOUS
  <2>1. Rank(FirstVersion) \in Int
    BY RankIsNumber, DeviceAssumption
  <2> QED
    BY <2>1 DEF Init, ReleaseInv
<1>2. TypeInv /\ ReleaseInv /\ [Next]_vars => (TypeInv /\ ReleaseInv)'
  BY NextTypes, NextKeeps
<1>3. TypeInv /\ ReleaseInv /\ [Next]_vars => Rank(version') >= Rank(version)
  BY NextKeeps
<1> QED
  BY <1>1, <1>2, <1>3, InitTypes, PTL DEF Spec, NeverOlder
=============================================================================
