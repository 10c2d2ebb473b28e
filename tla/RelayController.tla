--------------------------- MODULE RelayController ---------------------------
(***************************************************************************)
(* The relay, its auto-off timer and the five NVS keys that carry both     *)
(* across a reset (src/src/RelayController.cpp), with the boot decision of *)
(* src/src/ResetDiagnostics.cpp and the part of setup()/loop() of          *)
(* src/src/main.cpp that calls them.                                       *)
(*                                                                         *)
(* The firmware is one loop task, so an operation is not interleaved with  *)
(* another one; but a reset can come between any two of its NVS writes.    *)
(* An operation is therefore one step that changes RAM and the GPIO,       *)
(* followed by the steps of persistState().                                *)
(*                                                                         *)
(* One unit of time is one minute of the configured timeout; millis() and  *)
(* the millisecond products are kept modulo MsWrap, the 2^32 ms of the     *)
(* code in that unit.                                                      *)
(***************************************************************************)
EXTENDS Integers

CONSTANTS
    MaxMinutes,   \* AUTO_OFF_MAX_MINUTES
    MsWrap,       \* units after which a uint32_t of milliseconds wraps
    Horizon,      \* bound: the largest value of the wall clock
    ClockSteps    \* the directions in which SNTP may set the clock

ASSUME ConstantsAssumption ==
    /\ MaxMinutes \in Nat \ {0}
    /\ MsWrap \in Nat
    /\ MaxMinutes < MsWrap
    /\ Horizon \in Nat
    /\ MaxMinutes < Horizon
    /\ ClockSteps \in SUBSET {"forward", "backward"}

VARIABLES
    relayOn, autoOffMinutes, armed, deadlineMs, deadlineEpoch, remaining,
    storageReady,
    bootFailsafe, \* bootFailsafeAppliedValue
    pin,          \* the relay GPIO: TRUE is energised
    nvs,          \* namespace relay_cfg
    pc, after,    \* where the loop task is, and where persistState() returns
    step,         \* next write of persistState(); 0 is preferences.begin()
    bootReason,   \* "brownout" or any "other" reset reason
    ms, clk,      \* millis() and time(nullptr)
    off,          \* history: where it is kept that the relay was last switched off, if it was
    lost,         \* history: a write of the last persistState() did not reach flash
    owed          \* history: units for which the last command promised ON

ram   == <<relayOn, autoOffMinutes, armed, deadlineMs, deadlineEpoch, remaining>>
boot  == <<bootFailsafe, bootReason>>
ctl   == <<pc, after, step>>
time  == <<ms, clk>>
ghost == <<off, lost, owed>>
vars  == <<ram, boot, ctl, time, ghost, storageReady, pin, nvs>>

Keys == <<"state", "auto_off_min", "auto_off_armed", "auto_off_epoch", "auto_off_rem">>

\* What persistState() would write now.
Image == [state          |-> relayOn,
          auto_off_min   |-> autoOffMinutes,
          auto_off_armed |-> armed,
          auto_off_epoch |-> deadlineEpoch,
          auto_off_rem   |-> remaining]

EmptyNvs == [state |-> FALSE, auto_off_min |-> 0, auto_off_armed |-> FALSE,
             auto_off_epoch |-> 0, auto_off_rem |-> 0]

Wrap(n) == n % MsWrap

\* Mutant: no reset reason forces the relay off.
ShouldForceRelayOff_Never == FALSE

ShouldForceRelayOff == bootReason = "brownout"

-----------------------------------------------------------------------------
(* The auto-off timer. *)

\* Mutant: the armed flag survives the end of the timer.
ClearAutoOffTimer_KeepsArmed ==
    UNCHANGED armed /\ deadlineMs' = 0 /\ deadlineEpoch' = 0 /\ remaining' = 0

ClearAutoOffTimer ==
    /\ armed' = FALSE
    /\ deadlineMs' = 0
    /\ deadlineEpoch' = 0
    /\ remaining' = 0

\* Bound: a timeout armed now ends before Horizon.
HasRoom == clk + MaxMinutes <= Horizon

ArmAutoOffTimer(minutes) ==
    IF minutes = 0
      THEN ClearAutoOffTimer
      ELSE /\ HasRoom
           /\ armed' = TRUE
           /\ remaining' = minutes
           /\ deadlineMs' = Wrap(ms + minutes)
           /\ deadlineEpoch' = IF clk > 0 THEN clk + minutes ELSE 0

\* The clock path is taken as soon as time() is not 0, synchronised or not.
UseEpoch == deadlineEpoch > 0 /\ clk > 0

\* Mutants: only the clock is looked at, without the test for its validity; the
\* millis() fallback is missing.
Expired_Unguarded == clk >= deadlineEpoch
Expired_NoFallback == UseEpoch /\ clk >= deadlineEpoch

Expired == IF UseEpoch THEN clk >= deadlineEpoch ELSE ms >= deadlineMs

-----------------------------------------------------------------------------
(* persistState(): open the namespace, then one write per key. *)

\* Mutant: the call of persistState() is missing.
Persist_Skipped(return) == pc' = return /\ UNCHANGED <<after, step>>

Persist(return) == pc' = "save" /\ after' = return /\ step' = 0

PersistUnavailable ==
    /\ pc = "save" /\ step = 0
    /\ storageReady' = FALSE
    /\ pc' = after
    /\ UNCHANGED <<ram, boot, time, ghost, after, step, pin, nvs>>

PersistOpen ==
    /\ pc = "save" /\ step = 0
    /\ step' = 1
    /\ lost' = FALSE
    /\ UNCHANGED <<ram, boot, time, off, owed, pc, after, storageReady, pin, nvs>>

\* The result of a put is not looked at: a full flash loses it silently.
PersistKey ==
    /\ pc = "save" /\ step \in 1..5
    /\ \/ nvs' = [nvs EXCEPT ![Keys[step]] = Image[Keys[step]]] /\ UNCHANGED lost
       \/ nvs' = nvs /\ lost' = TRUE
    /\ IF step < 5
         THEN step' = step + 1 /\ UNCHANGED <<pc, storageReady>>
         ELSE step' = 0 /\ pc' = after /\ storageReady' = TRUE
    /\ off' = IF off = "ram" /\ step = 5 /\ ~lost' /\ ~relayOn THEN "flash" ELSE off
    /\ UNCHANGED <<ram, boot, time, owed, after, pin>>

-----------------------------------------------------------------------------
(* begin(): load, then the brownout override, then the GPIO. *)

\* NVS cannot be opened: the defaults of the constructor are kept.
LoadUnavailable ==
    /\ pc = "boot"
    /\ storageReady' = FALSE
    /\ pc' = "force"
    /\ owed' = 0
    /\ UNCHANGED <<ram, boot, time, after, step, off, lost, pin, nvs>>

\* A relay stored OFF, or without a timeout, has no timer whatever the other
\* keys say; the cleared timer is written back if any of them said otherwise.
LoadWithoutTimer ==
    /\ pc = "boot"
    /\ ~nvs.state \/ nvs.auto_off_min = 0
    /\ relayOn' = nvs.state
    /\ autoOffMinutes' = nvs.auto_off_min
    /\ ClearAutoOffTimer
    /\ storageReady' = TRUE
    /\ IF nvs.auto_off_armed \/ nvs.auto_off_epoch # 0 \/ nvs.auto_off_rem # 0
         THEN Persist("force")
         ELSE pc' = "force" /\ UNCHANGED <<after, step>>
    /\ UNCHANGED <<boot, time, ghost, pin, nvs>>

StoredTimer == pc = "boot" /\ nvs.state /\ nvs.auto_off_min > 0

StoredEpochUsable == nvs.auto_off_epoch > 0 /\ clk > 0

LoadExpired ==
    /\ StoredTimer
    /\ StoredEpochUsable /\ clk >= nvs.auto_off_epoch
    /\ relayOn' = FALSE
    /\ autoOffMinutes' = nvs.auto_off_min
    /\ ClearAutoOffTimer
    /\ storageReady' = TRUE
    /\ Persist("force")
    /\ off' = "ram"
    /\ UNCHANGED <<boot, time, lost, owed, pin, nvs>>

\* The remaining time is recomputed from the clock when there is one; 0 means
\* that it is not known and the whole timeout starts again.
LoadArmed ==
    LET stored == IF nvs.auto_off_armed THEN nvs.auto_off_rem ELSE nvs.auto_off_min
        known  == IF StoredEpochUsable THEN Wrap(nvs.auto_off_epoch - clk) ELSE stored
        left   == IF known = 0 THEN nvs.auto_off_min ELSE known
    IN
    /\ StoredTimer
    /\ ~(StoredEpochUsable /\ clk >= nvs.auto_off_epoch)
    /\ relayOn' = TRUE
    /\ autoOffMinutes' = nvs.auto_off_min
    /\ armed' = TRUE
    /\ deadlineEpoch' = nvs.auto_off_epoch
    /\ remaining' = left
    /\ deadlineMs' = Wrap(ms + left)
    /\ storageReady' = TRUE
    /\ IF ~nvs.auto_off_armed \/ known = 0
         THEN Persist("force")
         ELSE pc' = "force" /\ UNCHANGED <<after, step>>
    /\ UNCHANGED <<boot, time, ghost, pin, nvs>>

ForceOff ==
    /\ pc = "force"
    /\ ShouldForceRelayOff
    /\ bootFailsafe' = relayOn
    /\ relayOn' = FALSE
    /\ ClearAutoOffTimer
    /\ Persist("output")
    /\ owed' = 0
    /\ UNCHANGED <<time, off, lost, autoOffMinutes, bootReason, storageReady, pin,
                   nvs>>

KeepRestored ==
    /\ pc = "force"
    /\ ~ShouldForceRelayOff
    /\ bootFailsafe' = FALSE
    /\ pc' = "output"
    /\ UNCHANGED <<ram, time, ghost, after, step, bootReason, storageReady, pin, nvs>>

ApplyOutput ==
    /\ pc = "output"
    /\ pin' = relayOn
    /\ pc' = "idle"
    /\ UNCHANGED <<ram, boot, time, ghost, after, step, storageReady, nvs>>

-----------------------------------------------------------------------------
(* Operations of the running device. *)

\* What an arming promises; across the wrap of millis() it promises nothing.
Promised(minutes) == IF ms + minutes < MsWrap THEN minutes ELSE 0

\* The body of set(on) for a change of state; maintain() shares it.
Switch(on) ==
    /\ relayOn' = on
    /\ IF on THEN ArmAutoOffTimer(autoOffMinutes) ELSE ClearAutoOffTimer
    /\ pin' = on
    /\ Persist("notify")
    /\ UNCHANGED <<boot, time, lost, autoOffMinutes, storageReady, nvs>>

\* Every command path ends in set(); toggle() is Set(~relayOn).
Set(on) ==
    /\ pc = "idle"
    /\ on # relayOn
    /\ Switch(on)
    /\ owed' = IF on THEN Promised(autoOffMinutes) ELSE 0
    /\ off' = IF on THEN "no" ELSE "ram"

\* set(true) on a relay that is on already restarts its timeout, silently.
SetAgain ==
    /\ pc = "idle"
    /\ relayOn /\ autoOffMinutes > 0
    /\ ArmAutoOffTimer(autoOffMinutes)
    /\ Persist("idle")
    /\ owed' = Promised(autoOffMinutes)
    /\ off' = "no"
    /\ UNCHANGED <<boot, time, lost, relayOn, autoOffMinutes, storageReady, pin, nvs>>

\* A value outside 0..AUTO_OFF_MAX_MINUTES is refused and changes nothing.
SetAutoOffMinutes(minutes) ==
    /\ pc = "idle"
    /\ autoOffMinutes' = minutes
    /\ CASE minutes = 0 -> ClearAutoOffTimer /\ owed' = 0
         [] minutes > 0 /\ relayOn -> ArmAutoOffTimer(minutes) /\ owed' = Promised(minutes)
         [] OTHER -> UNCHANGED <<armed, deadlineMs, deadlineEpoch, remaining, owed>>
    /\ Persist("idle")
    /\ UNCHANGED <<boot, time, relayOn, off, lost, storageReady, pin, nvs>>

Timed == pc = "idle" /\ relayOn /\ autoOffMinutes > 0 /\ armed

\* maintain() while the timeout runs: RAM follows the clock, flash does not.
MaintainRunning ==
    /\ Timed /\ ~Expired
    /\ IF UseEpoch
         THEN /\ remaining' = Wrap(deadlineEpoch - clk)
              /\ deadlineMs' = Wrap(ms + remaining')
         ELSE /\ remaining' = deadlineMs - ms
              /\ UNCHANGED deadlineMs
    /\ UNCHANGED <<boot, ctl, time, ghost, relayOn, autoOffMinutes, armed, deadlineEpoch,
                   storageReady, pin, nvs>>

MaintainExpired ==
    /\ Timed /\ Expired
    /\ Switch(FALSE)
    /\ off' = "ram"
    /\ UNCHANGED owed

\* stateChangedCallback, after the save; what it does is in StateReporting.  It is
\* a step of its own because a reset may come before it.
Notify ==
    /\ pc = "notify"
    /\ pc' = "idle"
    /\ UNCHANGED <<ram, boot, time, ghost, after, step, storageReady, pin, nvs>>

-----------------------------------------------------------------------------
(* Time and resets. *)

\* An operation takes much less than a unit, so time passes between them; how
\* often the loop runs maintain() meanwhile is left open.  The clock stops at
\* the bound Horizon, millis() only when no timeout depends on it.
Tick ==
    /\ pc = "idle"
    /\ clk < Horizon \/ (Timed /\ ~UseEpoch)
    /\ clk' = IF clk < Horizon THEN clk + 1 ELSE clk
    /\ ms' = Wrap(ms + 1)
    /\ owed' = IF owed > 0 THEN owed - 1 ELSE 0
    /\ UNCHANGED <<ram, boot, ctl, off, lost, storageReady, pin, nvs>>

\* SNTP sets the clock from its own task, at any moment.
ClockStep ==
    /\ clk' \in 1..(Horizon - MaxMinutes)
    /\ \/ "forward" \in ClockSteps /\ clk' > clk
       \/ "backward" \in ClockSteps /\ clk' < clk
    /\ UNCHANGED <<ram, boot, ctl, ghost, ms, storageReady, pin, nvs>>

\* A reset may come anywhere.  RAM and the GPIO latch are lost; a cold one
\* (power) also restarts the clock from 0.  A promise survives only if it was
\* stored and no save was under way; that the relay is off, once it was stored.
\* After a brownout the boot has to switch it off.
Reset(reason, cold) ==
    /\ pc' = "boot" /\ after' = "idle" /\ step' = 0
    /\ relayOn' = FALSE /\ autoOffMinutes' = 0
    /\ ClearAutoOffTimer
    /\ storageReady' = FALSE
    /\ bootFailsafe' = FALSE
    /\ pin' = FALSE
    /\ bootReason' = reason
    /\ ms' = 0
    /\ clk' = IF cold THEN 0 ELSE clk
    /\ lost' = FALSE
    /\ off' = CASE off = "flash" -> "flash"
                [] off # "flash" /\ reason = "brownout" -> "ram"
                [] OTHER -> "no"
    /\ owed' = IF pc = "boot" \/ (pc # "save" /\ storageReady /\ ~lost) THEN owed ELSE 0
    /\ UNCHANGED nvs

-----------------------------------------------------------------------------

Init ==
    /\ relayOn = FALSE /\ autoOffMinutes = 0
    /\ armed = FALSE /\ deadlineMs = 0 /\ deadlineEpoch = 0 /\ remaining = 0
    /\ storageReady = FALSE
    /\ bootFailsafe = FALSE
    /\ pin = FALSE
    /\ nvs = EmptyNvs
    /\ pc = "boot" /\ after = "idle" /\ step = 0
    /\ bootReason = "other"
    /\ ms = 0 /\ clk = 0
    /\ off = "flash" /\ lost = FALSE /\ owed = 0

Save == PersistUnavailable \/ PersistOpen \/ PersistKey

Boot ==
    \/ LoadUnavailable \/ LoadWithoutTimer \/ LoadExpired \/ LoadArmed
    \/ ForceOff \/ KeepRestored \/ ApplyOutput

User ==
    \/ \E on \in BOOLEAN : Set(on)
    \/ SetAgain
    \/ \E minutes \in 0..MaxMinutes : SetAutoOffMinutes(minutes)

Maintain == MaintainRunning \/ MaintainExpired

Environment ==
    \/ ClockStep
    \/ \E reason \in {"brownout", "other"}, cold \in BOOLEAN : Reset(reason, cold)

Next == Save \/ Boot \/ User \/ Maintain \/ Notify \/ Tick \/ Environment

Spec == Init /\ [][Next]_vars

\* The loop task always runs and time always passes; the loop calls maintain()
\* many times per unit, so it does not miss an expiry for ever.
Fairness ==
    /\ WF_vars(Save)
    /\ WF_vars(Boot)
    /\ SF_vars(MaintainExpired)
    /\ WF_vars(Notify)
    /\ WF_vars(Tick)

FairSpec == Spec /\ Fairness

-----------------------------------------------------------------------------
(* Properties. *)

Running == pc \in {"idle", "notify"}

NvsType ==
    nvs \in [state : BOOLEAN, auto_off_min : 0..MaxMinutes, auto_off_armed : BOOLEAN,
             auto_off_epoch : Nat, auto_off_rem : 0..(MsWrap - 1)]

TimerType ==
    /\ autoOffMinutes \in 0..MaxMinutes
    /\ deadlineMs \in 0..(MsWrap - 1)
    /\ deadlineEpoch \in Nat
    /\ remaining \in 0..(MsWrap - 1)

FlagType ==
    /\ relayOn \in BOOLEAN
    /\ armed \in BOOLEAN
    /\ storageReady \in BOOLEAN
    /\ bootFailsafe \in BOOLEAN
    /\ pin \in BOOLEAN
    /\ lost \in BOOLEAN

ControlType ==
    /\ pc \in {"boot", "force", "output", "idle", "notify", "save"}
    /\ after \in {"force", "output", "idle", "notify"}
    /\ step \in 0..5
    /\ bootReason \in {"brownout", "other"}
    /\ off \in {"no", "ram", "flash"}

TimeType ==
    /\ ms \in 0..(MsWrap - 1)
    /\ clk \in 0..Horizon
    /\ owed \in 0..MaxMinutes

TypeOK == NvsType /\ TimerType /\ FlagType /\ ControlType /\ TimeType

\* Whatever mixture of old and new keys a reset inside persistState() leaves
\* in flash, a relay that is energised with a timeout has its timer armed, and
\* a timer is armed for no other relay (loadPersistedState normalises).
TimerGuardsOutput ==
    /\ pin /\ autoOffMinutes > 0 => armed
    /\ armed => relayOn /\ autoOffMinutes > 0

\* Once an operation has returned with storageReady set, and unless flash lost
\* one of its writes, flash holds what RAM holds, except the remaining time that
\* maintain() refreshes in RAM only: a reset at that point restores the relay, its
\* timeout and its deadline.
StorageMirrorsRam ==
    Running /\ storageReady /\ ~lost =>
        /\ nvs.state = relayOn
        /\ nvs.auto_off_min = autoOffMinutes
        /\ nvs.auto_off_armed = armed
        /\ nvs.auto_off_epoch = deadlineEpoch

\* A relay that was switched off, by a command, by its timeout, while the device ran or
\* was without power, or by the boot after a brownout, stays off until a command switches
\* it on. A reset, even one inside a later save, undoes that only if the save was cut off
\* or flash lost it; a new device has never been switched on.
StaysOff == off # "no" => ~pin

\* A relay that a command left on with a timeout stays energised for the time that command
\* promised: the timer is not early, not even when maintain() or a boot that may come at any
\* time computes it anew, and every such boot switches the relay on again. What ends the
\* promise is another command, a brownout, flash that cannot be read or lost the save, and
\* a reset inside a save.
PromiseKept == Running /\ owed > 0 => pin

\* A relay with a timeout does not stay on for ever: if commands and resets
\* cease, it is off from some point on.
AutoOffHappens ==
    <>[][~(User \/ Environment)]_vars => <>[](relayOn => autoOffMinutes = 0)

=============================================================================
