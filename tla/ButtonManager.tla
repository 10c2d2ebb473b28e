--------------------------- MODULE ButtonManager ---------------------------
(* The three buttons of the board (ButtonManager.cpp): debouncing, the      *)
(* callbacks of the relay and the reset button, and the five second hold of *)
(* the BOOT button.  A contact chatters for up to Bounce ticks after every  *)
(* edge and update() samples it whenever the loop comes round: right away,  *)
(* or after any number of ticks when the loop was blocked.                  *)
(*                                                                          *)
(* A level is TRUE when the pin reads LOW, that is when the button looks    *)
(* pressed.  The code keeps absolute millis() values and subtracts; the     *)
(* model keeps the difference, saturated at the value it is compared with,  *)
(* so the 49 day wrap of millis() is left out.                              *)
EXTENDS Integers

CONSTANTS Debounce,   \* BUTTON_DEBOUNCE_MS, in ticks
          Hold,       \* FACTORY_RESET_HOLD_MS, in ticks
          Bounce,     \* how long a contact chatters after an edge, in ticks
          BootTicks   \* from a restart to begin(): setup() alone waits 2.5 s

ASSUME ButtonAssumption ==
    /\ Debounce \in Nat /\ Hold \in Nat /\ Bounce \in Nat /\ BootTicks \in Nat
    /\ Bounce < Debounce        \* what a debounce time is chosen for
    /\ Bounce < BootTicks

VARIABLES down,        \* [Buttons -> BOOLEAN]: the finger is on the button
          chatter,     \* [Buttons -> 0..Bounce]: ticks the contact still chatters
          lastReading, \* [Buttons -> BOOLEAN]: ...LastReading
          stable,      \* [Buttons -> BOOLEAN]: ...StableState
          age,         \* [Buttons -> 0..Debounce]: now - ...LastDebounceTime
          held,        \* 0..Hold: now - factoryResetButtonPressedAt
          triggered,   \* factoryResetTriggered
          boot,        \* 0..BootTicks: ticks the boot still takes; -1: running
          owed,        \* history, [Callbacks -> -1..1]: presses not answered yet
          open,        \* history: ticks the BOOT contact has been open
          longRelease, \* history: BOOT was let go of since its press was accepted
          sampled,     \* history: update() has run since the last tick
          prompt       \* history: ... and before every tick since that press

pins    == <<down, chatter>>
ram     == <<lastReading, stable, age, held, triggered, boot>>
history == <<owed, open, longRelease, sampled, prompt>>
buttonVars == <<pins, ram, history>>

Callbacks == {"relay", "reset"}
Buttons   == Callbacks \cup {"factory"}
LongOpen  == Bounce + Debounce + 1
Running   == boot = -1

(***************************************************************************)
(* The world: fingers, chattering contacts and time.                        *)
(***************************************************************************)

\* Mutant: the saturation is off by one.
Later_OnePast(n, top) == IF n <= top THEN n + 1 ELSE n

\* What digitalRead() may return for each button.
Readings ==
    {r \in [Buttons -> BOOLEAN] : \A b \in Buttons : chatter[b] = 0 => r[b] = down[b]}

Press(b) ==
    /\ ~down[b]
    /\ down' = [down EXCEPT ![b] = TRUE]
    /\ chatter' = [chatter EXCEPT ![b] = Bounce]
    /\ owed' = [c \in Callbacks |-> IF c = b THEN 1 ELSE owed[c]]
    /\ UNCHANGED <<ram, open, longRelease, sampled, prompt>>

Release(b) ==
    /\ down[b]
    /\ down' = [down EXCEPT ![b] = FALSE]
    /\ chatter' = [chatter EXCEPT ![b] = Bounce]
    /\ open' = IF b = "factory" THEN 0 ELSE open
    /\ UNCHANGED <<ram, owed, longRelease, sampled, prompt>>

Later(n, top) == IF n < top THEN n + 1 ELSE n

Tick ==
    /\ boot # 0
    /\ chatter' = [b \in Buttons |-> IF chatter[b] > 0 THEN chatter[b] - 1 ELSE 0]
    /\ age' = [b \in Buttons |-> Later(age[b], Debounce)]
    /\ held' = Later(held, Hold)
    /\ boot' = IF Running THEN boot ELSE boot - 1
    /\ open' = IF down["factory"] THEN open ELSE Later(open, LongOpen)
    /\ longRelease' = (longRelease \/ (~down["factory"] /\ open' = LongOpen))
    /\ prompt' = (prompt /\ sampled)
    /\ sampled' = FALSE
    /\ UNCHANGED <<down, lastReading, stable, triggered, owed>>

(***************************************************************************)
(* The code.                                                                *)
(***************************************************************************)

\* begin(): the levels at boot are taken as they are, and a BOOT button that
\* is down starts its five seconds here.
Begin ==
    /\ boot = 0
    /\ boot' = -1
    /\ \E r \in Readings : lastReading' = r /\ stable' = r
    /\ age' = [b \in Buttons |-> 0]
    /\ held' = 0
    /\ triggered' = FALSE
    /\ sampled' = TRUE
    /\ prompt' = TRUE
    /\ longRelease' = FALSE
    /\ UNCHANGED <<pins, owed, open>>

\* Mutant: a changed reading does not restart the debounce time.
AgeNow_Kept(r, b) == age[b]

\* The first half of pollButton(): a changed reading restarts the debounce time.
AgeNow(r, b) == IF r[b] # lastReading[b] THEN 0 ELSE age[b]

\* The second half: a reading that lasted becomes the stable state.
Accepted(r, b) == AgeNow(r, b) >= Debounce /\ r[b] # stable[b]

\* The press of b reaches its callback.
Calls(r, b) == Accepted(r, b) /\ r[b]

Polled(r, bs) ==
    /\ lastReading' = [b \in Buttons |-> IF b \in bs THEN r[b] ELSE lastReading[b]]
    /\ age' = [b \in Buttons |-> IF b \in bs THEN AgeNow(r, b) ELSE age[b]]
    /\ stable' = [b \in Buttons |-> IF b \in bs /\ Accepted(r, b) THEN r[b] ELSE stable[b]]
    /\ owed' = [c \in Callbacks |-> IF Calls(r, c) THEN owed[c] - 1 ELSE owed[c]]

\* Mutant: a new press goes on with the old pressedAt.
HeldNow_Kept(r) == held

\* The BOOT button's own part of update(): pressedAt, and the end of the hold.
HeldNow(r)      == IF Accepted(r, "factory") /\ r["factory"] THEN 0 ELSE held
TriggeredNow(r) == triggered /\ ~Accepted(r, "factory")
HoldOver(r) ==
    /\ stable'["factory"]
    /\ ~TriggeredNow(r)
    /\ HeldNow(r) >= Hold

\* update(), when no callback restarts the device.
Update(r) ==
    /\ Running
    /\ ~Calls(r, "reset")
    /\ Polled(r, Buttons)
    /\ ~HoldOver(r)
    /\ held' = HeldNow(r)
    /\ triggered' = TriggeredNow(r)
    /\ sampled' = TRUE
    /\ prompt' = IF Calls(r, "factory") THEN TRUE ELSE prompt
    /\ longRelease' = IF Calls(r, "factory") THEN FALSE ELSE longRelease
    /\ UNCHANGED <<pins, boot, open>>

Rebooting == boot' = BootTicks

\* update(), when the reset button's callback restarts the device: the BOOT
\* button is not polled any more.
ResetButton(r) ==
    /\ Running
    /\ Calls(r, "reset")
    /\ Polled(r, Callbacks)
    /\ Rebooting
    /\ UNCHANGED <<pins, held, triggered, open, longRelease, sampled, prompt>>

\* update(), when the hold is over: the settings are cleared and the device
\* restarts (handleFactoryResetButtonHold()).
FactoryReset(r) ==
    /\ Running
    /\ ~Calls(r, "reset")
    /\ Polled(r, Buttons)
    /\ HoldOver(r)
    /\ held' = HeldNow(r)
    /\ triggered' = TRUE
    /\ Rebooting
    /\ UNCHANGED <<pins, open, longRelease, sampled, prompt>>

\* Any other restart: reboot command, update, watchdog, power.
OtherRestart ==
    /\ Running
    /\ Rebooting
    /\ UNCHANGED <<pins, lastReading, stable, age, held, triggered, history>>

ButtonsInit ==
    /\ down = [b \in Buttons |-> FALSE]
    /\ chatter = [b \in Buttons |-> 0]
    /\ lastReading = [b \in Buttons |-> FALSE]
    /\ stable = [b \in Buttons |-> FALSE]
    /\ age = [b \in Buttons |-> 0]
    /\ held = 0
    /\ triggered = FALSE
    /\ boot = BootTicks
    /\ owed = [c \in Callbacks |-> 0]
    /\ open = LongOpen
    /\ longRelease = FALSE
    /\ sampled = FALSE
    /\ prompt = FALSE

ButtonsNext ==
    \/ \E b \in Buttons : Press(b) \/ Release(b)
    \/ Tick
    \/ Begin
    \/ \E r \in Readings : Update(r) \/ ResetButton(r) \/ FactoryReset(r)
    \/ OtherRestart

ButtonsSpec == ButtonsInit /\ [][ButtonsNext]_buttonVars

(***************************************************************************)
(* Properties.                                                              *)
(***************************************************************************)

\* Every variable stays in its range.
ButtonsTypeOK ==
    /\ down \in [Buttons -> BOOLEAN]
    /\ chatter \in [Buttons -> 0..Bounce]
    /\ lastReading \in [Buttons -> BOOLEAN]
    /\ stable \in [Buttons -> BOOLEAN]
    /\ age \in [Buttons -> 0..Debounce]
    /\ held \in 0..Hold
    /\ triggered \in BOOLEAN
    /\ boot \in -1..BootTicks
    /\ owed \in [Callbacks -> -1..1]
    /\ open \in 0..LongOpen
    /\ longRelease \in BOOLEAN /\ sampled \in BOOLEAN /\ prompt \in BOOLEAN

\* The relay toggles, and the device restarts, at most once for each time the
\* button was really pressed: not for chatter, not for a release, not again
\* after a restart with the finger still on the button, however seldom the
\* blocked loop samples the pins.
AnswersAPress == \A c \in Callbacks : owed[c] >= 0

\* With a loop that samples the pins in every tick, the settings are cleared
\* only when BOOT was not let go of for longer than debouncing hides.
SeenHoldIsReal == [][triggered' /\ ~triggered => (prompt => ~longRelease)]_buttonVars

(***************************************************************************)
(* The inductive invariant behind AnswersAPress.  While no press waits for  *)
(* its callback, a reading that differs from where the finger is was taken  *)
(* during the chatter of the last edge, and is too young to be accepted.    *)
(***************************************************************************)

Young(c) == chatter[c] > 0 => age[c] + chatter[c] <= Bounce

ReleaseIsSeen(c) ==
    Running /\ owed[c] = 0 /\ ~stable[c] => ~down[c] /\ (lastReading[c] => Young(c))

HoldIsSeen(c) ==
    Running /\ owed[c] = 0 /\ stable[c] /\ down[c] /\ ~lastReading[c] => Young(c)

BootOutlastsChatter(c) == ~Running /\ owed[c] = 0 /\ down[c] => chatter[c] <= boot

ButtonsInv ==
    /\ ButtonsTypeOK
    /\ AnswersAPress
    /\ \A c \in Callbacks : ReleaseIsSeen(c) /\ HoldIsSeen(c) /\ BootOutlastsChatter(c)
=============================================================================
