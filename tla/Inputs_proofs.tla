---------------------------- MODULE Inputs_proofs ----------------------------
(* Theorems about what the loop task samples. ButtonManager answers presses   *)
(* only, for every debounce time, hold time and boot time, as long as a       *)
(* contact chatters for less than the debounce time and the boot; and a hold  *)
(* it sees is real when the loop samples the pins in every tick.              *)
(* TemperatureProbe says what the samples say, for every pair of sample       *)
(* counts, every range of raw values and histories of any length.             *)
EXTENDS InputsMC, TLAPS

(***************************************************************************)
(* Buttons.                                                                *)
(***************************************************************************)

\* Begin() and the steps of the world and of update() keep the callbacks' part
\* of the invariant; the lemmas take one callback c at a time.
CallbackInv(c) == ReleaseIsSeen(c) /\ HoldIsSeen(c) /\ BootOutlastsChatter(c)

(***************************************************************************)
(* A press that nobody made is never accepted.                              *)
(***************************************************************************)

\* What an allowed sample of one button looks like.
LEMMA SampleOf ==
    ASSUME NEW r \in Readings, NEW b \in Buttons
    PROVE  /\ r[b] \in BOOLEAN
           /\ chatter[b] = 0 => r[b] = down[b]
  BY DEF Readings

\* A callback only runs for a press that has not been answered yet.
LEMMA CallIsOwed ==
    ASSUME ButtonsInv, Running, NEW r \in Readings, NEW c \in Callbacks, Calls(r, c)
    PROVE  owed[c] = 1
<1> USE ButtonAssumption
<1> c \in Buttons
  BY DEF Buttons
<1>1. /\ r[c] \in BOOLEAN /\ (chatter[c] = 0 => r[c] = down[c])
      /\ chatter[c] \in 0..Bounce /\ age[c] \in 0..Debounce /\ owed[c] \in -1..1
      /\ owed[c] >= 0 /\ stable[c] \in BOOLEAN /\ down[c] \in BOOLEAN
      /\ lastReading[c] \in BOOLEAN /\ ReleaseIsSeen(c)
  BY SampleOf DEF ButtonsInv, ButtonsTypeOK, AnswersAPress
<1>2. r[c] /\ ~stable[c] /\ AgeNow(r, c) >= Debounce
  BY <1>1 DEF Calls, Accepted
<1>3. lastReading[c] /\ age[c] >= Debounce
  <2>1. r[c] = lastReading[c]
    <3>1. SUFFICES ASSUME r[c] # lastReading[c] PROVE FALSE
      BY Zenon
    <3>2. AgeNow(r, c) = 0
      BY <3>1, Zenon DEF AgeNow
    <3> QED
      BY <1>2, <3>2
  <2>2. AgeNow(r, c) = age[c]
    BY <2>1, Zenon DEF AgeNow
  <2>3. lastReading[c]
    BY <1>2, <2>1, Zenon
  <2> QED
    BY <1>2, <2>2, <2>3
<1>4. SUFFICES ASSUME owed[c] = 0 PROVE FALSE
  BY <1>1
<1>5. ~down[c] /\ Young(c)
  BY <1>1, <1>2, <1>3, <1>4 DEF ReleaseIsSeen
<1>6. chatter[c] > 0
  <2>1. chatter[c] # 0
    BY <1>1, <1>2, <1>5, Zenon
  <2> QED
    BY <1>1, <2>1
<1> QED
  BY <1>1, <1>3, <1>5, <1>6 DEF Young

(***************************************************************************)
(* Steps of the world.                                                      *)
(***************************************************************************)

LEMMA PressKeeps ==
    ASSUME ButtonsInv, NEW b \in Buttons, Press(b)
    PROVE  ButtonsInv'
<1> USE ButtonAssumption DEF ButtonsInv
<1>1. ButtonsTypeOK'
  BY DEF ButtonsTypeOK, Press, ram, Buttons
<1>2. AnswersAPress'
  BY DEF AnswersAPress, Press
<1>3. ASSUME NEW c \in Callbacks PROVE CallbackInv(c)'
  <2>1. CASE c = b
    BY <2>1, <1>3 DEF Press, CallbackInv, ReleaseIsSeen, HoldIsSeen, BootOutlastsChatter, Running
  <2>2. CASE c # b
    <3>1. down'[c] = down[c] /\ chatter'[c] = chatter[c] /\ owed'[c] = owed[c]
      BY <2>2, <1>3 DEF Press, ButtonsTypeOK, Buttons
    <3> QED
      BY <3>1, <1>3 DEF Press, ram, CallbackInv, ReleaseIsSeen, HoldIsSeen, BootOutlastsChatter,
                        Running, Young
  <2> QED
    BY <2>1, <2>2
<1> QED
  BY <1>1, <1>2, <1>3 DEF CallbackInv

LEMMA ReleaseKeeps ==
    ASSUME ButtonsInv, NEW b \in Buttons, Release(b)
    PROVE  ButtonsInv'
<1> USE ButtonAssumption DEF ButtonsInv
<1>1. ButtonsTypeOK'
  BY DEF ButtonsTypeOK, Release, ram, LongOpen
<1>2. AnswersAPress'
  BY DEF AnswersAPress, Release
<1>3. ASSUME NEW c \in Callbacks PROVE CallbackInv(c)'
  <2>1. CASE c = b
    \* The finger was on the button, so ReleaseIsSeen held vacuously and still does.
    BY <2>1, <1>3 DEF Release, ram, CallbackInv, ReleaseIsSeen, HoldIsSeen, BootOutlastsChatter,
                      Running, ButtonsTypeOK
  <2>2. CASE c # b
    <3>1. down'[c] = down[c] /\ chatter'[c] = chatter[c]
      BY <2>2, <1>3 DEF Release, ButtonsTypeOK, Buttons
    <3> QED
      BY <3>1, <1>3 DEF Release, ram, CallbackInv, ReleaseIsSeen, HoldIsSeen, BootOutlastsChatter,
                        Running, Young
  <2> QED
    BY <2>1, <2>2
<1> QED
  BY <1>1, <1>2, <1>3 DEF CallbackInv

LEMMA TickKeeps ==
    ASSUME ButtonsInv, Tick
    PROVE  ButtonsInv'
<1> USE ButtonAssumption DEF ButtonsInv
<1>1. ButtonsTypeOK'
  <2>1. longRelease' \in BOOLEAN /\ sampled' \in BOOLEAN /\ prompt' \in BOOLEAN
    BY Zenon DEF ButtonsTypeOK, Tick
  <2>2. open' \in 0..LongOpen /\ held' \in 0..Hold /\ boot' \in -1..BootTicks
    BY DEF ButtonsTypeOK, Tick, Later, Running, LongOpen
  <2>3. chatter' \in [Buttons -> 0..Bounce] /\ age' \in [Buttons -> 0..Debounce]
    BY DEF ButtonsTypeOK, Tick, Later
  <2> QED
    BY <2>1, <2>2, <2>3 DEF ButtonsTypeOK, Tick
<1>2. AnswersAPress'
  BY DEF AnswersAPress, Tick
<1>3. ASSUME NEW c \in Callbacks PROVE CallbackInv(c)'
  <2>1. /\ chatter[c] \in 0..Bounce /\ age[c] \in 0..Debounce
        /\ chatter'[c] = IF chatter[c] > 0 THEN chatter[c] - 1 ELSE 0
        /\ age'[c] = age[c] \/ age'[c] = age[c] + 1
    BY <1>3 DEF Tick, ButtonsTypeOK, Buttons, Later
  <2>2. Young(c) => Young(c)'
    BY <2>1 DEF Young
  <2>3. boot \in -1..BootTicks /\ boot # 0 /\ boot' = IF Running THEN boot ELSE boot - 1
    BY DEF Tick, ButtonsTypeOK
  <2>4. Running' <=> Running
    BY <2>3 DEF Running
  <2>5. ReleaseIsSeen(c)' /\ HoldIsSeen(c)'
    BY <1>3, <2>2, <2>4 DEF Tick, ReleaseIsSeen, HoldIsSeen
  <2>6. BootOutlastsChatter(c)'
    BY <1>3, <2>1, <2>3, <2>4 DEF Tick, BootOutlastsChatter, Running
  <2> QED
    BY <2>5, <2>6 DEF CallbackInv
<1> QED
  BY <1>1, <1>2, <1>3 DEF CallbackInv

(***************************************************************************)
(* Steps of the code.                                                       *)
(***************************************************************************)

LEMMA BeginKeeps ==
    ASSUME ButtonsInv, Begin
    PROVE  ButtonsInv'
<1> USE ButtonAssumption DEF ButtonsInv
<1>1. PICK r \in Readings : lastReading' = r /\ stable' = r
  BY DEF Begin
<1>2. ButtonsTypeOK'
  <2>1. lastReading' \in [Buttons -> BOOLEAN] /\ stable' \in [Buttons -> BOOLEAN]
    BY <1>1 DEF Readings
  <2>2. /\ triggered' \in BOOLEAN /\ longRelease' \in BOOLEAN
        /\ sampled' \in BOOLEAN /\ prompt' \in BOOLEAN
    BY Zenon DEF Begin
  <2>3. /\ age' \in [Buttons -> 0..Debounce] /\ held' \in 0..Hold
        /\ boot' \in -1..BootTicks
    BY DEF Begin
  <2> QED
    BY <2>1, <2>2, <2>3 DEF ButtonsTypeOK, Begin, pins
<1>3. AnswersAPress'
  BY DEF AnswersAPress, Begin
<1>4. ASSUME NEW c \in Callbacks PROVE CallbackInv(c)'
  <2>1. c \in Buttons
    BY DEF Buttons
  <2>2. chatter[c] \in 0..Bounce /\ owed[c] \in -1..1 /\ down[c] \in BOOLEAN
    BY <2>1 DEF ButtonsTypeOK
  \* The boot took longer than the chatter of any press made before it.
  <2>3. owed[c] = 0 /\ down[c] => r[c]
    BY <1>4, <2>1, <2>2, SampleOf DEF Begin, BootOutlastsChatter, Running
  <2>4. r[c] \in BOOLEAN
    BY <2>1, SampleOf
  <2> QED
    BY <1>1, <2>2, <2>3, <2>4 DEF Begin, pins, CallbackInv, ReleaseIsSeen, HoldIsSeen,
                                  BootOutlastsChatter, Running
<1> QED
  BY <1>2, <1>3, <1>4 DEF CallbackInv

\* One poll of the callback buttons keeps their part of the invariant, with
\* the device running on or starting to boot.
LEMMA PollKeeps ==
    ASSUME ButtonsInv, Running, NEW r \in Readings, NEW bs, Callbacks \subseteq bs,
           bs \subseteq Buttons, Polled(r, bs), UNCHANGED pins,
           boot' \in {-1, BootTicks}, NEW c \in Callbacks
    PROVE  owed'[c] \in 0..1 /\ CallbackInv(c)'
<1> USE ButtonAssumption
<1> c \in Buttons /\ c \in bs
  BY DEF Buttons
<1>1. /\ r[c] \in BOOLEAN /\ (chatter[c] = 0 => r[c] = down[c])
      /\ chatter[c] \in 0..Bounce /\ age[c] \in 0..Debounce /\ owed[c] \in 0..1
      /\ stable[c] \in BOOLEAN /\ down[c] \in BOOLEAN /\ lastReading[c] \in BOOLEAN
      /\ ReleaseIsSeen(c) /\ HoldIsSeen(c)
  BY SampleOf DEF ButtonsInv, ButtonsTypeOK, AnswersAPress
<1>2. /\ lastReading'[c] = r[c]
      /\ age'[c] = AgeNow(r, c)
      /\ stable'[c] = IF Accepted(r, c) THEN r[c] ELSE stable[c]
      /\ owed'[c] = IF Calls(r, c) THEN owed[c] - 1 ELSE owed[c]
      /\ chatter'[c] = chatter[c] /\ down'[c] = down[c]
  BY DEF Polled, pins
<1>3. Calls(r, c) => owed[c] = 1
  BY CallIsOwed
<1>4. owed'[c] \in 0..1
  BY <1>1, <1>2, <1>3
<1>5. BootOutlastsChatter(c)'
  BY <1>1, <1>2 DEF BootOutlastsChatter, Running
\* A sample that differs from the last one is as young as can be.
<1>6. (r[c] # lastReading[c] \/ Young(c)) => Young(c)'
  BY <1>1, <1>2 DEF Young, AgeNow
<1>7. ASSUME owed'[c] = 0 PROVE (~stable'[c] => ~down[c] /\ (r[c] => Young(c)'))
                               /\ (stable'[c] /\ down[c] /\ ~r[c] => Young(c)')
  <2>1. CASE Calls(r, c)
    BY <2>1, <1>1, <1>2 DEF Calls
  <2>2. CASE ~Calls(r, c) /\ Accepted(r, c)
    <3>1. owed[c] = 0 /\ ~r[c] /\ stable[c] /\ ~lastReading[c] /\ age[c] >= Debounce
      BY <2>2, <1>1, <1>2, <1>7 DEF Calls, Accepted, AgeNow
    <3>2. ~down[c]
      BY <3>1, <1>1, Running DEF HoldIsSeen, Young
    <3> QED
      BY <2>2, <3>1, <3>2, <1>1, <1>2
  <2>3. CASE ~Accepted(r, c)
    <3>1. owed[c] = 0 /\ stable'[c] = stable[c]
      BY <2>3, <1>1, <1>2, <1>7 DEF Calls
    <3>2. CASE r[c] # lastReading[c]
      BY <3>1, <3>2, <1>1, <1>6, Running DEF ReleaseIsSeen
    <3>3. CASE r[c] = lastReading[c]
      BY <3>1, <3>3, <1>1, <1>6, Running DEF ReleaseIsSeen, HoldIsSeen
    <3> QED
      BY <3>2, <3>3
  <2> QED
    BY <2>1, <2>2, <2>3
<1>8. ReleaseIsSeen(c)' /\ HoldIsSeen(c)'
  BY <1>2, <1>7 DEF ReleaseIsSeen, HoldIsSeen
<1> QED
  BY <1>4, <1>5, <1>8 DEF CallbackInv

LEMMA PollTypes ==
    ASSUME ButtonsTypeOK, NEW r \in Readings, NEW bs \in SUBSET Buttons, Polled(r, bs)
    PROVE  /\ lastReading' \in [Buttons -> BOOLEAN]
           /\ stable' \in [Buttons -> BOOLEAN]
           /\ age' \in [Buttons -> 0..Debounce]
           /\ DOMAIN owed' = Callbacks
           /\ owed' = [c \in Callbacks |-> owed'[c]]
<1>1. \A b \in Buttons : r[b] \in BOOLEAN
  BY SampleOf
<1> QED
  BY <1>1, ButtonAssumption DEF ButtonsTypeOK, Polled, AgeNow

\* update(), with and without a restart.
LEMMA UpdateKeeps ==
    ASSUME ButtonsInv, NEW r \in Readings, Update(r) \/ ResetButton(r) \/ FactoryReset(r)
    PROVE  ButtonsInv'
<1> USE ButtonAssumption
<1>1. PICK bs \in {Buttons, Callbacks} : Polled(r, bs)
  BY DEF Update, ResetButton, FactoryReset
<1>2. Callbacks \subseteq bs /\ bs \subseteq Buttons
  BY <1>1 DEF Buttons
<1>3. Running /\ UNCHANGED pins /\ boot' \in {-1, BootTicks}
  BY DEF Update, ResetButton, FactoryReset, Rebooting, Running
<1>4. \A c \in Callbacks : owed'[c] \in 0..1 /\ CallbackInv(c)'
  BY <1>1, <1>2, <1>3, PollKeeps
<1>5. ButtonsTypeOK
  BY DEF ButtonsInv
<1>6. /\ lastReading' \in [Buttons -> BOOLEAN]
      /\ stable' \in [Buttons -> BOOLEAN]
      /\ age' \in [Buttons -> 0..Debounce]
      /\ owed' \in [Callbacks -> 0..1]
  BY <1>1, <1>2, <1>4, <1>5, PollTypes
<1>7. held' \in 0..Hold /\ open' \in 0..LongOpen
  <2>1. held \in 0..Hold /\ open \in 0..LongOpen /\ 0 \in 0..Hold
    BY <1>5 DEF ButtonsTypeOK
  <2>2. HeldNow(r) \in 0..Hold
    BY <2>1, Zenon DEF HeldNow
  <2> QED
    BY <2>1, <2>2, Zenon DEF Update, ResetButton, FactoryReset
<1>8. /\ triggered' \in BOOLEAN /\ longRelease' \in BOOLEAN
      /\ sampled' \in BOOLEAN /\ prompt' \in BOOLEAN
  <2>1. /\ triggered \in BOOLEAN /\ longRelease \in BOOLEAN
        /\ sampled \in BOOLEAN /\ prompt \in BOOLEAN
    BY <1>5 DEF ButtonsTypeOK
  <2>2. TriggeredNow(r) \in BOOLEAN
    BY <2>1, Zenon DEF TriggeredNow
  <2>3. CASE Update(r)
    BY <2>1, <2>2, <2>3, Zenon DEF Update
  <2>4. CASE ResetButton(r)
    BY <2>1, <2>4, Zenon DEF ResetButton
  <2>5. CASE FactoryReset(r)
    BY <2>1, <2>5, Zenon DEF FactoryReset
  <2> QED
    BY <2>3, <2>4, <2>5
<1>9. ButtonsTypeOK'
  BY <1>3, <1>5, <1>6, <1>7, <1>8 DEF ButtonsTypeOK, pins
<1>10. AnswersAPress'
  BY <1>4 DEF AnswersAPress
<1> QED
  BY <1>4, <1>9, <1>10 DEF ButtonsInv, CallbackInv

LEMMA OtherRestartKeeps ==
    ASSUME ButtonsInv, OtherRestart
    PROVE  ButtonsInv'
<1> USE ButtonAssumption DEF ButtonsInv
<1>1. ButtonsTypeOK' /\ AnswersAPress'
  BY DEF ButtonsTypeOK, AnswersAPress, OtherRestart, Rebooting, pins, history
<1>2. ASSUME NEW c \in Callbacks PROVE CallbackInv(c)'
  <2>1. chatter[c] \in 0..Bounce
    BY DEF ButtonsTypeOK, Buttons
  <2> QED
    BY <2>1 DEF OtherRestart, Rebooting, pins, history, CallbackInv, ReleaseIsSeen, HoldIsSeen,
                BootOutlastsChatter, Running
<1> QED
  BY <1>1, <1>2 DEF CallbackInv

(***************************************************************************)
(* The callbacks' invariant.                                                *)
(***************************************************************************)

LEMMA ButtonsInvariant == ButtonsSpec => []ButtonsInv
<1>1. ButtonsInit => ButtonsInv
  <2> SUFFICES ASSUME ButtonsInit PROVE ButtonsInv
    OBVIOUS
  <2>1. /\ down \in [Buttons -> BOOLEAN] /\ lastReading \in [Buttons -> BOOLEAN]
        /\ stable \in [Buttons -> BOOLEAN] /\ triggered \in BOOLEAN
        /\ longRelease \in BOOLEAN /\ sampled \in BOOLEAN /\ prompt \in BOOLEAN
    BY DEF ButtonsInit
  <2>2. ButtonsTypeOK
    BY <2>1, ButtonAssumption DEF ButtonsInit, ButtonsTypeOK, LongOpen
  <2>3. AnswersAPress
    BY DEF ButtonsInit, AnswersAPress
  <2>4. ASSUME NEW c \in Callbacks PROVE CallbackInv(c)
    BY <2>4, ButtonAssumption
    DEF ButtonsInit, CallbackInv, ReleaseIsSeen, HoldIsSeen, BootOutlastsChatter, Running,
        Buttons, Young
  <2> QED
    BY <2>2, <2>3, <2>4 DEF ButtonsInv, CallbackInv
<1>2. ButtonsInv /\ [ButtonsNext]_buttonVars => ButtonsInv'
  <2> SUFFICES ASSUME ButtonsInv, [ButtonsNext]_buttonVars PROVE ButtonsInv'
    OBVIOUS
  <2>1. ASSUME NEW b \in Buttons, Press(b) \/ Release(b) PROVE ButtonsInv'
    BY <2>1, PressKeeps, ReleaseKeeps
  <2>2. CASE Tick
    BY <2>2, TickKeeps
  <2>3. CASE Begin
    BY <2>3, BeginKeeps
  <2>4. ASSUME NEW r \in Readings, Update(r) \/ ResetButton(r) \/ FactoryReset(r) PROVE ButtonsInv'
    BY <2>4, UpdateKeeps
  <2>5. CASE OtherRestart
    BY <2>5, OtherRestartKeeps
  <2>6. CASE UNCHANGED buttonVars
    BY <2>6 DEF buttonVars, pins, ram, history, ButtonsInv, ButtonsTypeOK, AnswersAPress,
                ReleaseIsSeen, HoldIsSeen, BootOutlastsChatter, Running, Young
  <2> QED
    BY <2>1, <2>2, <2>3, <2>4, <2>5, <2>6 DEF ButtonsNext
<1> QED
  BY <1>1, <1>2, PTL DEF ButtonsSpec

(***************************************************************************)
(* The hold of the BOOT button.  For how long the contact has been open,    *)
(* what its chatter still hides, what the last samples said and whether     *)
(* the press is still accepted go together, as long as the loop samples the *)
(* pins in every tick: after Bounce + Debounce ticks the release is         *)
(* accepted.  A contact that never chatters can open right after a sample,  *)
(* which the next tick repeats one tick too late, so Bounce is not 0 here.  *)
(***************************************************************************)

OpenCounts == ~down["factory"] /\ chatter["factory"] > 0 => open + chatter["factory"] = Bounce

ReleaseCounts ==
    Running /\ prompt /\ ~down["factory"] /\ stable["factory"] =>
        /\ open =< Bounce + Debounce
        /\ sampled => open < Bounce + Debounce
        /\ (open > Bounce \/ (open = Bounce /\ sampled)) =>
               ~lastReading["factory"] /\ age["factory"] >= open - Bounce

LongReleaseSeen == Running /\ prompt /\ longRelease => ~stable["factory"]

HoldInv == OpenCounts /\ ReleaseCounts /\ LongReleaseSeen

LEMMA HoldTypes ==
    ASSUME ButtonsTypeOK
    PROVE  /\ down["factory"] \in BOOLEAN /\ chatter["factory"] \in 0..Bounce
           /\ lastReading["factory"] \in BOOLEAN /\ stable["factory"] \in BOOLEAN
           /\ age["factory"] \in 0..Debounce /\ open \in 0..(Bounce + Debounce + 1)
           /\ longRelease \in BOOLEAN /\ sampled \in BOOLEAN /\ prompt \in BOOLEAN
           /\ boot \in -1..BootTicks /\ held \in 0..Hold /\ triggered \in BOOLEAN
           /\ Bounce \in Nat /\ Debounce \in Nat /\ Bounce < Debounce /\ BootTicks \in Nat
           /\ Hold \in Nat
  BY ButtonAssumption DEF ButtonsTypeOK, Buttons, LongOpen

\* A button that looks pressed with the finger off it was let go of a moment ago.
LEMMA ChatterIsShort ==
    ASSUME ButtonsTypeOK, HoldInv, NEW r \in Readings, r["factory"], ~down["factory"]
    PROVE  open < Bounce
<1>1. chatter["factory"] = 0 => r["factory"] = down["factory"]
  BY SampleOf DEF Buttons
<1>2. chatter["factory"] # 0
  BY <1>1, Zenon
<1> QED
  BY <1>2, HoldTypes DEF HoldInv, OpenCounts

\* Fingers: what they do to the other buttons does not matter, and a release starts the count.
LEMMA FingersKeepHold ==
    ASSUME 0 < Bounce, ButtonsTypeOK, HoldInv, NEW b \in Buttons, Press(b) \/ Release(b)
    PROVE  HoldInv'
<1>1. /\ Running' <=> Running
      /\ lastReading' = lastReading /\ stable' = stable /\ age' = age
      /\ prompt' = prompt /\ sampled' = sampled /\ longRelease' = longRelease
  BY DEF Press, Release, ram, Running
<1>2. LongReleaseSeen'
  BY <1>1 DEF HoldInv, LongReleaseSeen
<1>3. CASE b = "factory" /\ Press(b)
  <2>1. down'["factory"]
    BY <1>3 DEF Press, ButtonsTypeOK
  <2> QED
    BY <1>2, <2>1 DEF HoldInv, OpenCounts, ReleaseCounts
<1>4. CASE b = "factory" /\ Release(b)
  <2>1. open' = 0 /\ chatter'["factory"] = Bounce
    BY <1>4 DEF Release, ButtonsTypeOK
  <2> QED
    BY <1>2, <2>1, HoldTypes DEF HoldInv, OpenCounts, ReleaseCounts
<1>5. CASE b # "factory"
  <2>1. /\ down'["factory"] = down["factory"] /\ chatter'["factory"] = chatter["factory"]
        /\ open' = open
    BY <1>5 DEF Press, Release, ButtonsTypeOK, Buttons
  <2> QED
    BY <1>1, <1>2, <2>1 DEF HoldInv, OpenCounts, ReleaseCounts
<1> QED
  BY <1>3, <1>4, <1>5

LEMMA TickKeepsHold ==
    ASSUME 0 < Bounce, ButtonsTypeOK, HoldInv, Tick
    PROVE  HoldInv'
<1>1. /\ Running' <=> Running
      /\ down' = down /\ lastReading' = lastReading /\ stable' = stable
      /\ prompt' <=> prompt /\ sampled
      /\ ~sampled'
  BY HoldTypes DEF Tick, Running
<1>2. /\ chatter'["factory"] = IF chatter["factory"] > 0 THEN chatter["factory"] - 1 ELSE 0
      /\ age'["factory"] = Later(age["factory"], Debounce)
  BY DEF Tick, Buttons
<1>3. ~down["factory"] => open' = Later(open, LongOpen)
  BY DEF Tick
<1>4. OpenCounts'
  BY <1>1, <1>2, <1>3, HoldTypes DEF HoldInv, OpenCounts, Later, LongOpen
<1>5. ASSUME Running, prompt, sampled, ~down["factory"], stable["factory"]
      PROVE  /\ open' = open + 1 /\ open' =< Bounce + Debounce
             /\ open' > Bounce => ~lastReading["factory"] /\ age'["factory"] >= open' - Bounce
  <2>1. /\ open < Bounce + Debounce
        /\ open >= Bounce => ~lastReading["factory"] /\ age["factory"] >= open - Bounce
    BY <1>5, HoldTypes DEF HoldInv, ReleaseCounts
  <2> QED
    BY <1>2, <1>3, <1>5, <2>1, HoldTypes DEF Later, LongOpen
<1>6. ReleaseCounts'
  <2> SUFFICES ASSUME Running', prompt', ~down'["factory"], stable'["factory"]
               PROVE  /\ open' =< Bounce + Debounce
                      /\ open' > Bounce => ~lastReading'["factory"]
                                           /\ age'["factory"] >= open' - Bounce
    BY <1>1 DEF ReleaseCounts
  <2> QED
    BY <1>1, <1>5
<1>7. LongReleaseSeen'
  <2> SUFFICES ASSUME Running', prompt', longRelease', stable'["factory"] PROVE FALSE
    BY DEF LongReleaseSeen
  <2>1. Running /\ prompt /\ sampled /\ stable["factory"]
    BY <1>1
  <2>2. ~longRelease
    BY <2>1 DEF HoldInv, LongReleaseSeen
  <2>3. ~down["factory"] /\ open' = LongOpen
    BY <2>2 DEF Tick
  <2> QED
    BY <1>5, <2>1, <2>3, HoldTypes DEF LongOpen
<1> QED
  BY <1>4, <1>6, <1>7 DEF HoldInv

\* begin() takes a contact that is open for good as released.
LEMMA BeginKeepsHold ==
    ASSUME 0 < Bounce, ButtonsTypeOK, HoldInv, Begin
    PROVE  HoldInv'
<1>1. PICK r \in Readings : lastReading' = r /\ stable' = r
  BY DEF Begin
<1>2. UNCHANGED pins /\ open' = open /\ ~longRelease'
  BY DEF Begin
<1>3. ~down["factory"] /\ stable'["factory"] => open < Bounce
  BY <1>1, ChatterIsShort
<1> QED
  BY <1>2, <1>3, HoldTypes DEF HoldInv, OpenCounts, ReleaseCounts, LongReleaseSeen, pins

\* A sample of the pins that the device survives.
LEMMA UpdateKeepsHold ==
    ASSUME 0 < Bounce, ButtonsTypeOK, HoldInv, NEW r \in Readings, Update(r)
    PROVE  HoldInv'
<1>1. r["factory"] \in BOOLEAN
  BY SampleOf DEF Buttons
<1>2. /\ lastReading'["factory"] = r["factory"]
      /\ age'["factory"] = AgeNow(r, "factory")
      /\ stable'["factory"] = IF Accepted(r, "factory") THEN r["factory"] ELSE stable["factory"]
  BY DEF Update, Polled, Buttons
<1>3. UNCHANGED <<pins, open>> /\ (Running' <=> Running) /\ Running
  BY DEF Update, Running
<1>4. OpenCounts'
  BY <1>3 DEF HoldInv, OpenCounts, pins
<1>5. CASE Calls(r, "factory")
  <2>1. ~longRelease'
    BY <1>5 DEF Update
  <2>2. ~down["factory"] => open < Bounce
    BY <1>5, ChatterIsShort DEF Calls
  <2> QED
    BY <1>3, <1>4, <2>1, <2>2, HoldTypes DEF HoldInv, ReleaseCounts, LongReleaseSeen, pins
<1>6. CASE ~Calls(r, "factory")
  <2>1. prompt' = prompt /\ longRelease' = longRelease
    BY <1>6 DEF Update
  <2>2. stable'["factory"] => stable["factory"] /\ ~Accepted(r, "factory")
    BY <1>1, <1>2, <1>6, HoldTypes DEF Calls, Accepted
  <2>3. LongReleaseSeen'
    BY <1>3, <2>1, <2>2 DEF HoldInv, LongReleaseSeen
  <2>4. ASSUME prompt, ~down["factory"], stable["factory"], ~Accepted(r, "factory")
        PROVE  /\ open < Bounce + Debounce
               /\ open >= Bounce => ~r["factory"] /\ AgeNow(r, "factory") >= open - Bounce
    <3>1. CASE open < Bounce
      BY <3>1, HoldTypes
    <3>2. CASE open >= Bounce
      <4>1. ~r["factory"]
        BY <2>4, <3>2, HoldTypes, ChatterIsShort
      <4>2. /\ open =< Bounce + Debounce
            /\ open > Bounce => ~lastReading["factory"] /\ age["factory"] >= open - Bounce
        BY <1>3, <2>4 DEF HoldInv, ReleaseCounts
      <4>3. AgeNow(r, "factory") >= open - Bounce
        <5>1. CASE open = Bounce
          BY <5>1, HoldTypes DEF AgeNow
        <5>2. CASE open > Bounce
          <6>1. r["factory"] = lastReading["factory"]
            BY <1>1, <4>1, <4>2, <5>2, HoldTypes
          <6>2. AgeNow(r, "factory") = age["factory"]
            BY <6>1, Zenon DEF AgeNow
          <6> QED
            BY <4>2, <5>2, <6>2
        <5> QED
          BY <3>2, <5>1, <5>2, HoldTypes
      <4>4. ~(AgeNow(r, "factory") >= Debounce)
        BY <2>4, <4>1 DEF Accepted
      <4>5. AgeNow(r, "factory") \in 0..Debounce
        BY HoldTypes DEF AgeNow
      <4> QED
        BY <4>1, <4>2, <4>3, <4>4, <4>5, HoldTypes
    <3> QED
      BY <3>1, <3>2, HoldTypes
  <2>5. ReleaseCounts'
    <3> SUFFICES ASSUME prompt', ~down'["factory"], stable'["factory"]
                 PROVE  /\ open' < Bounce + Debounce
                        /\ open' >= Bounce => ~lastReading'["factory"]
                                              /\ age'["factory"] >= open' - Bounce
      BY <1>3, HoldTypes DEF ReleaseCounts
    <3> QED
      BY <1>2, <1>3, <2>1, <2>2, <2>4 DEF pins
  <2> QED
    BY <1>4, <2>3, <2>5 DEF HoldInv
<1> QED
  BY <1>5, <1>6

\* A restart leaves the pins alone, and what the samples said counts no more.
LEMMA RestartKeepsHold ==
    ASSUME ButtonsTypeOK, HoldInv, UNCHANGED <<pins, open>>, Rebooting
    PROVE  HoldInv'
<1>1. ~Running'
  BY HoldTypes DEF Rebooting, Running
<1> QED
  BY <1>1 DEF HoldInv, OpenCounts, ReleaseCounts, LongReleaseSeen, pins

LEMMA HoldInvariant == ASSUME 0 < Bounce PROVE ButtonsSpec => []HoldInv
<1>1. ButtonsInit => HoldInv
  BY ButtonAssumption DEF ButtonsInit, HoldInv, OpenCounts, ReleaseCounts, LongReleaseSeen,
                          Running, Buttons
<1>2. ButtonsInv /\ HoldInv /\ [ButtonsNext]_buttonVars => HoldInv'
  <2> SUFFICES ASSUME ButtonsTypeOK, HoldInv, [ButtonsNext]_buttonVars PROVE HoldInv'
    BY DEF ButtonsInv
  <2>1. ASSUME NEW b \in Buttons, Press(b) \/ Release(b) PROVE HoldInv'
    BY <2>1, FingersKeepHold
  <2>2. CASE Tick
    BY <2>2, TickKeepsHold
  <2>3. CASE Begin
    BY <2>3, BeginKeepsHold
  <2>4. ASSUME NEW r \in Readings, Update(r) PROVE HoldInv'
    BY <2>4, UpdateKeepsHold
  <2>5. ASSUME NEW r \in Readings, ResetButton(r) \/ FactoryReset(r) PROVE HoldInv'
    BY <2>5, RestartKeepsHold DEF ResetButton, FactoryReset
  <2>6. CASE OtherRestart
    BY <2>6, RestartKeepsHold DEF OtherRestart, history
  <2>7. CASE UNCHANGED buttonVars
    BY <2>7 DEF buttonVars, pins, ram, history, HoldInv, OpenCounts, ReleaseCounts,
                LongReleaseSeen, Running
  <2> QED
    BY <2>1, <2>2, <2>3, <2>4, <2>5, <2>6, <2>7 DEF ButtonsNext
<1> QED
  BY <1>1, <1>2, ButtonsInvariant, PTL DEF ButtonsSpec

(***************************************************************************)
(* The theorems about buttons.                                              *)
(***************************************************************************)

\* Every variable of ButtonManager stays in its range (ButtonManager.h).
THEOREM ButtonTypes == ButtonsSpec => []ButtonsTypeOK
<1>1. ButtonsInv => ButtonsTypeOK
  BY DEF ButtonsInv
<1> QED
  BY <1>1, ButtonsInvariant, PTL

\* pollButton() runs a callback at most once for each real press, whatever the
\* contact does while it chatters, however long the loop is blocked between two
\* samples, and across restarts.
THEOREM OnlyPressesAnswered == ButtonsSpec => []AnswersAPress
<1>1. ButtonsInv => AnswersAPress
  BY DEF ButtonsInv
<1> QED
  BY <1>1, ButtonsInvariant, PTL

\* The BOOT button clears the settings (handleFactoryResetButtonHold()) only when its contact
\* was not open for longer than debouncing hides since its press was accepted, given a loop that
\* sampled the pins in every tick since then. A contact that chatters and a hold that takes
\* time are needed: without the first a release right after a sample counts one tick late, and
\* without the second the press itself would clear the settings.
THEOREM HoldIsReal == ASSUME 0 < Bounce, 0 < Hold PROVE ButtonsSpec => SeenHoldIsReal
<1>1. ButtonsInv /\ HoldInv /\ [ButtonsNext]_buttonVars =>
          [triggered' /\ ~triggered => (prompt => ~longRelease)]_buttonVars
  <2> SUFFICES ASSUME ButtonsTypeOK, HoldInv, ButtonsNext, triggered', ~triggered,
                      prompt, longRelease
               PROVE  FALSE
    BY DEF ButtonsInv, buttonVars
  <2>1. PICK r \in Readings : FactoryReset(r)
    BY Zenon DEF ButtonsNext, Press, Release, Tick, Begin, Update, ResetButton, OtherRestart,
                 ram, TriggeredNow
  <2>2. ~stable["factory"]
    BY <2>1 DEF HoldInv, LongReleaseSeen, FactoryReset
  <2>3. Accepted(r, "factory") /\ r["factory"]
    <3>1. stable'["factory"] /\ Polled(r, Buttons)
      BY <2>1 DEF FactoryReset, HoldOver
    <3> QED
      BY <2>2, <3>1 DEF Polled, Buttons
  <2>4. HeldNow(r) = 0 /\ HeldNow(r) >= Hold
    BY <2>1, <2>3 DEF HeldNow, FactoryReset, HoldOver
  <2> QED
    BY <2>4, HoldTypes
<1> QED
  BY <1>1, ButtonsInvariant, HoldInvariant, PTL DEF ButtonsSpec, SeenHoldIsReal

(***************************************************************************)
(* Counting a run of samples at the end of a history.                       *)
(***************************************************************************)

\* c is the length of the run of members of S that ends at n, up to top.
Counts(S, n, c, top) ==
    /\ c \in 0..top /\ c =< n
    /\ ((n - c + 1)..n) \subseteq S
    /\ c < top => c = n \/ (n - c) \notin S

\* The run ends at k and is long enough.
Reached(S, k, top) == k >= top /\ ((k - top + 1)..k) \subseteq S

LEMMA CountGoesOn ==
    ASSUME NEW S, NEW T, NEW n \in Nat, NEW top \in Nat \ {0}, NEW c,
           Counts(S, n, c, top), \A i \in 1..n : i \in T <=> i \in S, n + 1 \in T
    PROVE  Counts(T, n + 1, Capped(c, top), top)
<1>1. c \in Nat /\ c =< top /\ c =< n /\ ((n - c + 1)..n) \subseteq S
      /\ (c < top => c = n \/ (n - c) \notin S)
  BY DEF Counts
<1>2. CASE c < top
  <2>1. Capped(c, top) = c + 1
    BY <1>2 DEF Capped
  <2>2. ((n + 1) - (c + 1) + 1)..(n + 1) \subseteq T
    BY <1>1
  <2>3. c + 1 = n + 1 \/ ((n + 1) - (c + 1)) \notin T
    <3>1. CASE c = n
      BY <3>1
    <3>2. CASE c # n
      <4>1. (n - c) \in 1..n /\ (n - c) \notin S
        BY <1>1, <1>2, <3>2
      <4>2. (n + 1) - (c + 1) = n - c
        BY <1>1
      <4> QED
        BY <4>1, <4>2
    <3> QED
      BY <3>1, <3>2
  <2>4. c + 1 \in 0..top /\ c + 1 =< n + 1
    BY <1>1, <1>2
  <2> QED
    BY <2>1, <2>2, <2>3, <2>4, Zenon DEF Counts
<1>3. CASE ~(c < top)
  <2>1. Capped(c, top) = c /\ c = top
    BY <1>1, <1>3 DEF Capped
  <2>2. ((n + 1) - c + 1)..(n + 1) \subseteq T
    BY <1>1, <2>1
  <2> QED
    BY <1>1, <1>3, <2>1, <2>2 DEF Counts
<1> QED
  BY <1>2, <1>3

LEMMA CountStartsAgain ==
    ASSUME NEW T, NEW n \in Nat, NEW top \in Nat \ {0}, n + 1 \notin T
    PROVE  Counts(T, n + 1, 0, top)
<1>1. ((n + 1) - 0 + 1)..(n + 1) = {} /\ (n + 1) - 0 = n + 1
  OBVIOUS
<1> QED
  BY <1>1 DEF Counts

\* The counter is at its limit exactly if the run is long enough.
LEMMA CountReaches ==
    ASSUME NEW S, NEW n \in Nat, NEW top \in Nat \ {0}, NEW c, Counts(S, n, c, top)
    PROVE  c >= top <=> Reached(S, n, top)
<1>1. c \in Nat /\ c =< top /\ c =< n /\ ((n - c + 1)..n) \subseteq S
      /\ (c < top => c = n \/ (n - c) \notin S)
  BY DEF Counts
<1>2. ASSUME c >= top PROVE Reached(S, n, top)
  <2>1. c = top
    BY <1>1, <1>2
  <2> QED
    BY <1>1, <2>1 DEF Reached
<1>3. ASSUME Reached(S, n, top) PROVE c >= top
  <2>1. SUFFICES ASSUME c < top PROVE FALSE
    BY <1>1
  <2>2. n >= top /\ ((n - top + 1)..n) \subseteq S
    BY <1>3 DEF Reached
  <2>3. (n - c) \in (n - top + 1)..n
    BY <1>1, <2>1, <2>2
  <2> QED
    BY <1>1, <2>1, <2>2, <2>3
<1> QED
  BY <1>2, <1>3

(***************************************************************************)
(* The reference definitions as functions of a history, for the samples and  *)
(* for those a setter's snapshot keeps.                                       *)
(***************************************************************************)

Good(h) == {i \in 1..Len(h) : InRange(h[i])}
Bad(h)  == {i \in 1..Len(h) : ~InRange(h[i])}

ConnectedAfter(h) ==
    \E k \in 1..Len(h) : /\ Reached(Good(h), k, PresentSamples)
                         /\ \A j \in (k + 1)..Len(h) : ~Reached(Bad(h), j, AbsentSamples)

LastGood(h, raw) ==
    \E k \in 1..Len(h) : InRange(h[k]) /\ raw = h[k] /\ \A i \in (k + 1)..Len(h) : ~InRange(h[i])

LEMMA SameReference ==
    ASSUME samples \in Seq(Raws)
    PROVE  /\ Connected <=> ConnectedAfter(samples)
           /\ \A raw : IsLastGood(raw) <=> LastGood(samples, raw)
<1> USE ProbeAssumption
<1>1. Len(samples) \in Nat
  OBVIOUS
<1>2. ASSUME NEW k \in 1..Len(samples)
      PROVE  /\ FoundAt(k) <=> Reached(Good(samples), k, PresentSamples)
             /\ LostAt(k) <=> Reached(Bad(samples), k, AbsentSamples)
  <2>1. ASSUME k >= PresentSamples
        PROVE  \A i \in (k - PresentSamples + 1)..k : i \in 1..Len(samples)
    BY <1>1, <2>1
  <2>2. ASSUME k >= AbsentSamples
        PROVE  \A i \in (k - AbsentSamples + 1)..k : i \in 1..Len(samples)
    BY <1>1, <2>2
  <2>3. FoundAt(k) <=> Reached(Good(samples), k, PresentSamples)
    BY <2>1 DEF FoundAt, AllInRange, Reached, Good
  <2>4. LostAt(k) <=> Reached(Bad(samples), k, AbsentSamples)
    BY <2>2 DEF LostAt, NoneInRange, Reached, Bad
  <2> QED
    BY <2>3, <2>4
<1>3. \A k \in 1..Len(samples) : \A j \in (k + 1)..Len(samples) : j \in 1..Len(samples)
  BY <1>1
<1>4. Connected <=> ConnectedAfter(samples)
  BY <1>2, <1>3 DEF Connected, ConnectedAfter
<1> QED
  BY <1>4 DEF IsLastGood, LastGood, NoneInRange

\* One more sample: what it makes of the reference.
LEMMA OneMore ==
    ASSUME NEW h \in Seq(Raws), NEW raw \in Raws
    PROVE  LET t == Append(h, raw)
               n == Len(h)
           IN  /\ Len(t) = n + 1 /\ t[n + 1] = raw /\ \A i \in 1..n : t[i] = h[i]
               /\ \A i \in 1..n : (i \in Good(t) <=> i \in Good(h)) /\ (i \in Bad(t) <=> i \in Bad(h))
               /\ n + 1 \in Good(t) <=> InRange(raw)
               /\ n + 1 \in Bad(t) <=> ~InRange(raw)
<1> DEFINE t == Append(h, raw)
           n == Len(h)
<1>1. n \in Nat /\ Len(t) = n + 1 /\ t[n + 1] = raw /\ \A i \in 1..n : t[i] = h[i]
  OBVIOUS
<1>2. \A i \in 1..n : i \in 1..(n + 1)
  BY <1>1
<1> HIDE DEF t
<1>3. n + 1 \in 1..(n + 1)
  BY <1>1
<1>4. \A i \in 1..n : (i \in Good(t) <=> i \in Good(h)) /\ (i \in Bad(t) <=> i \in Bad(h))
  BY <1>1, <1>2 DEF Good, Bad
<1>5. (n + 1 \in Good(t) <=> InRange(raw)) /\ (n + 1 \in Bad(t) <=> ~InRange(raw))
  BY <1>1, <1>3 DEF Good, Bad
<1> QED
  BY <1>1, <1>4, <1>5 DEF t

LEMMA ConnectedNext ==
    ASSUME NEW h \in Seq(Raws), NEW raw \in Raws
    PROVE  LET t == Append(h, raw)
               n == Len(h)
           IN  ConnectedAfter(t) <=>
                   \/ Reached(Good(t), n + 1, PresentSamples)
                   \/ ConnectedAfter(h) /\ ~Reached(Bad(t), n + 1, AbsentSamples)
<1> DEFINE t == Append(h, raw)
           n == Len(h)
<1> USE ProbeAssumption
<1>1. n \in Nat /\ Len(t) = n + 1
  BY OneMore
<1>2. ASSUME NEW k \in 1..n
      PROVE  /\ Reached(Good(t), k, PresentSamples) <=> Reached(Good(h), k, PresentSamples)
             /\ Reached(Bad(t), k, AbsentSamples) <=> Reached(Bad(h), k, AbsentSamples)
  <2>1. \A i \in 1..n : (i \in Good(t) <=> i \in Good(h)) /\ (i \in Bad(t) <=> i \in Bad(h))
    BY OneMore
  <2>2. ASSUME k >= PresentSamples PROVE \A i \in (k - PresentSamples + 1)..k : i \in 1..n
    BY <1>1, <2>2
  <2>3. ASSUME k >= AbsentSamples PROVE \A i \in (k - AbsentSamples + 1)..k : i \in 1..n
    BY <1>1, <2>3
  <2> HIDE DEF t, n
  <2>4. Reached(Good(t), k, PresentSamples) <=> Reached(Good(h), k, PresentSamples)
    BY <2>1, <2>2 DEF Reached
  <2>5. Reached(Bad(t), k, AbsentSamples) <=> Reached(Bad(h), k, AbsentSamples)
    BY <2>1, <2>3 DEF Reached
  <2> QED
    BY <2>4, <2>5
<1> DEFINE Since(k) == \A j \in (k + 1)..n : ~Reached(Bad(h), j, AbsentSamples)
<1>3. ConnectedAfter(h) <=> \E k \in 1..n : Reached(Good(h), k, PresentSamples) /\ Since(k)
  BY DEF ConnectedAfter
<1>4. ConnectedAfter(t) <=>
          \E k \in 1..(n + 1) : /\ Reached(Good(t), k, PresentSamples)
                                /\ \A j \in (k + 1)..(n + 1) : ~Reached(Bad(t), j, AbsentSamples)
  BY <1>1 DEF ConnectedAfter
<1> HIDE DEF t, n
<1>5. ASSUME NEW k \in 1..n
      PROVE  (\A j \in (k + 1)..(n + 1) : ~Reached(Bad(t), j, AbsentSamples))
                 <=> Since(k) /\ ~Reached(Bad(t), n + 1, AbsentSamples)
  <2>1. \A j \in (k + 1)..(n + 1) : j = n + 1 \/ (j \in (k + 1)..n /\ j \in 1..n)
    BY <1>1
  <2>2. \A j \in (k + 1)..n : j \in (k + 1)..(n + 1) /\ j \in 1..n
    BY <1>1
  <2>3. n + 1 \in (k + 1)..(n + 1)
    BY <1>1
  <2> QED
    BY <1>2, <2>1, <2>2, <2>3
<1>6. \A k \in 1..(n + 1) : k = n + 1 \/ k \in 1..n
  BY <1>1
<1>7. 1..n \subseteq 1..(n + 1) /\ n + 1 \in 1..(n + 1) /\ (n + 1 + 1)..(n + 1) = {}
  BY <1>1
<1>8. Reached(Good(t), n + 1, PresentSamples) => ConnectedAfter(t)
  BY <1>4, <1>7
<1>9. ConnectedAfter(h) /\ ~Reached(Bad(t), n + 1, AbsentSamples) => ConnectedAfter(t)
  BY <1>2, <1>3, <1>4, <1>5, <1>7
<1>10. ConnectedAfter(t) => \/ Reached(Good(t), n + 1, PresentSamples)
                            \/ ConnectedAfter(h) /\ ~Reached(Bad(t), n + 1, AbsentSamples)
  <2> SUFFICES ASSUME ConnectedAfter(t), ~Reached(Good(t), n + 1, PresentSamples)
               PROVE  ConnectedAfter(h) /\ ~Reached(Bad(t), n + 1, AbsentSamples)
    OBVIOUS
  <2>1. PICK k \in 1..(n + 1) : /\ Reached(Good(t), k, PresentSamples)
                                /\ \A j \in (k + 1)..(n + 1) : ~Reached(Bad(t), j, AbsentSamples)
    BY <1>4
  <2>2. k \in 1..n
    BY <1>6, <2>1
  <2> QED
    BY <1>2, <1>3, <1>5, <2>1, <2>2
<1> QED
  BY <1>8, <1>9, <1>10 DEF t, n

LEMMA LastGoodNext ==
    ASSUME NEW h \in Seq(Raws), NEW raw \in Raws
    PROVE  /\ InRange(raw) => LastGood(Append(h, raw), raw)
           /\ \A r : LastGood(h, r) /\ ~InRange(raw) => LastGood(Append(h, raw), r)
<1> DEFINE t == Append(h, raw)
           n == Len(h)
<1>1. n \in Nat /\ Len(t) = n + 1 /\ t[n + 1] = raw /\ \A i \in 1..n : t[i] = h[i]
  BY OneMore
<1> HIDE DEF t
<1>2. ASSUME InRange(raw) PROVE LastGood(t, raw)
  <2>1. n + 1 \in 1..Len(t) /\ (n + 1 + 1)..Len(t) = {}
    BY <1>1
  <2> QED
    BY <1>1, <1>2, <2>1 DEF LastGood
<1>3. ASSUME NEW r, LastGood(h, r), ~InRange(raw) PROVE LastGood(t, r)
  <2>1. PICK k \in 1..n : InRange(h[k]) /\ r = h[k] /\ \A i \in (k + 1)..n : ~InRange(h[i])
    BY <1>3 DEF LastGood
  <2>2. k \in 1..Len(t)
    BY <1>1
  <2>3. \A i \in (k + 1)..Len(t) : i = n + 1 \/ (i \in (k + 1)..n /\ i \in 1..n)
    BY <1>1
  <2>4. \A i \in (k + 1)..Len(t) : ~InRange(t[i])
    BY <1>1, <1>3, <2>1, <2>3
  <2> QED
    BY <1>1, <2>1, <2>2, <2>4 DEF LastGood
<1> QED
  BY <1>2, <1>3 DEF t

(***************************************************************************)
(* The filter follows its samples.                                          *)
(***************************************************************************)

FilterInv(f, h) ==
    /\ f \in Filters /\ h \in Seq(Raws)
    /\ Counts(Good(h), Len(h), f.inRange, PresentSamples)
    /\ Counts(Bad(h), Len(h), f.outOfRange, AbsentSamples)
    /\ f.present <=> ConnectedAfter(h)
    /\ f.present => LastGood(h, f.raw)

ReadingInv(f, r) == r \in ProbeReadings /\ r.present = f.present /\ r.saved = StableRaw(f)

\* A filter that was cleared has seen nothing.
LEMMA ClearFollows == FilterInv(ClearFilter, <<>>) /\ ReadingInv(ClearFilter, NoReading)
<1> USE ProbeAssumption
<1>1. ClearFilter \in Filters /\ <<>> \in Seq(Raws) /\ NoReading \in ProbeReadings
  BY DEF ClearFilter, Filters, NoReading, ProbeReadings
<1>2. Len(<<>>) = 0 /\ (0 - 0 + 1)..0 = {} /\ 1..0 = {}
  OBVIOUS
<1>3. \A S, top : top \in Nat \ {0} => Counts(S, 0, 0, top)
  BY <1>2 DEF Counts
<1>4. ~ConnectedAfter(<<>>)
  BY <1>2 DEF ConnectedAfter
<1>5. ClearFilter.inRange = 0 /\ ClearFilter.outOfRange = 0 /\ ClearFilter.present = FALSE
  BY DEF ClearFilter
<1>6. FilterInv(ClearFilter, <<>>)
  BY <1>1, <1>2, <1>3, <1>4, <1>5 DEF FilterInv
<1>7. ReadingInv(ClearFilter, NoReading)
  BY <1>1, <1>5 DEF ReadingInv, StableRaw, NoReading
<1> QED
  BY <1>6, <1>7

LEMMA FilterType ==
    ASSUME NEW a \in 0..PresentSamples, NEW b \in 0..AbsentSamples, NEW w \in Raws \cup {-1},
           NEW p \in BOOLEAN
    PROVE  [inRange |-> a, outOfRange |-> b, raw |-> w, present |-> p] \in Filters
  BY DEF Filters

LEMMA GoodFollows ==
    ASSUME NEW f, NEW h, NEW raw \in Raws, FilterInv(f, h), InRange(raw)
    PROVE  FilterInv(GoodSample(f, raw), Append(h, raw))
<1> DEFINE t == Append(h, raw)
           n == Len(h)
           g == GoodSample(f, raw)
           c == Capped(f.inRange, PresentSamples)
<1> USE ProbeAssumption
<1>1. h \in Seq(Raws) /\ n \in Nat /\ Len(t) = n + 1 /\ t \in Seq(Raws) /\ f \in Filters
  BY DEF FilterInv
<1>2. /\ n + 1 \in Good(t) /\ n + 1 \notin Bad(t)
      /\ \A i \in 1..n : i \in Good(t) <=> i \in Good(h)
  BY <1>1, OneMore
<1>3. Counts(Good(t), n + 1, c, PresentSamples) /\ Counts(Bad(t), n + 1, 0, AbsentSamples)
  <2>1. Counts(Good(h), n, f.inRange, PresentSamples)
    BY DEF FilterInv
  <2> HIDE DEF t, n
  <2> QED
    BY <1>1, <1>2, <2>1, CountGoesOn, CountStartsAgain
<1>4. c >= PresentSamples <=> Reached(Good(t), n + 1, PresentSamples)
  <2> HIDE DEF t, n, c
  <2> QED
    BY <1>1, <1>3, CountReaches
<1>5. ~Reached(Bad(t), n + 1, AbsentSamples)
  <2> HIDE DEF t, n
  <2>1. n + 1 \in (n + 1 - AbsentSamples + 1)..(n + 1)
    BY <1>1
  <2> QED
    BY <1>2, <2>1 DEF Reached
<1>6. ConnectedAfter(t) <=> c >= PresentSamples \/ f.present
  <2>1. ConnectedAfter(t) <=> \/ Reached(Good(t), n + 1, PresentSamples)
                              \/ ConnectedAfter(h) /\ ~Reached(Bad(t), n + 1, AbsentSamples)
    BY <1>1, ConnectedNext
  <2>2. f.present <=> ConnectedAfter(h)
    BY DEF FilterInv
  <2> QED
    BY <1>4, <1>5, <2>1, <2>2, Zenon
<1>7. g = [inRange |-> c, outOfRange |-> 0,
           raw |-> IF f.present \/ c >= PresentSamples THEN raw ELSE f.raw,
           present |-> f.present \/ c >= PresentSamples]
  BY Zenon DEF GoodSample
<1>8. c \in 0..PresentSamples
  BY <1>3 DEF Counts
<1>9. LastGood(t, raw)
  BY <1>1, LastGoodNext
<1> HIDE DEF t, n, c, g
<1>10. g.present <=> ConnectedAfter(t)
  <2>1. g.present = (f.present \/ c >= PresentSamples)
    BY <1>7
  <2> QED
    BY <1>6, <2>1, Zenon
<1>11. g.present => g.raw = raw
  BY <1>7
<1>12. g \in Filters
  <2>1. (f.present \/ c >= PresentSamples) \in BOOLEAN
    BY Zenon
  <2>2. (IF f.present \/ c >= PresentSamples THEN raw ELSE f.raw) \in Raws \cup {-1}
    BY <1>1 DEF Filters
  <2>3. 0 \in 0..AbsentSamples
    OBVIOUS
  <2> QED
    BY <1>7, <1>8, <2>1, <2>2, <2>3, FilterType
<1>13. g.inRange = c /\ g.outOfRange = 0
  BY <1>7
<1>14. FilterInv(g, t)
  BY <1>1, <1>3, <1>9, <1>10, <1>11, <1>12, <1>13, Zenon DEF FilterInv
<1> QED
  BY <1>14 DEF g, t

LEMMA BadFollows ==
    ASSUME NEW f, NEW h, NEW raw \in Raws, FilterInv(f, h), ~InRange(raw)
    PROVE  FilterInv(BadSample(f), Append(h, raw))
<1> DEFINE t == Append(h, raw)
           n == Len(h)
           g == BadSample(f)
           c == Capped(f.outOfRange, AbsentSamples)
           lost == f.present /\ c >= AbsentSamples
<1> USE ProbeAssumption
<1>1. h \in Seq(Raws) /\ n \in Nat /\ Len(t) = n + 1 /\ t \in Seq(Raws) /\ f \in Filters
  BY DEF FilterInv
<1>2. /\ n + 1 \in Bad(t) /\ n + 1 \notin Good(t)
      /\ \A i \in 1..n : i \in Bad(t) <=> i \in Bad(h)
  BY <1>1, OneMore
<1>3. Counts(Bad(t), n + 1, c, AbsentSamples) /\ Counts(Good(t), n + 1, 0, PresentSamples)
  <2>1. Counts(Bad(h), n, f.outOfRange, AbsentSamples)
    BY DEF FilterInv
  <2> HIDE DEF t, n
  <2> QED
    BY <1>1, <1>2, <2>1, CountGoesOn, CountStartsAgain
<1>4. c >= AbsentSamples <=> Reached(Bad(t), n + 1, AbsentSamples)
  <2> HIDE DEF t, n, c
  <2> QED
    BY <1>1, <1>3, CountReaches
<1>5. ~Reached(Good(t), n + 1, PresentSamples)
  <2> HIDE DEF t, n
  <2>1. n + 1 \in (n + 1 - PresentSamples + 1)..(n + 1)
    BY <1>1
  <2> QED
    BY <1>2, <2>1 DEF Reached
<1>6. ConnectedAfter(t) <=> f.present /\ ~lost
  <2>1. ConnectedAfter(t) <=> \/ Reached(Good(t), n + 1, PresentSamples)
                              \/ ConnectedAfter(h) /\ ~Reached(Bad(t), n + 1, AbsentSamples)
    BY <1>1, ConnectedNext
  <2>2. f.present <=> ConnectedAfter(h)
    BY DEF FilterInv
  <2> QED
    BY <1>4, <1>5, <2>1, <2>2, Zenon
<1>7. g = [inRange |-> 0, outOfRange |-> c, raw |-> IF lost THEN -1 ELSE f.raw,
           present |-> f.present /\ ~lost]
  BY Zenon DEF BadSample
<1>8. c \in 0..AbsentSamples
  BY <1>3 DEF Counts
<1>9. f.present => LastGood(t, f.raw)
  BY <1>1, LastGoodNext DEF FilterInv
<1> HIDE DEF t, n, c, lost, g
<1>10. g.present <=> ConnectedAfter(t)
  <2>1. g.present = (f.present /\ ~lost)
    BY <1>7
  <2> QED
    BY <1>6, <2>1, Zenon
<1>11. g.present => f.present /\ g.raw = f.raw
  BY <1>7
<1>12. g \in Filters
  <2>1. (f.present /\ ~lost) \in BOOLEAN
    BY Zenon
  <2>2. (IF lost THEN -1 ELSE f.raw) \in Raws \cup {-1}
    BY <1>1 DEF Filters
  <2>3. 0 \in 0..PresentSamples
    OBVIOUS
  <2> QED
    BY <1>7, <1>8, <2>1, <2>2, <2>3, FilterType
<1>13. g.inRange = 0 /\ g.outOfRange = c
  BY <1>7
<1>14. g.present => LastGood(t, g.raw)
  BY <1>9, <1>11
<1>15. FilterInv(g, t)
  BY <1>1, <1>3, <1>10, <1>12, <1>13, <1>14, Zenon DEF FilterInv
<1> QED
  BY <1>15 DEF g, t

LEMMA SampleFollows ==
    ASSUME NEW f, NEW h, NEW raw \in Raws, FilterInv(f, h)
    PROVE  FilterInv(Updated(f, raw), Append(h, raw))
  BY GoodFollows, BadFollows DEF Updated

(***************************************************************************)
(* The manager.                                                             *)
(***************************************************************************)

NoProbe(r) == ~r.present /\ r.saved = -1

SensorInv == FilterInv(filter, samples) /\ ReadingInv(filter, reading) /\ resting \in BOOLEAN

SettingsInv ==
    /\ calib \in Calibrations /\ stored \in Calibrations
    /\ calibLoaded \in BOOLEAN /\ settled \in BOOLEAN

\* What a setter copied is as sound as what it changed.
UndoInv ==
    /\ undo \in Seq(Sensors) /\ Len(undo) =< 1
    /\ undo # <<>> => /\ FilterInv(undo[1].filter, undo[1].samples)
                      /\ ReadingInv(undo[1].filter, undo[1].reading)

OffInv ==
    /\ ~calib.enabled /\ settled => NoProbe(reading)
    /\ undo # <<>> /\ ~undo[1].calib.enabled /\ settled => NoProbe(undo[1].reading)

ProbeInv == SensorInv /\ SettingsInv /\ UndoInv /\ OffInv

LEMMA ForgetFollows == ForgetReading => /\ FilterInv(filter, samples)' /\ ReadingInv(filter, reading)'
                                        /\ NoProbe(reading)'
<1> SUFFICES ASSUME ForgetReading
             PROVE  FilterInv(filter, samples)' /\ ReadingInv(filter, reading)' /\ NoProbe(reading)'
  OBVIOUS
<1>1. filter' = ClearFilter /\ reading' = NoReading /\ samples' = <<>>
  BY DEF ForgetReading
<1>2. FilterInv(filter', samples') /\ ReadingInv(filter', reading')
  BY <1>1, ClearFollows
<1> QED
  BY <1>1, <1>2 DEF NoProbe, NoReading, FilterInv, ReadingInv

LEMMA Defaults == NoPoint \in Points /\ DefaultCalibration \in Calibrations
  BY DEF NoPoint, Points, DefaultCalibration, Calibrations

LEMMA NothingToUndo == <<>> \in Seq(Sensors) /\ Len(<<>>) =< 1
  OBVIOUS

\* The snapshot of a setter is of the right type and keeps what the invariant says of the sensor.
LEMMA SnapshotFollows ==
    ASSUME ProbeInv, NEW c \in Calibrations
    PROVE  LET u == Snapshot(c)
           IN  /\ u \in Seq(Sensors) /\ Len(u) = 1 /\ u # <<>>
               /\ FilterInv(u[1].filter, u[1].samples) /\ ReadingInv(u[1].filter, u[1].reading)
               /\ u[1].calib = c /\ u[1].reading = reading
<1> DEFINE old == [calib |-> c, filter |-> filter, reading |-> reading,
                   resting |-> resting, samples |-> samples]
<1>1. old \in Sensors
  BY DEF ProbeInv, SensorInv, FilterInv, ReadingInv, Sensors
<1>2. /\ old.filter = filter /\ old.samples = samples /\ old.reading = reading /\ old.calib = c
  OBVIOUS
<1>3. Snapshot(c) = <<old>>
  BY DEF Snapshot
<1> HIDE DEF old
<1>4. <<old>> \in Seq(Sensors) /\ Len(<<old>>) = 1 /\ <<old>> # <<>> /\ <<old>>[1] = old
  BY <1>1
<1> QED
  BY <1>2, <1>3, <1>4 DEF ProbeInv, SensorInv

\* A setter that starts to save leaves the sensor alone and does not switch monitoring off, or
\* forgets the reading.
LEMMA SetterFollows ==
    ASSUME ProbeInv, NEW c \in {calib, stored}, NEW new \in Calibrations,
           LoadCalibration(c), StartSave(c, new),
           \/ UNCHANGED sensor /\ (c.enabled => new.enabled)
           \/ ForgetReading /\ resting' = FALSE
    PROVE  ProbeInv'
<1>1. /\ calib \in Calibrations /\ stored \in Calibrations /\ c \in Calibrations
      /\ calib.enabled \in BOOLEAN /\ c.enabled \in BOOLEAN /\ settled \in BOOLEAN
  BY DEF ProbeInv, SettingsInv, Calibrations
<1>2. calib' = new /\ stored' = stored /\ calibLoaded' = TRUE /\ undo' = Snapshot(c)
      /\ settled' = (settled /\ (c.enabled \/ ~calib.enabled))
  BY DEF StartSave, LoadCalibration
<1>3. SettingsInv'
  <2>1. settled' \in BOOLEAN
    BY <1>2, Zenon
  <2> QED
    BY <1>1, <1>2, <2>1 DEF SettingsInv
<1>4. UndoInv' /\ undo'[1].calib = c /\ undo'[1].reading = reading
  <2>1. /\ undo' \in Seq(Sensors) /\ Len(undo') = 1
        /\ FilterInv(undo'[1].filter, undo'[1].samples)
        /\ ReadingInv(undo'[1].filter, undo'[1].reading)
        /\ undo'[1].calib = c /\ undo'[1].reading = reading
    BY <1>1, <1>2, SnapshotFollows
  <2> QED
    BY <2>1 DEF UndoInv, FilterInv, ReadingInv
<1>5. settled' /\ ~c.enabled => NoProbe(reading)
  BY <1>1, <1>2, Zenon DEF ProbeInv, OffInv
<1>6. CASE UNCHANGED sensor /\ (c.enabled => new.enabled)
  <2>1. SensorInv' /\ reading' = reading
    BY <1>6 DEF ProbeInv, SensorInv, sensor, FilterInv, ReadingInv
  <2>2. OffInv'
    BY <1>2, <1>4, <1>5, <1>6, <2>1 DEF OffInv, NoProbe
  <2> QED
    BY <1>3, <1>4, <2>1, <2>2 DEF ProbeInv
<1>7. CASE ForgetReading /\ resting' = FALSE
  <2>1. SensorInv' /\ NoProbe(reading)'
    BY <1>7, ForgetFollows DEF SensorInv
  <2>2. OffInv'
    BY <1>2, <1>4, <1>5, <2>1 DEF OffInv, NoProbe
  <2> QED
    BY <1>3, <1>4, <2>1, <2>2 DEF ProbeInv
<1> QED
  BY <1>6, <1>7

\* A captured reference holds the raw value of a reading, and a temperature.
LEMMA CapturedPoint ==
    ASSUME ProbeInv, HasReading, NEW temp \in Temps
    PROVE  [raw |-> reading.saved, temp |-> temp] \in Points
<1>1. reading.saved \in Raws \cup {-1} /\ reading.saved >= 0
  BY DEF ProbeInv, SensorInv, ReadingInv, ProbeReadings, HasReading
<1>2. reading.saved \in Raws
  BY <1>1
<1> QED
  BY <1>2 DEF Points

LEMMA CaptureFollows ==
    ASSUME ProbeInv, NEW c \in {calib, stored}, NEW temp \in Temps,
           CaptureLow(c, temp) \/ CaptureHigh(c, temp)
    PROVE  ProbeInv'
<1> DEFINE point == [raw |-> reading.saved, temp |-> temp]
<1>1. point \in Points
  BY CapturedPoint DEF CaptureLow, CaptureHigh
<1>2. c \in Calibrations
  BY DEF ProbeInv, SettingsInv
<1> HIDE DEF point
<1>3. /\ [c EXCEPT !.low = point] \in Calibrations
      /\ [c EXCEPT !.high = point] \in Calibrations
      /\ [c EXCEPT !.low = point].enabled = c.enabled
      /\ [c EXCEPT !.high = point].enabled = c.enabled
  BY <1>1, <1>2 DEF Calibrations
<1>4. CASE CaptureLow(c, temp)
  <2>1. LoadCalibration(c) /\ StartSave(c, [c EXCEPT !.low = point]) /\ UNCHANGED sensor
    BY <1>4 DEF CaptureLow, point
  <2> QED
    BY <1>3, <2>1, SetterFollows
<1>5. CASE CaptureHigh(c, temp)
  <2>1. LoadCalibration(c) /\ StartSave(c, [c EXCEPT !.high = point]) /\ UNCHANGED sensor
    BY <1>5 DEF CaptureHigh, point
  <2> QED
    BY <1>3, <2>1, SetterFollows
<1> QED
  BY <1>4, <1>5

\* A reference that is set has a temperature.
LEMMA SetPoint == ASSUME NEW point \in Points, IsSet(point) PROVE point.temp \in Temps
  BY DEF Points, NoPoint, IsSet

LEMMA SettersFollow == ProbeInv /\ Setter => ProbeInv'
<1> SUFFICES ASSUME ProbeInv, Setter PROVE ProbeInv'
  OBVIOUS
<1>0. \A c \in {calib, stored} : c \in Calibrations
  BY DEF ProbeInv, SettingsInv
<1>1. CASE HandleMonitoring
  <2>1. PICK on \in BOOLEAN, c \in {calib, stored} :
            /\ LoadCalibration(c) /\ StartSave(c, [c EXCEPT !.enabled = on])
            /\ ForgetReading /\ resting' = FALSE
    BY <1>1 DEF HandleMonitoring, SetEnabled
  <2>2. [c EXCEPT !.enabled = on] \in Calibrations
    BY <1>0, <2>1 DEF Calibrations
  <2> QED
    BY <2>1, <2>2, SetterFollows
<1>2. CASE HandleCaptureLow \/ HandleCaptureHigh
  BY <1>2, CaptureFollows DEF HandleCaptureLow, HandleCaptureHigh
<1>3. CASE RunScheduled \/ RunSerial
  <2>1. PICK c \in {calib, stored} : \/ IsSet(c.low) /\ CaptureLow(c, c.low.temp)
                                     \/ IsSet(c.high) /\ CaptureHigh(c, c.high.temp)
    BY <1>3 DEF RunScheduled, RunSerial, CaptureUsingSaved
  <2>2. (IsSet(c.low) => c.low.temp \in Temps) /\ (IsSet(c.high) => c.high.temp \in Temps)
    BY <1>0, SetPoint DEF Calibrations
  <2> QED
    BY <2>1, <2>2, CaptureFollows
<1>4. CASE ResetCalibration
  <2>1. PICK c \in {calib, stored} :
            /\ LoadCalibration(c) /\ StartSave(c, [c EXCEPT !.low = NoPoint, !.high = NoPoint])
            /\ UNCHANGED sensor
    BY <1>4 DEF ResetCalibration
  <2>2. /\ [c EXCEPT !.low = NoPoint, !.high = NoPoint] \in Calibrations
        /\ [c EXCEPT !.low = NoPoint, !.high = NoPoint].enabled = c.enabled
    BY <1>0, Defaults DEF Calibrations
  <2> QED
    BY <2>1, <2>2, SetterFollows
<1>5. CASE SetTrimOffset
  BY <1>0, <1>5, SetterFollows DEF SetTrimOffset
<1>6. CASE UnifiedCalibration
  <2>1. PICK low \in Points \ {NoPoint}, high \in Points \ {NoPoint}, on \in BOOLEAN,
             c \in {calib, stored} :
            /\ LoadCalibration(c)
            /\ StartSave(c, [low |-> low, high |-> high, enabled |-> on])
            /\ IF on THEN UNCHANGED sensor ELSE ForgetReading /\ resting' = FALSE
    BY <1>6 DEF UnifiedCalibration, RestoreCalibration
  <2>2. /\ [low |-> low, high |-> high, enabled |-> on] \in Calibrations
        /\ [low |-> low, high |-> high, enabled |-> on].enabled = on
    BY <2>1 DEF Calibrations
  <2>3. \/ UNCHANGED sensor /\ on
        \/ ForgetReading /\ resting' = FALSE
    BY <2>1
  <2> QED
    BY <2>1, <2>2, <2>3, SetterFollows
<1>7. CASE Refuse
  <2>1. PICK c \in {calib, stored} :
            LoadCalibration(c) /\ calib' = c /\ UNCHANGED <<sensor, stored, undo>>
    BY <1>7 DEF Refuse
  <2>2. SensorInv' /\ SettingsInv' /\ UndoInv' /\ undo' = <<>> /\ reading' = reading
    <3>1. settled' \in BOOLEAN /\ calibLoaded' \in BOOLEAN
      BY <2>1, Zenon DEF LoadCalibration
    <3> QED
      BY <1>0, <2>1, <3>1 DEF ProbeInv, SensorInv, SettingsInv, UndoInv, LoadCalibration, sensor,
                              FilterInv, ReadingInv
  <2>3. settled' /\ ~c.enabled => NoProbe(reading)
    <3>1. calib.enabled \in BOOLEAN /\ c.enabled \in BOOLEAN
      BY <1>0 DEF Calibrations
    <3>2. settled' = (settled /\ (c.enabled \/ ~calib.enabled))
      BY <2>1 DEF LoadCalibration
    <3> QED
      BY <3>1, <3>2, Zenon DEF ProbeInv, OffInv
  <2> QED
    BY <2>1, <2>2, <2>3 DEF ProbeInv, OffInv, NoProbe
<1> QED
  BY <1>1, <1>2, <1>3, <1>4, <1>5, <1>6, <1>7 DEF Setter

LEMMA NextFollows == ProbeInv /\ [ProbeNext]_probeVars => ProbeInv'
<1> SUFFICES ASSUME ProbeInv, [ProbeNext]_probeVars PROVE ProbeInv'
  OBVIOUS
<1>1. ASSUME NEW raw \in Raws, Sample(raw) PROVE ProbeInv'
  <2>1. /\ filter' = Updated(filter, raw) /\ samples' = Append(samples, raw)
        /\ reading' = [present |-> filter'.present, last |-> raw, saved |-> StableRaw(filter')]
        /\ calib' = calib /\ calib.enabled /\ undo = <<>> /\ undo' = <<>>
    BY <1>1 DEF Sample
  <2>2. FilterInv(filter', samples')
    BY <2>1, SampleFollows DEF ProbeInv, SensorInv
  <2>3. ReadingInv(filter', reading')
    <3>1. filter'.present \in BOOLEAN /\ StableRaw(filter') \in Raws \cup {-1}
      BY <2>2 DEF FilterInv, Filters, StableRaw
    <3> QED
      BY <2>1, <3>1 DEF ReadingInv, ProbeReadings
  <2>4. SensorInv'
    BY <1>1, <2>2, <2>3 DEF Sample, SensorInv, FilterInv, ReadingInv
  <2>5. SettingsInv' /\ UndoInv'
    BY <1>1, <2>1 DEF Sample, ProbeInv, SettingsInv, UndoInv
  <2> QED
    BY <2>1, <2>4, <2>5 DEF ProbeInv, OffInv
<1>2. CASE MaintainDisabled
  <2>1. SensorInv' /\ NoProbe(reading)'
    BY <1>2, ForgetFollows DEF MaintainDisabled, ProbeInv, SensorInv
  <2>2. SettingsInv' /\ UndoInv' /\ undo' = <<>>
    BY <1>2 DEF MaintainDisabled, ProbeInv, SettingsInv, UndoInv
  <2> QED
    BY <2>1, <2>2 DEF ProbeInv, OffInv
<1>3. CASE IntervalOver
  <2>1. SensorInv'
    BY <1>3 DEF IntervalOver, ProbeInv, SensorInv, FilterInv, ReadingInv
  <2> QED
    BY <1>3, <2>1 DEF IntervalOver, ProbeInv, SettingsInv, UndoInv, OffInv, NoProbe
<1>4. CASE Setter
  BY <1>4, SettersFollow
<1>5. CASE SaveSucceeds
  <2>1. SensorInv' /\ reading' = reading
    BY <1>5 DEF SaveSucceeds, sensor, ProbeInv, SensorInv, FilterInv, ReadingInv
  <2>2. SettingsInv' /\ UndoInv' /\ undo' = <<>>
    BY <1>5, NothingToUndo DEF SaveSucceeds, ProbeInv, SettingsInv, UndoInv
  <2> QED
    BY <1>5, <2>1, <2>2 DEF SaveSucceeds, ProbeInv, OffInv, NoProbe
<1>6. CASE SaveFails
  <2>1. /\ undo # <<>> /\ undo' = <<>> /\ settled' = settled
        /\ filter' = undo[1].filter /\ samples' = undo[1].samples /\ reading' = undo[1].reading
        /\ resting' = undo[1].resting /\ calib' = undo[1].calib
        /\ stored' = stored /\ calibLoaded' = calibLoaded
    BY <1>6 DEF SaveFails
  <2>2. undo[1] \in Sensors
    BY <2>1 DEF ProbeInv, UndoInv
  <2>3. SensorInv'
    BY <2>1, <2>2 DEF ProbeInv, UndoInv, SensorInv, Sensors, FilterInv, ReadingInv
  <2>4. SettingsInv' /\ UndoInv'
    BY <2>1, <2>2, NothingToUndo DEF ProbeInv, SettingsInv, UndoInv, Sensors
  <2> QED
    BY <2>1, <2>3, <2>4 DEF ProbeInv, OffInv, NoProbe
<1>7. CASE Restart
  <2>1. filter' = ClearFilter /\ reading' = NoReading /\ samples' = <<>> /\ undo' = <<>>
    BY <1>7 DEF Restart
  <2>2. SensorInv' /\ NoProbe(reading)'
    <3>1. FilterInv(filter', samples') /\ ReadingInv(filter', reading')
      BY <2>1, ClearFollows
    <3>2. resting' \in BOOLEAN
      BY <1>7 DEF Restart
    <3>3. NoProbe(NoReading)
      BY DEF NoProbe, NoReading
    <3> QED
      BY <2>1, <3>1, <3>2, <3>3, Zenon DEF SensorInv, FilterInv, ReadingInv, NoProbe
  <2>3. SettingsInv' /\ UndoInv'
    <3>1. stored' \in Calibrations
      BY <1>7 DEF Restart, ProbeInv, SettingsInv
    <3> QED
      BY <1>7, <2>1, <3>1, Defaults, NothingToUndo DEF Restart, SettingsInv, UndoInv
  <2> QED
    BY <2>1, <2>2, <2>3 DEF ProbeInv, OffInv
<1>8. CASE UNCHANGED probeVars
  BY <1>8 DEF probeVars, sensor, ProbeInv, SensorInv, FilterInv, ReadingInv, SettingsInv, UndoInv,
              OffInv, NoProbe
<1> QED
  BY <1>1, <1>2, <1>3, <1>4, <1>5, <1>6, <1>7, <1>8 DEF ProbeNext

LEMMA InitFollows == ProbeInit => ProbeInv
<1> SUFFICES ASSUME ProbeInit PROVE ProbeInv
  OBVIOUS
<1>1. SensorInv /\ NoProbe(reading)
  BY ClearFollows DEF ProbeInit, SensorInv, NoProbe, NoReading
<1>2. SettingsInv /\ UndoInv /\ undo = <<>>
  BY Defaults, NothingToUndo DEF ProbeInit, SettingsInv, UndoInv
<1> QED
  BY <1>1, <1>2 DEF ProbeInv, OffInv

LEMMA InvHolds == ProbeSpec => []ProbeInv
  BY InitFollows, NextFollows, PTL DEF ProbeSpec

\* Every variable stays in its range, the filter's counters within their limits, also those a
\* setter copies and puts back.
THEOREM ProbeTypes == ProbeSpec => []ProbeTypeOK
<1>1. ProbeInv => ProbeTypeOK
  BY DEF ProbeInv, SensorInv, SettingsInv, UndoInv, FilterInv, ReadingInv, ProbeTypeOK
<1> QED
  BY <1>1, InvHolds, PTL

\* While monitoring is off there is no probe and no value to capture (DisabledReadsNothing), once
\* maintain() has run since the settings were loaded, also after a setter whose save failed has put
\* everything back.
THEOREM NoReadingWhenOff == ProbeSpec => []DisabledReadsNothing
<1>1. ProbeInv => DisabledReadsNothing
  BY DEF ProbeInv, OffInv, NoProbe, DisabledReadsNothing
<1> QED
  BY <1>1, InvHolds, PTL

\* The filter's counters decide as the history of samples does, however long it is
\* (ReadingMatchesHistory): a probe is there exactly if some run of good samples found it and no
\* run of bad ones lost it since, and the value captured is the last good sample's.
THEOREM ReadingFollowsHistory == ProbeSpec => []ReadingMatchesHistory
<1>1. ProbeInv => ReadingMatchesHistory
  <2> SUFFICES ASSUME ProbeInv PROVE ReadingMatchesHistory
    OBVIOUS
  <2>1. /\ samples \in Seq(Raws) /\ filter \in Filters
        /\ filter.present <=> ConnectedAfter(samples)
        /\ filter.present => LastGood(samples, filter.raw)
        /\ reading.present = filter.present /\ reading.saved = StableRaw(filter)
    BY DEF ProbeInv, SensorInv, FilterInv, ReadingInv
  <2>2. filter.present \in BOOLEAN /\ Connected \in BOOLEAN
    BY <2>1 DEF Filters, Connected
  <2>3. filter.present = Connected
    BY <2>1, <2>2, SameReference
  <2>4. Connected => IsLastGood(reading.saved)
    BY <2>1, <2>3, SameReference DEF StableRaw
  <2>5. ~Connected => reading.saved = -1
    BY <2>1, <2>3 DEF StableRaw
  <2> QED
    BY <2>1, <2>3, <2>4, <2>5 DEF ReadingMatchesHistory
<1> QED
  BY <1>1, InvHolds, PTL

(***************************************************************************)
(* Both together.                                                          *)
(***************************************************************************)

\* Every behaviour that the run of both models explores is one of the buttons
\* and one of the probe: what is proved of either holds of their composition.
THEOREM Composition == InputsSpec => ButtonsSpec /\ ProbeSpec
<1>1. InputsInit => ButtonsInit /\ ProbeInit
  BY DEF InputsInit
<1>2. [InputsNext]_<<buttonVars, probeVars, part>> =>
        [ButtonsNext]_buttonVars /\ [ProbeNext]_probeVars
  BY DEF InputsNext
<1> QED
  BY <1>1, <1>2, PTL DEF InputsSpec, ButtonsSpec, ProbeSpec

=============================================================================
