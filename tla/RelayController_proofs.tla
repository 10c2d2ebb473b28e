----------------------- MODULE RelayController_proofs -----------------------
(***************************************************************************)
(* Theorems about RelayController, for every timeout range, clock bound    *)
(* and fault mode.                                                         *)
(***************************************************************************)
EXTENDS RelayController, TLAPS

\* Sums and differences of times stay natural, and Wrap keeps them below MsWrap.
LEMMA WrapType == ASSUME NEW n \in Int PROVE Wrap(n) \in 0..(MsWrap - 1)
  BY ConstantsAssumption DEF Wrap

\* Both ways of writing the timer leave it well formed.
TimerWritten ==
  /\ armed' \in BOOLEAN
  /\ deadlineMs' \in 0..(MsWrap - 1)
  /\ deadlineEpoch' \in Nat
  /\ remaining' \in 0..(MsWrap - 1)

LEMMA ClearTimerType == ClearAutoOffTimer => TimerWritten
  <1> SUFFICES ASSUME ClearAutoOffTimer PROVE TimerWritten
    OBVIOUS
  <1>1. armed' \in BOOLEAN
    BY DEF ClearAutoOffTimer
  <1>2. 0 \in 0..(MsWrap - 1)
    BY ConstantsAssumption
  <1>3. deadlineMs' \in 0..(MsWrap - 1) /\ remaining' \in 0..(MsWrap - 1)
    BY <1>2 DEF ClearAutoOffTimer
  <1>4. deadlineEpoch' \in Nat
    BY DEF ClearAutoOffTimer
  <1>5. QED
    BY <1>1, <1>3, <1>4 DEF TimerWritten

LEMMA ArmTimerType ==
  ASSUME TimeType, NEW minutes \in 0..MaxMinutes, ArmAutoOffTimer(minutes)
  PROVE  TimerWritten
  <1>1. CASE minutes = 0
    BY <1>1, ClearTimerType DEF ArmAutoOffTimer
  <1>2. CASE minutes # 0
    <2>1. Wrap(ms + minutes) \in 0..(MsWrap - 1)
      BY ConstantsAssumption, WrapType DEF TimeType
    <2>2. armed' \in BOOLEAN
      BY <1>2 DEF ArmAutoOffTimer
    <2>3. QED
      BY <1>2, <2>1, <2>2, ConstantsAssumption DEF ArmAutoOffTimer, TimeType, TimerWritten
  <1>3. QED
    BY <1>1, <1>2

\* A write of persistState() leaves one key of the image in flash.
LEMMA PersistKeyType ==
  ASSUME TypeOK, PersistKey
  PROVE  NvsType'
  <1> USE DEF TypeOK, NvsType, TimerType, FlagType
  <1>1. step \in 1..5
    BY DEF PersistKey
  <1>2. CASE step = 1
    BY <1>2 DEF PersistKey, Keys, Image
  <1>3. CASE step = 2
    BY <1>3 DEF PersistKey, Keys, Image
  <1>4. CASE step = 3
    BY <1>4 DEF PersistKey, Keys, Image
  <1>5. CASE step = 4
    BY <1>5 DEF PersistKey, Keys, Image
  <1>6. CASE step = 5
    BY <1>6 DEF PersistKey, Keys, Image
  <1>7. QED
    BY <1>1, <1>2, <1>3, <1>4, <1>5, <1>6

\* Type correctness: in particular every millisecond value fits its word and no
\* stored timeout exceeds AUTO_OFF_MAX_MINUTES.
THEOREM TypeCorrect == Spec => []TypeOK
  <1> USE ConstantsAssumption, WrapType
  <1>1. Init => TypeOK
    <2> SUFFICES ASSUME Init PROVE TypeOK
      OBVIOUS
    <2>1. NvsType
      BY DEF Init, EmptyNvs, NvsType
    <2>2. TimerType
      BY DEF Init, EmptyNvs, TimerType
    <2>3. FlagType
      BY DEF Init, EmptyNvs, FlagType
    <2>4. ControlType
      BY DEF Init, EmptyNvs, ControlType
    <2>5. TimeType
      BY DEF Init, EmptyNvs, TimeType
    <2>6. QED
      BY <2>1, <2>2, <2>3, <2>4, <2>5 DEF TypeOK
  <1>2. TypeOK /\ [Next]_vars => TypeOK'
    <2> SUFFICES ASSUME TypeOK, [Next]_vars PROVE TypeOK'
      OBVIOUS
    <2> USE DEF TypeOK, ram, boot, ctl, time, ghost, Persist, TimerWritten
    <2> USE ClearTimerType, ArmTimerType
    <2>1. CASE PersistKey
      <3>1. NvsType'
        BY <2>1, PersistKeyType
      <3>2. TimerType' /\ FlagType' /\ TimeType'
        BY <2>1 DEF PersistKey, TimerType, FlagType, TimeType
      <3>3. off' \in {"no", "ram", "flash"}
        BY <2>1 DEF PersistKey, ControlType
      <3>4. ControlType'
        BY <2>1, <3>3 DEF PersistKey, ControlType
      <3>5. QED
        BY <3>1, <3>2, <3>4
    <2>2. CASE PersistUnavailable
      <3>1. FlagType' /\ ControlType'
        BY <2>2 DEF PersistUnavailable, FlagType, ControlType
      <3>2. NvsType' /\ TimerType' /\ TimeType'
        BY <2>2 DEF PersistUnavailable, NvsType, TimerType, TimeType
      <3>3. QED
        BY <3>1, <3>2
    <2>3. CASE PersistOpen
      <3>1. FlagType'
        BY <2>3, Zenon DEF PersistOpen, FlagType
      <3>2. ControlType'
        BY <2>3 DEF PersistOpen, ControlType
      <3>3. NvsType' /\ TimerType' /\ TimeType'
        BY <2>3 DEF PersistOpen, NvsType, TimerType, TimeType
      <3>4. QED
        BY <3>1, <3>2, <3>3
    <2>4. CASE LoadUnavailable
      <3>1. FlagType' /\ ControlType'
        BY <2>4 DEF LoadUnavailable, FlagType, ControlType
      <3>2. NvsType' /\ TimerType' /\ TimeType'
        BY <2>4 DEF LoadUnavailable, NvsType, TimerType, TimeType
      <3>3. QED
        BY <3>1, <3>2
    <2>5. CASE LoadWithoutTimer
      BY <2>5 DEF LoadWithoutTimer, NvsType, TimerType, FlagType, ControlType, TimeType
    <2>6. CASE LoadExpired
      <3>1. FlagType'
        BY <2>6, Zenon DEF LoadExpired, FlagType
      <3>2. ControlType'
        BY <2>6 DEF LoadExpired, ControlType
      <3>3. NvsType' /\ TimerType' /\ TimeType'
        BY <2>6 DEF LoadExpired, NvsType, TimerType, TimeType
      <3>4. QED
        BY <3>1, <3>2, <3>3
    <2>7. CASE LoadArmed
      BY <2>7 DEF LoadArmed, StoredTimer, StoredEpochUsable, NvsType, TimerType, FlagType, ControlType, TimeType
    <2>8. CASE ForceOff
      <3>1. FlagType'
        BY <2>8, Zenon DEF ForceOff, FlagType
      <3>2. ControlType'
        BY <2>8 DEF ForceOff, ControlType
      <3>3. NvsType' /\ TimerType' /\ TimeType'
        BY <2>8 DEF ForceOff, NvsType, TimerType, TimeType
      <3>4. QED
        BY <3>1, <3>2, <3>3
    <2>9. CASE KeepRestored
      <3>1. FlagType' /\ ControlType'
        BY <2>9 DEF KeepRestored, FlagType, ControlType
      <3>2. NvsType' /\ TimerType' /\ TimeType'
        BY <2>9 DEF KeepRestored, NvsType, TimerType, TimeType
      <3>3. QED
        BY <3>1, <3>2
    <2>10. CASE ApplyOutput
      BY <2>10 DEF ApplyOutput, NvsType, TimerType, FlagType, ControlType, TimeType
    <2>11. ASSUME NEW on \in BOOLEAN, Set(on) PROVE TypeOK'
      <3>0. TimerWritten
        BY <2>11, ArmTimerType, ClearTimerType DEF Set, Switch, TimerType, FlagType
      <3>1. FlagType'
        BY <2>11, <3>0, Zenon DEF Set, Switch, FlagType
      <3>2. ControlType'
        BY <2>11 DEF Set, Switch, ControlType
      <3>3. NvsType' /\ TimerType'
        BY <2>11 DEF Set, Switch, NvsType, TimerType, FlagType, TimeType
      <3>4. TimeType'
        BY <2>11, ConstantsAssumption DEF Set, Switch, Promised, TimerType, TimeType
      <3>5. QED
        BY <3>1, <3>2, <3>3, <3>4
    <2>12. CASE SetAgain
      <3>0. TimerWritten
        BY <2>12, ArmTimerType, ClearTimerType DEF SetAgain, TimerType, FlagType
      <3>1. FlagType'
        BY <2>12, <3>0, Zenon DEF SetAgain, FlagType
      <3>2. ControlType'
        BY <2>12 DEF SetAgain, ControlType
      <3>3. NvsType' /\ TimerType'
        BY <2>12 DEF SetAgain, NvsType, TimerType, FlagType, TimeType
      <3>4. TimeType'
        BY <2>12, ConstantsAssumption DEF SetAgain, Promised, TimerType, TimeType
      <3>5. QED
        BY <3>1, <3>2, <3>3, <3>4
    <2>13. ASSUME NEW minutes \in 0..MaxMinutes, SetAutoOffMinutes(minutes) PROVE TypeOK'
      <3>0. TimerWritten
        BY <2>13, ArmTimerType, ClearTimerType DEF SetAutoOffMinutes, TimerType, FlagType
      <3>1. FlagType'
        BY <2>13, <3>0, Zenon DEF SetAutoOffMinutes, FlagType
      <3>2. ControlType'
        BY <2>13 DEF SetAutoOffMinutes, ControlType
      <3>3. NvsType' /\ TimerType'
        BY <2>13 DEF SetAutoOffMinutes, NvsType, TimerType, FlagType, TimeType
      <3>4. TimeType'
        BY <2>13, ConstantsAssumption DEF SetAutoOffMinutes, Promised, TimerType, TimeType
      <3>5. QED
        BY <3>1, <3>2, <3>3, <3>4
    <2>14. CASE MaintainRunning
      BY <2>14 DEF MaintainRunning, Timed, Expired, UseEpoch, NvsType, TimerType, FlagType, ControlType, TimeType
    <2>15. CASE MaintainExpired
      <3>1. FlagType'
        BY <2>15, Zenon DEF MaintainExpired, Switch, FlagType
      <3>2. ControlType'
        BY <2>15 DEF MaintainExpired, Switch, ControlType
      <3>3. NvsType' /\ TimerType' /\ TimeType'
        BY <2>15 DEF MaintainExpired, Switch, NvsType, TimerType, TimeType
      <3>4. QED
        BY <3>1, <3>2, <3>3
    <2>16. CASE Notify
      BY <2>16 DEF Notify, NvsType, TimerType, FlagType, ControlType, TimeType
    <2>17. CASE Tick
      BY <2>17 DEF Tick, NvsType, TimerType, FlagType, ControlType, TimeType
    <2>18. CASE ClockStep
      BY <2>18 DEF ClockStep, NvsType, TimerType, FlagType, ControlType, TimeType
    <2>19. ASSUME NEW reason \in {"brownout", "other"}, NEW cold \in BOOLEAN, Reset(reason, cold)
           PROVE TypeOK'
      <3>1. FlagType'
        BY <2>19, Zenon DEF Reset, FlagType
      <3>2. ControlType'
        BY <2>19 DEF Reset, ControlType
      <3>3. NvsType' /\ TimerType' /\ TimeType'
        BY <2>19 DEF Reset, NvsType, TimerType, TimeType
      <3>4. QED
        BY <3>1, <3>2, <3>3
    <2>20. CASE UNCHANGED vars
      BY <2>20 DEF vars, NvsType, TimerType, FlagType, ControlType, TimeType
    <2>21. QED
      BY <2>1, <2>2, <2>3, <2>4, <2>5, <2>6, <2>7, <2>8, <2>9, <2>10, <2>11, <2>12, <2>13, <2>14, <2>15, <2>16, <2>17, <2>18, <2>19, <2>20
         DEF Next, Save, Boot, User, Maintain, Environment
  <1>3. QED
    BY <1>1, <1>2, PTL DEF Spec

-----------------------------------------------------------------------------
(* The timer guards the output. *)

\* Between a reset and the end of begin().
Booting == pc \in {"boot", "force", "output"} \/ (pc = "save" /\ after \in {"force", "output"})

\* From the end of begin() to the next reset.
Driven == pc \in {"idle", "notify"} \/ (pc = "save" /\ after \in {"idle", "notify"})

\* TimerGuardsOutput is not inductive: that SetAutoOffMinutes arms the timer of
\* an energised relay needs the GPIO to follow relayOn, and that loading leaves
\* the GPIO alone needs it to be low until begin() ends.
GuardInv ==
    /\ pin => relayOn
    /\ Driven => pin = relayOn
    /\ Booting => ~pin
    /\ armed <=> relayOn /\ autoOffMinutes > 0

LEMMA GuardHolds == Spec => []GuardInv
  <1>1. Init => GuardInv
    BY DEF Init, GuardInv, Booting, Driven
  <1>2. TypeOK /\ GuardInv /\ [Next]_vars => GuardInv'
    <2> SUFFICES ASSUME TypeOK, GuardInv, [Next]_vars PROVE GuardInv'
      OBVIOUS
    <2> USE DEF TypeOK, NvsType, TimerType, FlagType, ControlType, GuardInv, Booting, Driven,
                Persist, ClearAutoOffTimer, ArmAutoOffTimer, ram, boot, ctl, time, ghost
    <2>1. CASE PersistUnavailable
      BY <2>1 DEF PersistUnavailable
    <2>2. CASE PersistOpen
      BY <2>2 DEF PersistOpen
    <2>3. CASE PersistKey
      BY <2>3 DEF PersistKey
    <2>4. CASE LoadUnavailable
      BY <2>4 DEF LoadUnavailable
    <2>5. CASE LoadWithoutTimer
      BY <2>5 DEF LoadWithoutTimer
    <2>6. CASE LoadExpired
      <3>1. ~relayOn' /\ ~armed' /\ ~pin'
        BY <2>6, Zenon DEF LoadExpired, StoredTimer
      <3>2. pc' = "save" /\ after' = "force"
        BY <2>6 DEF LoadExpired
      <3>3. QED
        BY <3>1, <3>2
    <2>7. CASE LoadArmed
      BY <2>7 DEF LoadArmed, StoredTimer
    <2>8. CASE ForceOff
      BY <2>8 DEF ForceOff
    <2>9. CASE KeepRestored
      BY <2>9 DEF KeepRestored
    <2>10. CASE ApplyOutput
      BY <2>10 DEF ApplyOutput
    <2>11. ASSUME NEW on \in BOOLEAN, Set(on)
           PROVE GuardInv'
      BY <2>11 DEF Set, Switch
    <2>12. CASE SetAgain
      BY <2>12 DEF SetAgain
    <2>13. ASSUME NEW minutes \in 0..MaxMinutes, SetAutoOffMinutes(minutes)
           PROVE GuardInv'
      BY <2>13 DEF SetAutoOffMinutes
    <2>14. CASE MaintainRunning
      BY <2>14 DEF MaintainRunning, Timed
    <2>15. CASE MaintainExpired
      BY <2>15 DEF MaintainExpired, Switch, Timed
    <2>16. CASE Notify
      BY <2>16 DEF Notify
    <2>17. CASE Tick
      BY <2>17 DEF Tick
    <2>18. CASE ClockStep
      BY <2>18 DEF ClockStep
    <2>19. ASSUME NEW reason \in {"brownout", "other"}, NEW cold \in BOOLEAN, Reset(reason, cold)
           PROVE GuardInv'
      BY <2>19 DEF Reset
    <2>20. CASE UNCHANGED vars
      BY <2>20 DEF vars
    <2>21. QED
      BY <2>1, <2>2, <2>3, <2>4, <2>5, <2>6, <2>7, <2>8, <2>9, <2>10, <2>11, <2>12, <2>13,
         <2>14, <2>15, <2>16, <2>17, <2>18, <2>19, <2>20
         DEF Next, Save, Boot, User, Maintain, Environment
  <1>3. QED
    BY <1>1, <1>2, TypeCorrect, PTL DEF Spec

\* The timer is armed exactly while a relay with a timeout is on, whatever a
\* reset left in flash, and even when writes are lost or the clock is stepped.
THEOREM TimerGuarded == Spec => []TimerGuardsOutput
  <1>1. GuardInv => TimerGuardsOutput
    BY DEF GuardInv, TimerGuardsOutput
  <1>2. QED
    BY <1>1, GuardHolds, PTL

-----------------------------------------------------------------------------
(* Flash holds what RAM holds. *)

\* The writes of persistState() that are done, and what is known once it, or a
\* load, has returned with storageReady set.
MirrorInv ==
    /\ pc = "save" /\ ~lost =>
        /\ step > 1 => nvs.state = relayOn
        /\ step > 2 => nvs.auto_off_min = autoOffMinutes
        /\ step > 3 => nvs.auto_off_armed = armed
        /\ step > 4 => nvs.auto_off_epoch = deadlineEpoch
    /\ pc \in {"force", "output", "idle", "notify"} /\ storageReady /\ ~lost =>
        /\ nvs.state = relayOn
        /\ nvs.auto_off_min = autoOffMinutes
        /\ nvs.auto_off_armed = armed
        /\ nvs.auto_off_epoch = deadlineEpoch

\* The write of step i of persistState() is the only change to flash, and none
\* was lost before it if none is lost after it.
LEMMA PersistKeyWrites ==
  ASSUME TypeOK, PersistKey, ~lost'
  PROVE  /\ step \in 1..5
         /\ ~lost
         /\ nvs'.state = IF step = 1 THEN relayOn ELSE nvs.state
         /\ nvs'.auto_off_min = IF step = 2 THEN autoOffMinutes ELSE nvs.auto_off_min
         /\ nvs'.auto_off_armed = IF step = 3 THEN armed ELSE nvs.auto_off_armed
         /\ nvs'.auto_off_epoch = IF step = 4 THEN deadlineEpoch ELSE nvs.auto_off_epoch
  <1> USE DEF TypeOK, NvsType, FlagType, PersistKey, Keys, Image
  <1>1. step \in 1..5
    OBVIOUS
  <1>2. CASE step = 1
    BY <1>2
  <1>3. CASE step = 2
    BY <1>3
  <1>4. CASE step = 3
    BY <1>4
  <1>5. CASE step = 4
    BY <1>5
  <1>6. CASE step = 5
    BY <1>6
  <1>7. QED
    BY <1>1, <1>2, <1>3, <1>4, <1>5, <1>6

\* Every key agrees as soon as its write is done.
LEMMA MirrorHolds == Spec => []MirrorInv
  <1>1. Init => MirrorInv
    BY DEF Init, MirrorInv
  <1>2. TypeOK /\ MirrorInv /\ [Next]_vars => MirrorInv'
    <2> SUFFICES ASSUME TypeOK, MirrorInv, [Next]_vars PROVE MirrorInv'
      OBVIOUS
    <2> USE DEF TypeOK, NvsType, FlagType, ControlType, MirrorInv, Persist,
                ClearAutoOffTimer, ram, boot, ctl, time, ghost
    <2>1. CASE PersistUnavailable
      BY <2>1 DEF PersistUnavailable
    <2>2. CASE PersistOpen
      BY <2>2 DEF PersistOpen
    <2>3. CASE PersistKey
      <3>1. UNCHANGED <<relayOn, autoOffMinutes, armed, deadlineEpoch, after>>
        BY <2>3 DEF PersistKey
      <3>2. CASE lost'
        BY <3>2
      <3>3. ASSUME ~lost' PROVE MirrorInv'
        <4>1. /\ step \in 1..5 /\ ~lost
              /\ nvs'.state = IF step = 1 THEN relayOn ELSE nvs.state
              /\ nvs'.auto_off_min = IF step = 2 THEN autoOffMinutes ELSE nvs.auto_off_min
              /\ nvs'.auto_off_armed = IF step = 3 THEN armed ELSE nvs.auto_off_armed
              /\ nvs'.auto_off_epoch = IF step = 4 THEN deadlineEpoch ELSE nvs.auto_off_epoch
          BY <2>3, <3>3, PersistKeyWrites
        <4>2. pc = "save" /\ IF step < 5 THEN step' = step + 1 /\ pc' = "save"
                                        ELSE step' = 0 /\ pc' = after
          BY <2>3 DEF PersistKey
        <4>3. QED
          BY <3>1, <4>1, <4>2
      <3>4. QED
        BY <3>2, <3>3
    <2>4. CASE LoadUnavailable
      BY <2>4 DEF LoadUnavailable
    <2>5. CASE LoadWithoutTimer
      <3>1. CASE pc' = "save"
        BY <2>5, <3>1 DEF LoadWithoutTimer
      <3>2. CASE pc' = "force"
        <4>1. relayOn' = nvs'.state /\ autoOffMinutes' = nvs'.auto_off_min /\ ~armed'
          BY <2>5, Zenon DEF LoadWithoutTimer
        <4>2. nvs'.auto_off_epoch = 0 /\ deadlineEpoch' = 0
          BY <2>5, <3>2 DEF LoadWithoutTimer
        <4>3. ~nvs.auto_off_armed /\ nvs' = nvs /\ nvs.auto_off_armed \in BOOLEAN
          BY <2>5, <3>2 DEF LoadWithoutTimer
        <4>4. armed' = nvs'.auto_off_armed
          BY <2>5, <4>3, Zenon DEF LoadWithoutTimer
        <4>5. QED
          BY <3>2, <4>1, <4>2, <4>4
      <3>3. QED
        BY <2>5, <3>1, <3>2 DEF LoadWithoutTimer
    <2>6. CASE LoadExpired
      BY <2>6 DEF LoadExpired
    <2>7. CASE LoadArmed
      <3>1. CASE pc' = "save"
        <4>1. step' = 0
          BY <2>7, <3>1 DEF LoadArmed
        <4>2. QED
          BY <3>1, <4>1
      <3>2. CASE pc' = "force"
        BY <2>7, <3>2 DEF LoadArmed, StoredTimer
      <3>3. QED
        BY <2>7, <3>1, <3>2 DEF LoadArmed
    <2>8. CASE ForceOff
      BY <2>8 DEF ForceOff
    <2>9. CASE KeepRestored
      BY <2>9 DEF KeepRestored
    <2>10. CASE ApplyOutput
      BY <2>10 DEF ApplyOutput
    <2>11. ASSUME NEW on \in BOOLEAN, Set(on)
           PROVE MirrorInv'
      BY <2>11 DEF Set, Switch
    <2>12. CASE SetAgain
      BY <2>12 DEF SetAgain
    <2>13. ASSUME NEW minutes \in 0..MaxMinutes, SetAutoOffMinutes(minutes)
           PROVE MirrorInv'
      BY <2>13 DEF SetAutoOffMinutes
    <2>14. CASE MaintainRunning
      BY <2>14 DEF MaintainRunning, Timed
    <2>15. CASE MaintainExpired
      BY <2>15 DEF MaintainExpired, Switch, Timed
    <2>16. CASE Notify
      BY <2>16 DEF Notify
    <2>17. CASE Tick
      BY <2>17 DEF Tick
    <2>18. CASE ClockStep
      BY <2>18 DEF ClockStep
    <2>19. ASSUME NEW reason \in {"brownout", "other"}, NEW cold \in BOOLEAN, Reset(reason, cold)
           PROVE MirrorInv'
      BY <2>19 DEF Reset
    <2>20. CASE UNCHANGED vars
      BY <2>20 DEF vars
    <2>21. QED
      BY <2>1, <2>2, <2>3, <2>4, <2>5, <2>6, <2>7, <2>8, <2>9, <2>10, <2>11, <2>12, <2>13,
         <2>14, <2>15, <2>16, <2>17, <2>18, <2>19, <2>20
         DEF Next, Save, Boot, User, Maintain, Environment
  <1>3. QED
    BY <1>1, <1>2, TypeCorrect, PTL DEF Spec

\* An operation that returned with storageReady set, and whose writes flash took,
\* can be undone by no reset.
THEOREM StorageMirrored == Spec => []StorageMirrorsRam
  <1>1. MirrorInv => StorageMirrorsRam
    BY DEF MirrorInv, StorageMirrorsRam, Running
  <1>2. QED
    BY <1>1, MirrorHolds, PTL

-----------------------------------------------------------------------------
(* Off means off. *)

\* StaysOff is not inductive: a relay that is off has to be so in RAM, where ApplyOutput
\* takes it from, and in flash, once it was stored, where the next boot takes it from. After
\* a brownout the boot may have it on in RAM until ForceOff, never at the GPIO.
OffInv ==
    /\ off # "no" => ~pin
    /\ off = "flash" => ~nvs.state
    /\ off = "flash" /\ pc # "boot" => ~relayOn
    /\ pc = "boot" => ~relayOn
    /\ off = "ram" /\ pc = "boot" => bootReason = "brownout"
    /\ off = "ram" /\ relayOn =>
           bootReason = "brownout" /\ (pc = "force" \/ (pc = "save" /\ after = "force"))

\* No assumption on the writes, on the resets or on the clock is needed: a cut-off save or
\* a lost write only keeps the decision from being stored.
THEOREM OffStays == Spec => []StaysOff
  <1>1. Init => OffInv
    BY DEF Init, OffInv, EmptyNvs
  <1>2. TypeOK /\ GuardInv /\ MirrorInv /\ OffInv /\ [Next]_vars => OffInv'
    <2> SUFFICES ASSUME TypeOK, GuardInv, MirrorInv, OffInv, [Next]_vars PROVE OffInv'
      OBVIOUS
    <2> USE DEF TypeOK, NvsType, FlagType, ControlType, OffInv, ShouldForceRelayOff, Persist,
                ram, boot, ctl, time, ghost
    <2>1. CASE PersistUnavailable
      BY <2>1 DEF PersistUnavailable
    <2>2. CASE PersistOpen
      BY <2>2 DEF PersistOpen
    <2>3. CASE PersistKey
      <3>1. /\ UNCHANGED <<pin, relayOn, bootReason, after>>
            /\ pc = "save" /\ (pc' = "save" \/ (pc' = after /\ after # "boot"))
        BY <2>3 DEF PersistKey
      <3>2. off' = off \/ (off = "ram" /\ off' = "flash" /\ step = 5 /\ ~lost' /\ ~relayOn)
        BY <2>3 DEF PersistKey
      <3>3. nvs'.state = nvs.state \/ nvs'.state = relayOn
        BY <2>3 DEF PersistKey, Keys, Image
      <3>4. step = 5 /\ ~lost' => nvs'.state = relayOn
        <4> SUFFICES ASSUME step = 5, ~lost' PROVE nvs'.state = relayOn
          OBVIOUS
        <4>1. nvs'.state = nvs.state /\ ~lost
          BY <2>3, PersistKeyWrites
        <4>2. nvs.state = relayOn
          BY <3>1, <4>1 DEF MirrorInv
        <4>3. QED
          BY <4>1, <4>2
      <3>5. QED
        BY <3>1, <3>2, <3>3, <3>4
    <2>4. CASE LoadUnavailable
      BY <2>4 DEF LoadUnavailable
    <2>5. CASE LoadWithoutTimer
      BY <2>5 DEF LoadWithoutTimer
    <2>6. CASE LoadExpired
      <3>1. relayOn' = FALSE
        BY <2>6, Zenon DEF LoadExpired
      <3>2. pc = "boot" /\ pc' = "save" /\ off' = "ram" /\ pin' = pin
        BY <2>6 DEF LoadExpired, StoredTimer
      <3>3. ~pin
        BY <3>2 DEF GuardInv, Booting
      <3>4. QED
        BY <3>1, <3>2, <3>3
    <2>7. CASE LoadArmed
      BY <2>7 DEF LoadArmed, StoredTimer
    <2>8. CASE ForceOff
      BY <2>8 DEF ForceOff
    <2>9. CASE KeepRestored
      BY <2>9 DEF KeepRestored
    <2>10. CASE ApplyOutput
      BY <2>10 DEF ApplyOutput
    <2>11. ASSUME NEW on \in BOOLEAN, Set(on)
           PROVE OffInv'
      BY <2>11 DEF Set, Switch
    <2>12. CASE SetAgain
      BY <2>12 DEF SetAgain
    <2>13. ASSUME NEW minutes \in 0..MaxMinutes, SetAutoOffMinutes(minutes)
           PROVE OffInv'
      BY <2>13 DEF SetAutoOffMinutes
    <2>14. CASE MaintainRunning
      BY <2>14 DEF MaintainRunning, Timed
    <2>15. CASE MaintainExpired
      BY <2>15 DEF MaintainExpired, Switch, Timed
    <2>16. CASE Notify
      BY <2>16 DEF Notify
    <2>17. CASE Tick
      BY <2>17 DEF Tick
    <2>18. CASE ClockStep
      BY <2>18 DEF ClockStep
    <2>19. ASSUME NEW reason \in {"brownout", "other"}, NEW cold \in BOOLEAN, Reset(reason, cold)
           PROVE OffInv'
      BY <2>19 DEF Reset
    <2>20. CASE UNCHANGED vars
      BY <2>20 DEF vars
    <2>21. QED
      BY <2>1, <2>2, <2>3, <2>4, <2>5, <2>6, <2>7, <2>8, <2>9, <2>10, <2>11, <2>12, <2>13,
         <2>14, <2>15, <2>16, <2>17, <2>18, <2>19, <2>20
         DEF Next, Save, Boot, User, Maintain, Environment
  <1>3. OffInv => StaysOff
    BY DEF OffInv, StaysOff
  <1>4. QED
    BY <1>1, <1>2, <1>3, TypeCorrect, GuardHolds, MirrorHolds, PTL DEF Spec

-----------------------------------------------------------------------------
(* A promise is kept. *)

LEMMA WrapSmall == ASSUME NEW n \in 0..(MsWrap - 1) PROVE Wrap(n) = n
  BY ConstantsAssumption DEF Wrap

\* PromiseKept needs both deadlines to be late enough, and also what a boot computes them
\* from: the stored remaining time, which maintain() does not refresh, and millis() at 0. While
\* a clock is used, what maintain() computes for the day it is gone may wrap and be too short;
\* no save writes that down.
OwedInv ==
    /\ Booting => ms = 0
    /\ pc # "boot" /\ owed > 0 =>
           /\ relayOn /\ autoOffMinutes > 0
           /\ owed <= autoOffMinutes
           /\ deadlineEpoch > 0 => clk + owed <= deadlineEpoch
           /\ ~UseEpoch => ms + owed <= deadlineMs
           /\ pc = "save" => owed <= remaining
           /\ pc # "save" /\ storageReady /\ ~lost => owed <= nvs.auto_off_rem
    /\ pc = "boot" /\ owed > 0 =>
           /\ nvs.state /\ nvs.auto_off_min > 0
           /\ owed <= nvs.auto_off_min
           /\ nvs.auto_off_armed /\ owed <= nvs.auto_off_rem
           /\ nvs.auto_off_epoch > 0 => clk + owed <= nvs.auto_off_epoch

\* What an operation has to establish after which a promise of the timeout runs.
LEMMA ArmedKeepsPromise ==
  ASSUME TypeOK, NEW minutes \in 0..MaxMinutes, ArmAutoOffTimer(minutes), UNCHANGED time,
         owed' = Promised(minutes)
  PROVE  owed' > 0 => /\ owed' <= minutes
                      /\ deadlineEpoch' > 0 => clk + owed' <= deadlineEpoch'
                      /\ ms + owed' <= deadlineMs'
                      /\ owed' <= remaining'
  <1> USE ConstantsAssumption DEF TypeOK, TimeType
  <1>1. CASE minutes = 0
    BY <1>1 DEF ArmAutoOffTimer, ClearAutoOffTimer, Promised
  <1>2. CASE minutes > 0 /\ ms + minutes < MsWrap
    <2>1. Wrap(ms + minutes) = ms + minutes
      BY <1>2, WrapSmall
    <2>2. QED
      BY <1>2, <2>1 DEF ArmAutoOffTimer, HasRoom, Promised
  <1>3. CASE minutes > 0 /\ ~(ms + minutes < MsWrap)
    BY <1>3 DEF ArmAutoOffTimer, HasRoom, Promised
  <1>4. QED
    BY <1>1, <1>2, <1>3

\* A boot that finds a stored promise arms the timer for at least its rest.
LEMMA LoadKeepsPromise ==
  ASSUME TypeOK, OwedInv, LoadArmed, owed > 0
  PROVE  /\ owed <= nvs.auto_off_min /\ owed <= nvs.auto_off_rem
         /\ nvs.auto_off_epoch > 0 => clk + owed <= nvs.auto_off_epoch
         /\ ~StoredEpochUsable => ms + owed <= deadlineMs'
         /\ pc' = "save" => owed <= remaining'
  <1> USE ConstantsAssumption DEF TypeOK, NvsType, TimeType
  <1> DEFINE known  == IF StoredEpochUsable THEN Wrap(nvs.auto_off_epoch - clk)
                                            ELSE nvs.auto_off_rem
             left   == IF known = 0 THEN nvs.auto_off_min ELSE known
  <1>1. /\ nvs.auto_off_armed
        /\ owed <= nvs.auto_off_min /\ owed <= nvs.auto_off_rem
        /\ nvs.auto_off_epoch > 0 => clk + owed <= nvs.auto_off_epoch
        /\ ms = 0
    BY DEF LoadArmed, StoredTimer, OwedInv, Booting
  <1>2. /\ remaining' = left /\ deadlineMs' = Wrap(ms + left)
        /\ pc' = "save" => known = 0
    BY <1>1 DEF LoadArmed, Persist
  <1>3. ~StoredEpochUsable => ms + owed <= deadlineMs'
    <2> SUFFICES ASSUME ~StoredEpochUsable PROVE ms + owed <= deadlineMs'
      OBVIOUS
    <2>1. left \in 0..(MsWrap - 1) /\ owed <= left /\ ms + left = left
      BY <1>1
    <2>2. Wrap(left) = left
      BY <2>1, WrapSmall
    <2>3. QED
      BY <1>1, <1>2, <2>1, <2>2
  <1>4. pc' = "save" => owed <= remaining'
    BY <1>1, <1>2
  <1>5. QED
    BY <1>1, <1>3, <1>4

LEMMA EarlierClock ==
  ASSUME NEW now \in Nat, NEW before \in Nat, NEW rest \in Nat, NEW deadline \in Nat,
         now <= before, before + rest <= deadline
  PROVE  now + rest <= deadline
  OBVIOUS

\* The last write.
LEMMA PersistKeyRest ==
  ASSUME TypeOK, PersistKey
  PROVE  /\ step \in 1..5 /\ pc = "save"
         /\ step = 5 /\ ~lost' => nvs'.auto_off_rem = remaining
  BY DEF TypeOK, NvsType, FlagType, PersistKey, Keys, Image

\* A relay that a command left on stays energised for the promised time, across resets,
\* whatever writes get lost and however often and however far the clock is set back. It needs a
\* clock that is not set forward, which is what run relay_early violates.
THEOREM KeptPromise ==
  ASSUME "forward" \notin ClockSteps
  PROVE  Spec => []PromiseKept
  <1> USE ConstantsAssumption
  <1>1. Init => OwedInv
    BY DEF Init, OwedInv, Booting, EmptyNvs
  <1>2. TypeOK /\ GuardInv /\ MirrorInv /\ OwedInv /\ [Next]_vars => OwedInv'
    <2> SUFFICES ASSUME TypeOK, GuardInv, MirrorInv, OwedInv, [Next]_vars PROVE OwedInv'
      OBVIOUS
    <2> USE DEF TypeOK, NvsType, TimerType, FlagType, ControlType, TimeType, OwedInv, Booting,
                UseEpoch, Persist, ram, boot, ctl, time, ghost
    <2>1. CASE PersistUnavailable
      BY <2>1 DEF PersistUnavailable
    <2>2. CASE PersistOpen
      BY <2>2 DEF PersistOpen
    <2>3. CASE PersistKey
      <3>1. /\ step \in 1..5 /\ pc = "save"
            /\ step = 5 /\ ~lost' => nvs'.auto_off_rem = remaining
        BY <2>3, PersistKeyRest
      <3>2. /\ pc' = IF step < 5 THEN "save" ELSE after
            /\ UNCHANGED <<ram, time, owed, after>>
        BY <2>3 DEF PersistKey
      <3>3. QED
        BY <3>1, <3>2
    <2>4. CASE LoadUnavailable
      BY <2>4 DEF LoadUnavailable
    <2>5. CASE LoadWithoutTimer
      BY <2>5 DEF LoadWithoutTimer, ClearAutoOffTimer
    <2>6. CASE LoadExpired
      BY <2>6 DEF LoadExpired, StoredTimer, StoredEpochUsable, ClearAutoOffTimer
    <2>7. CASE LoadArmed
      <3>1. /\ pc = "boot" /\ pc' \in {"save", "force"} /\ (pc' = "save" => after' = "force")
            /\ nvs.state /\ nvs.auto_off_min > 0 /\ autoOffMinutes' = nvs.auto_off_min
            /\ deadlineEpoch' = nvs.auto_off_epoch
            /\ ms' = ms /\ clk' = clk /\ owed' = owed /\ nvs' = nvs
        BY <2>7 DEF LoadArmed, StoredTimer
      <3>2. relayOn' = TRUE
        BY <2>7, Zenon DEF LoadArmed
      <3>3. UseEpoch' <=> StoredEpochUsable
        BY <3>1 DEF StoredEpochUsable
      <3>4. owed > 0 => /\ owed <= nvs.auto_off_min /\ owed <= nvs.auto_off_rem
                        /\ nvs.auto_off_epoch > 0 => clk + owed <= nvs.auto_off_epoch
                        /\ ~StoredEpochUsable => ms + owed <= deadlineMs'
                        /\ pc' = "save" => owed <= remaining'
        BY <2>7, LoadKeepsPromise
      <3>5. QED
        BY <3>1, <3>2, <3>3, <3>4
    <2>8. CASE ForceOff
      BY <2>8 DEF ForceOff, ClearAutoOffTimer
    <2>9. CASE KeepRestored
      BY <2>9 DEF KeepRestored
    <2>10. CASE ApplyOutput
      BY <2>10 DEF ApplyOutput
    <2>11. ASSUME NEW on \in BOOLEAN, Set(on) PROVE OwedInv'
      <3>1. CASE on
        <4>1. /\ relayOn' = TRUE /\ autoOffMinutes' = autoOffMinutes
              /\ pc' = "save" /\ after' = "notify"
              /\ ms' = ms /\ clk' = clk /\ nvs' = nvs
          BY <2>11, <3>1, Zenon DEF Set, Switch
        <4>2. owed' > 0 => /\ owed' <= autoOffMinutes
                           /\ deadlineEpoch' > 0 => clk + owed' <= deadlineEpoch'
                           /\ ms + owed' <= deadlineMs'
                           /\ owed' <= remaining'
          BY <2>11, <3>1, ArmedKeepsPromise DEF Set, Switch
        <4>3. owed' > 0 => autoOffMinutes > 0
          BY <2>11, <3>1 DEF Set, Promised
        <4>4. QED
          BY <4>1, <4>2, <4>3
      <3>2. CASE ~on
        BY <2>11, <3>2 DEF Set, Switch, ClearAutoOffTimer
      <3>3. QED
        BY <3>1, <3>2
    <2>12. CASE SetAgain
      BY <2>12, ArmedKeepsPromise DEF SetAgain
    <2>13. ASSUME NEW minutes \in 0..MaxMinutes, SetAutoOffMinutes(minutes) PROVE OwedInv'
      <3>1. CASE minutes = 0
        BY <2>13, <3>1 DEF SetAutoOffMinutes, ClearAutoOffTimer
      <3>2. CASE minutes > 0 /\ relayOn
        BY <2>13, <3>2, ArmedKeepsPromise DEF SetAutoOffMinutes
      <3>3. CASE minutes > 0 /\ ~relayOn
        BY <2>13, <3>3 DEF SetAutoOffMinutes
      <3>4. QED
        BY <3>1, <3>2, <3>3
    <2>14. CASE MaintainRunning
      BY <2>14 DEF MaintainRunning, Timed
    <2>15. CASE MaintainExpired
      BY <2>15 DEF MaintainExpired, Switch, Timed, Expired, ClearAutoOffTimer
    <2>16. CASE Notify
      BY <2>16 DEF Notify
    <2>17. CASE Tick
      <3>1. owed' > 0 /\ ~UseEpoch' => ms' = ms + 1
        <4> SUFFICES ASSUME owed' > 0, ~UseEpoch' PROVE ms' = ms + 1
          OBVIOUS
        <4>1. owed > 1 /\ ms + owed <= deadlineMs
          BY <2>17 DEF Tick
        <4>2. ms + 1 \in 0..(MsWrap - 1)
          BY <4>1
        <4>3. QED
          BY <2>17, <4>2, WrapSmall DEF Tick
      <3>2. QED
        BY <2>17, <3>1 DEF Tick
    <2>18. CASE ClockStep
      <3>1. 0 < clk' /\ clk' < clk /\ clk' <= clk /\ clk' \in Nat
        BY <2>18, Zenon, SMT DEF ClockStep
      <3>2. UNCHANGED <<ram, ctl, ghost, ms, storageReady, nvs>>
        BY <2>18 DEF ClockStep
      <3>3. UseEpoch' <=> UseEpoch
        BY <3>1, <3>2
      <3>4. pc # "boot" /\ owed > 0 =>
               /\ deadlineEpoch > 0 => clk' + owed <= deadlineEpoch
               /\ ~UseEpoch' => ms + owed <= deadlineMs
        <4> SUFFICES ASSUME pc # "boot", owed > 0
                     PROVE  /\ deadlineEpoch > 0 => clk' + owed <= deadlineEpoch
                            /\ ~UseEpoch' => ms + owed <= deadlineMs
          OBVIOUS
        <4>1. clk \in Nat /\ owed \in Nat /\ deadlineEpoch \in Nat
          OBVIOUS
        <4>2. /\ deadlineEpoch > 0 => clk + owed <= deadlineEpoch
              /\ ~UseEpoch => ms + owed <= deadlineMs
          OBVIOUS
        <4> HIDE DEF TypeOK, OwedInv, UseEpoch
        <4>3. clk + owed <= deadlineEpoch => clk' + owed <= deadlineEpoch
          BY <3>1, <4>1, EarlierClock
        <4>4. QED
          BY <3>3, <4>2, <4>3
      <3>5. pc = "boot" /\ owed > 0 /\ nvs.auto_off_epoch > 0
               => clk' + owed <= nvs.auto_off_epoch
        BY <3>1
      <3>6. QED
        BY <3>2, <3>4, <3>5
    <2>19. ASSUME NEW reason \in {"brownout", "other"}, NEW cold \in BOOLEAN, Reset(reason, cold)
           PROVE OwedInv'
      <3>1. /\ pc' = "boot" /\ ms' = 0 /\ deadlineEpoch' = 0 /\ nvs' = nvs
            /\ clk' \in Nat /\ clk' <= clk
            /\ owed' > 0 => owed' = owed /\ (pc = "boot" \/ (pc # "save" /\ storageReady /\ ~lost))
        BY <2>19 DEF Reset, ClearAutoOffTimer
      <3>2. relayOn' = FALSE
        BY <2>19, Zenon DEF Reset
      <3>3. ASSUME owed' > 0
            PROVE  /\ nvs.state /\ nvs.auto_off_min > 0
                   /\ owed <= nvs.auto_off_min
                   /\ nvs.auto_off_armed /\ owed <= nvs.auto_off_rem
                   /\ nvs.auto_off_epoch > 0 => clk + owed <= nvs.auto_off_epoch
        <4>1. CASE pc = "boot"
          BY <3>1, <3>3, <4>1
        <4>2. CASE pc # "boot"
          <5>1. /\ pc \in {"force", "output", "idle", "notify"} /\ storageReady /\ ~lost
                /\ owed' = owed /\ owed > 0
            BY <3>1, <3>3, <4>2
          <5>2. /\ nvs.state = relayOn /\ nvs.auto_off_min = autoOffMinutes
                /\ nvs.auto_off_epoch = deadlineEpoch
            BY <5>1 DEF MirrorInv
          <5>3. owed <= nvs.auto_off_rem /\ relayOn /\ autoOffMinutes > 0
            BY <4>2, <5>1
          <5>4. nvs.auto_off_armed
            BY <5>1, <5>3, Zenon DEF MirrorInv, GuardInv
          <5>5. QED
            BY <4>2, <5>1, <5>2, <5>3, <5>4
        <4>3. QED
          BY <4>1, <4>2
      <3>4. owed' > 0 /\ nvs.auto_off_epoch > 0 => clk' + owed' <= nvs.auto_off_epoch
        <4>1. clk \in Nat /\ owed \in Nat /\ nvs.auto_off_epoch \in Nat
          OBVIOUS
        <4>2. clk + owed <= nvs.auto_off_epoch => clk' + owed <= nvs.auto_off_epoch
          BY <3>1, <4>1, EarlierClock
        <4> HIDE DEF TypeOK, OwedInv
        <4>3. QED
          BY <3>1, <3>3, <4>2
      <3>5. QED
        BY <3>1, <3>2, <3>3, <3>4
    <2>20. CASE UNCHANGED vars
      BY <2>20 DEF vars
    <2>21. QED
      BY <2>1, <2>2, <2>3, <2>4, <2>5, <2>6, <2>7, <2>8, <2>9, <2>10, <2>11, <2>12, <2>13,
         <2>14, <2>15, <2>16, <2>17, <2>18, <2>19, <2>20
         DEF Next, Save, Boot, User, Maintain, Environment
  <1>3. GuardInv /\ OwedInv => PromiseKept
    BY DEF GuardInv, Driven, OwedInv, PromiseKept, Running
  <1>4. Spec => []MirrorInv
    BY MirrorHolds
  <1>5. QED
    BY <1>1, <1>2, <1>3, <1>4, TypeCorrect, GuardHolds, PTL DEF Spec

=============================================================================
