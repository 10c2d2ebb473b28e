--------------------------- MODULE ScheduleManager ---------------------------
(***************************************************************************)
(* The schedule (src/src/ScheduleManager.cpp), the weekly OTA event that   *)
(* src/src/main.cpp keeps in it, and the web handlers that edit it         *)
(* (src/src/WebControlServer.cpp).                                         *)
(*                                                                         *)
(* Everything runs in the loop task. An operation changes the table in RAM *)
(* in one step and is followed by the puts of persistSettings(), between   *)
(* which the device may be reset; so may it between the slots that         *)
(* maintain() runs, because a command may restart the device.              *)
(*                                                                         *)
(* Local time is counted in minutes. A recurring event is due when the     *)
(* minute modulo Period is its own, a one-shot event in one minute.        *)
(***************************************************************************)
EXTENDS Integers, FiniteSetsExt

CONSTANTS
    SlotCount,  \* SCHEDULE_MAX_EVENTS
    IdMod,      \* 256: ids are uint8_t, 0 means no event
    Period,     \* minutes after which a recurring event is due again
    Data,       \* the events that are entered: [recurring, when, command]
    Weekly,     \* the weekly OTA event of applyWeeklyOtaUpdateSchedule()
    Horizon,    \* bound: the last minute of the clock
    MaxBack,    \* how far time may be set back below the latest minute seen
    MaxFaults   \* bound: failures of NVS

ASSUME ScheduleAssumption ==
    /\ SlotCount \in Nat \ {0}
    /\ IdMod \in Nat /\ IdMod > 1
    /\ Period \in Nat \ {0}
    /\ Data \subseteq [recurring : BOOLEAN, when : Nat, command : STRING]
    /\ Weekly \in Data /\ Weekly.recurring
    /\ Horizon \in Nat
    /\ MaxBack \in Nat /\ MaxBack < Period
    /\ MaxFaults \in Nat

Slots == 1..SlotCount
Minutes == 0..Horizon
Ids == 1..(IdMod - 1)
Never == -1

VARIABLES
    events,      \* the table; id 0 is an unused slot
    nextId,
    autoOta,     \* otaAutoScheduleEnabled
    nvs,         \* namespace of the schedule: next id and slots; and the auto flag
    pc,          \* where the loop task is
    slot,        \* the slot maintain() or persistSettings() is at
    stamp,       \* the minute maintain() works with
    changed,     \* maintain() has to save
    now,         \* local minute
    timeValid,
    latest,      \* history: the latest minute the clock has shown
    ran,         \* history: per slot, the minutes it was run in since it was last armed
    spent,       \* history: slots with a one-shot event that ran and is off in flash since
    restarted,   \* history: the numbering of events started again
    unsaved,     \* history: the last persistSettings() could not open NVS
    lost,        \* history: the keys whose last put did not reach flash
    faults       \* counts failures of NVS

table == <<events, nextId, autoOta>>
loop  == <<pc, slot, stamp, changed>>
clock == <<now, timeValid, latest>>
failures == <<unsaved, lost, faults>>
ghost == <<ran, spent, restarted, failures>>
vars  == <<table, nvs, loop, clock, ghost>>

Free == [id |-> 0, enabled |-> FALSE, data |-> Weekly, last |-> Never]
Event(id, data, enabled) == [id |-> id, enabled |-> enabled, data |-> data, last |-> Never]

\* serialize(): everything but the minute of the last run.
Serialize(e) == [id |-> e.id, enabled |-> e.enabled, data |-> e.data]

Deserialize(line) == Event(line.id, line.data, line.enabled)

Used(s) == events[s].id # 0
Lowest(S) == IF S = {} THEN 0 ELSE Min(S)
FindSlotById(id) == Lowest({s \in Slots : events[s].id = id})
FirstFreeSlot == Lowest({s \in Slots : ~Used(s)})
FindWeekly == Lowest({s \in Slots : Used(s) /\ events[s].data = Weekly})

\* Mutant: 0 is given out as an id.
Following_Zero(id) == (id + 1) % IdMod

Following(id) == IF id + 1 = IdMod THEN 1 ELSE id + 1

\* Mutant: the minute of the last run is not looked at.
ShouldRun_NoDedup(e) ==
    /\ e.id # 0 /\ e.enabled
    /\ IF e.data.recurring THEN stamp % Period = e.data.when ELSE stamp = e.data.when

ShouldRun(e) ==
    /\ e.id # 0 /\ e.enabled
    /\ e.last # stamp
    /\ IF e.data.recurring THEN stamp % Period = e.data.when ELSE stamp = e.data.when

-----------------------------------------------------------------------------
(* persistSettings(): open NVS, the next id, then the slots in order. *)

Persist == pc' = "persist" /\ slot' = 0 /\ stamp' = 0 /\ changed' = FALSE

\* The key of the next id; those of the slots are the slots.
NextIdKey == 0

Fault == faults < MaxFaults /\ faults' = faults + 1

\* preferences.put...(): its result is not looked at, and a full flash loses it silently.
PutKey(key, image) ==
    \/ nvs' = image /\ lost' = lost \ {key} /\ UNCHANGED faults
    \/ Fault /\ lost' = lost \cup {key} /\ UNCHANGED nvs

\* The locals of the operation are gone.
Return == pc' = "idle" /\ slot' = 0 /\ stamp' = 0 /\ changed' = FALSE

PersistUnavailable ==
    /\ pc = "persist" /\ slot = 0
    /\ Fault
    /\ Return
    /\ unsaved' = TRUE
    /\ UNCHANGED <<table, nvs, clock, ran, spent, restarted, lost>>

\* Mutant: the next id is not saved.
PersistNextId_Skipped ==
    /\ pc = "persist" /\ slot = 0
    /\ slot' = 1
    /\ UNCHANGED <<table, nvs, pc, stamp, changed, clock, ghost>>

PersistNextId ==
    /\ pc = "persist" /\ slot = 0
    /\ PutKey(NextIdKey, [nvs EXCEPT !.next = nextId])
    /\ slot' = 1
    /\ UNCHANGED <<table, pc, stamp, changed, clock, ran, spent, restarted, unsaved>>

\* A one-shot event that maintain() has run, and switched off.
Ended(s) == Used(s) /\ ~events[s].data.recurring /\ ran[s] # {}

PersistSlot ==
    /\ pc = "persist" /\ slot \in Slots
    /\ PutKey(slot, [nvs EXCEPT !.slots[slot] = Serialize(events[slot])])
    /\ spent' = [spent EXCEPT ![slot] = @ \/ (slot \notin lost' /\ Ended(slot))]
    /\ slot' = slot + 1
    /\ UNCHANGED <<table, pc, stamp, changed, clock, ran, restarted, unsaved>>

Saved ==
    /\ pc = "persist" /\ slot = SlotCount + 1
    /\ Return
    /\ unsaved' = FALSE
    /\ UNCHANGED <<table, nvs, clock, ran, spent, restarted, lost, faults>>

-----------------------------------------------------------------------------
(* Editing the table. *)

\* Slot s holds another event, or the same one armed again.
Put(s, e) ==
    /\ events' = [events EXCEPT ![s] = e]
    /\ ran' = [ran EXCEPT ![s] = {}]
    /\ spent' = [spent EXCEPT ![s] = FALSE]

MayEdit == pc = "idle"

\* addEvent() once its arguments are valid and there is room.
AddEvent(data, enabled) ==
    /\ FirstFreeSlot # 0
    /\ Put(FirstFreeSlot, Event(nextId, data, enabled))
    /\ nextId' = Following(nextId)
    /\ restarted' = (restarted \/ nextId + 1 = IdMod)
    /\ Persist

\* The handlers of POST /schedule/add, update and delete.
ScheduleAdd ==
    /\ MayEdit
    /\ \E data \in Data, enabled \in BOOLEAN : AddEvent(data, enabled)
    /\ UNCHANGED <<autoOta, nvs, clock, failures>>

ScheduleUpdate ==
    /\ MayEdit
    /\ \E id \in Ids, data \in Data, enabled \in BOOLEAN :
         /\ FindSlotById(id) # 0
         /\ Put(FindSlotById(id), Event(id, data, enabled))
    /\ Persist
    /\ UNCHANGED <<nextId, autoOta, nvs, clock, restarted, failures>>

\* Mutant: the change is not saved.
ScheduleDelete_NotSaved ==
    /\ MayEdit
    /\ \E id \in Ids : FindSlotById(id) # 0 /\ Put(FindSlotById(id), Free)
    /\ UNCHANGED <<nextId, autoOta, nvs, loop, clock, restarted, failures>>

ScheduleDelete ==
    /\ MayEdit
    /\ \E id \in Ids : FindSlotById(id) # 0 /\ Put(FindSlotById(id), Free)
    /\ Persist
    /\ UNCHANGED <<nextId, autoOta, nvs, clock, restarted, failures>>

\* setOtaAutoScheduleEnabled(): its flag is saved first; then the event is applied.
SetOtaAutoSchedule ==
    /\ MayEdit
    /\ autoOta' \in BOOLEAN
    /\ nvs' = [nvs EXCEPT !.auto = autoOta']
    /\ pc' = "apply"
    /\ UNCHANGED <<events, nextId, slot, stamp, changed, clock, ghost>>

\* applyWeeklyOtaUpdateSchedule(): ensureRecurringEvent() or removeRecurringEvent()
\* on the first event that has its day, time and command.
EnsureAdds ==
    /\ pc = "apply" /\ autoOta /\ FindWeekly = 0
    /\ AddEvent(Weekly, TRUE)
    /\ UNCHANGED <<autoOta, nvs, clock, failures>>

EnsureEnables ==
    /\ pc = "apply" /\ autoOta /\ FindWeekly # 0
    /\ ~events[FindWeekly].enabled
    /\ Put(FindWeekly, [events[FindWeekly] EXCEPT !.enabled = TRUE, !.last = Never])
    /\ Persist
    /\ UNCHANGED <<nextId, autoOta, nvs, clock, restarted, failures>>

RemoveRecurring ==
    /\ pc = "apply" /\ ~autoOta /\ FindWeekly # 0
    /\ Put(FindWeekly, Free)
    /\ Persist
    /\ UNCHANGED <<nextId, autoOta, nvs, clock, restarted, failures>>

\* Nothing to do, or no room: the failure is logged and forgotten.
ApplyNothing ==
    /\ pc = "apply"
    /\ IF autoOta THEN IF FindWeekly = 0 THEN FirstFreeSlot = 0 ELSE events[FindWeekly].enabled
                  ELSE FindWeekly = 0
    /\ Return
    /\ UNCHANGED <<table, nvs, clock, ghost>>

-----------------------------------------------------------------------------
(* maintain() *)

Maintain ==
    /\ pc = "idle" /\ timeValid
    /\ stamp' = now
    /\ changed' = FALSE
    /\ pc' = "run" /\ slot' = 1
    /\ UNCHANGED <<table, nvs, clock, ghost>>

\* Mutant: a one-shot event stays enabled.
RunSlot_KeepsOneShot ==
    /\ pc = "run" /\ slot \in Slots /\ ShouldRun(events[slot])
    /\ events' = [events EXCEPT ![slot].last = stamp]
    /\ changed' = (changed \/ ~events[slot].data.recurring)
    /\ ran' = [ran EXCEPT ![slot] = @ \cup {stamp}]
    /\ slot' = slot + 1
    /\ UNCHANGED <<nextId, autoOta, nvs, pc, stamp, clock, spent, restarted, failures>>

\* The command is dispatched, then the event is marked.
RunSlot ==
    /\ pc = "run" /\ slot \in Slots /\ ShouldRun(events[slot])
    /\ events' = [events EXCEPT ![slot].last = stamp,
                                ![slot].enabled = events[slot].data.recurring]
    /\ changed' = (changed \/ ~events[slot].data.recurring)
    /\ ran' = [ran EXCEPT ![slot] = @ \cup {stamp}]
    /\ slot' = slot + 1
    /\ UNCHANGED <<nextId, autoOta, nvs, pc, stamp, clock, spent, restarted, failures>>

SkipSlot ==
    /\ pc = "run" /\ slot \in Slots /\ ~ShouldRun(events[slot])
    /\ slot' = slot + 1
    /\ UNCHANGED <<table, nvs, pc, stamp, changed, clock, ghost>>

EndMaintain ==
    /\ pc = "run" /\ slot = SlotCount + 1
    /\ IF changed THEN Persist ELSE Return
    /\ UNCHANGED <<table, nvs, clock, ghost>>

-----------------------------------------------------------------------------
(* Time, resets and setup(). *)

\* Only maintain() reads the clock, once at its start: it may as well stand still
\* elsewhere.
Tick ==
    /\ pc = "idle" /\ now < Horizon
    /\ now' = now + 1
    /\ latest' = Max({latest, now'})
    /\ UNCHANGED <<table, nvs, loop, timeValid, ghost>>

\* SNTP or a change of UTC offset sets local time back; or it becomes valid.
SetTime ==
    /\ pc = "idle"
    /\ timeValid' = TRUE
    /\ now' \in (latest - MaxBack)..now /\ now' >= 0
    /\ UNCHANGED <<table, nvs, loop, latest, ghost>>

\* What flash lacks is forgotten. A next id whose put was lost is given out again. The
\* automatic update is on where the namespace of its flag cannot be opened.
Reset ==
    /\ events' = [s \in Slots |-> Free] /\ nextId' = 1
    /\ \/ autoOta' = nvs.auto /\ UNCHANGED faults
       \/ autoOta' = TRUE /\ Fault
    /\ pc' = "setup" /\ slot' = 0 /\ stamp' = 0 /\ changed' = FALSE
    /\ timeValid' = FALSE
    /\ ran' = [s \in Slots |-> {}]
    /\ restarted' = (restarted \/ NextIdKey \in lost)
    /\ unsaved' = FALSE /\ lost' = {}
    /\ UNCHANGED <<nvs, now, latest, spent>>

\* begin(): the table is read, and the weekly event applied.
LoadSettings ==
    /\ pc = "setup"
    /\ events' = [s \in Slots |-> IF nvs.slots[s].id = 0 THEN Free ELSE Deserialize(nvs.slots[s])]
    /\ nextId' = nvs.next
    /\ pc' = "apply"
    /\ UNCHANGED <<autoOta, nvs, slot, stamp, changed, clock, ghost>>

\* NVS cannot be opened: the table stays empty, and the next save writes it so.
LoadUnavailable ==
    /\ pc = "setup"
    /\ Fault
    /\ pc' = "apply"
    /\ restarted' = TRUE
    /\ unsaved' = TRUE
    /\ UNCHANGED <<table, nvs, slot, stamp, changed, clock, ran, spent, lost>>

-----------------------------------------------------------------------------

Init ==
    /\ events = [s \in Slots |-> Free] /\ nextId = 1
    /\ nvs = [next |-> 1, auto |-> TRUE, slots |-> [s \in Slots |-> Serialize(Free)]]
    /\ autoOta = TRUE
    /\ pc = "setup" /\ slot = 0 /\ stamp = 0 /\ changed = FALSE
    /\ now = 0 /\ timeValid = FALSE /\ latest = 0
    /\ ran = [s \in Slots |-> {}] /\ spent = [s \in Slots |-> FALSE]
    /\ restarted = FALSE /\ unsaved = FALSE /\ lost = {} /\ faults = 0

Editing == ScheduleAdd \/ ScheduleUpdate \/ ScheduleDelete \/ SetOtaAutoSchedule
Applying == EnsureAdds \/ EnsureEnables \/ RemoveRecurring \/ ApplyNothing
Running == Maintain \/ RunSlot \/ SkipSlot \/ EndMaintain
Saving == PersistUnavailable \/ PersistNextId \/ PersistSlot \/ Saved

Next == \/ Editing \/ Applying \/ Running \/ Saving
        \/ Tick \/ SetTime \/ Reset \/ LoadSettings \/ LoadUnavailable

Spec == Init /\ [][Next]_vars

-----------------------------------------------------------------------------

LineType == [id : Ids \cup {0}, enabled : BOOLEAN, data : Data]

TypeOK ==
    /\ events \in [Slots -> [id : Ids \cup {0}, enabled : BOOLEAN, data : Data,
                             last : Minutes \cup {Never}]]
    /\ nextId \in Ids
    /\ autoOta \in BOOLEAN
    /\ nvs \in [next : Ids, auto : BOOLEAN, slots : [Slots -> LineType]]
    /\ pc \in {"setup", "apply", "idle", "run", "persist"}
    /\ slot \in 0..(SlotCount + 1)
    /\ stamp \in Minutes /\ now \in Minutes /\ latest \in Minutes
    /\ changed \in BOOLEAN /\ timeValid \in BOOLEAN
    /\ ran \in [Slots -> SUBSET Minutes] /\ spent \in [Slots -> BOOLEAN]
    /\ restarted \in BOOLEAN /\ unsaved \in BOOLEAN
    /\ lost \subseteq Slots \cup {NextIdKey} /\ faults \in 0..MaxFaults

Distinct(t) == \A s, u \in Slots : s # u /\ t[s].id # 0 => t[s].id # t[u].id

\* An id names one event, in RAM and in every table a reset may leave in flash, with puts
\* cut off and puts of slots lost: update and delete hit the event that was meant
\* (findSlotById(), and nextId being saved before the slots). That ends where the numbering
\* starts again: when it wraps, after a boot that could not read the table, and after a reset
\* that follows a lost put of nextId, none of which the code notices.
DistinctIds == ~restarted => Distinct(events) /\ Distinct(nvs.slots)

\* Once the loop goes on after a save, the next boot finds the table as it is, but for the
\* slots whose put flash lost: no edit, and no end of a one-shot event, is kept in RAM only,
\* and the next save that is complete makes up for any that was not (persistSettings()).
SavedMatchesRam ==
    pc = "idle" /\ ~unsaved =>
        /\ NextIdKey \notin lost => nvs.next = nextId
        /\ \A s \in Slots \ lost : IF Used(s) THEN nvs.slots[s] = Serialize(events[s])
                                              ELSE nvs.slots[s].id = 0

\* Between resets an event runs at most once in a minute of local time, also when
\* that minute comes twice (shouldRun(), lastRunMinuteStamp).
RunsOncePerMinute == [][RunSlot => stamp \notin ran[slot]]_vars

\* A one-shot event that ran and whose end reached flash does not run again, whatever resets,
\* edits of other events, lost puts and clock changes follow. Its end is lost with a reset
\* before that put, and silently with the put itself.
OneShotNeverRepeats == [][RunSlot => ~spent[slot]]_vars
=============================================================================
