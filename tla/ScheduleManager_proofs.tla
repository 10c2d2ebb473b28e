------------------------ MODULE ScheduleManager_proofs ------------------------
(* Theorems about ScheduleManager, for every number of slots and ids, every   *)
(* set of events that can be entered and every horizon of the clock.          *)
EXTENDS ScheduleManager, WellFoundedInduction, TLAPS

(***************************************************************************)
(* The search of a slot.                                                    *)
(***************************************************************************)

\* A nonempty set of slots has a lowest one.
LEMMA LowestExists ==
    ASSUME NEW S, S \subseteq Slots, S # {}
    PROVE  \E m \in S : \A k \in S : m =< k
<1> DEFINE Below == {p \in Nat \X Nat : p[1] < p[2]}
<1>1. IsWellFoundedOn(Below, Nat)
  BY NatLessThanWellFounded DEF OpToRel
<1>2. S \subseteq Nat
  BY DEF Slots
<1>3. \E m \in S : \A k \in S : <<k, m>> \notin Below
  BY <1>1, <1>2, WFMin
<1>4. ASSUME NEW m \in S, NEW k \in S, <<k, m>> \notin Below PROVE m =< k
  <2>1. k \in Nat /\ m \in Nat
    BY <1>2
  <2>2. ~(k < m)
    BY <1>4, <2>1
  <2> QED
    BY <2>1, <2>2
<1> QED
  BY <1>3, <1>4

\* A search finds a slot of the set, or reports that there is none.
LEMMA LowestFound ==
    ASSUME NEW S, S \subseteq Slots
    PROVE  /\ Lowest(S) # 0 => Lowest(S) \in S
           /\ Lowest(S) = 0 <=> S = {}
<1>1. CASE S = {}
  BY <1>1 DEF Lowest
<1>2. CASE S # {}
  <2>1. Min(S) \in S
    BY <1>2, LowestExists DEF Min
  <2>2. Lowest(S) = Min(S)
    BY <1>2 DEF Lowest
  <2>3. 0 \notin S
    BY ScheduleAssumption DEF Slots
  <2> QED
    BY <1>2, <2>1, <2>2, <2>3
<1> QED
  BY <1>1, <1>2

LEMMA FoundById ==
    ASSUME NEW id, FindSlotById(id) # 0
    PROVE  FindSlotById(id) \in Slots /\ events[FindSlotById(id)].id = id
<1> DEFINE S == {s \in Slots : events[s].id = id}
<1>1. S \subseteq Slots
  OBVIOUS
<1>2. FindSlotById(id) \in S
  BY <1>1, LowestFound DEF FindSlotById
<1> QED
  BY <1>2

LEMMA FoundFree ==
    ASSUME FirstFreeSlot # 0
    PROVE  FirstFreeSlot \in Slots /\ ~Used(FirstFreeSlot)
<1> DEFINE S == {s \in Slots : ~Used(s)}
<1>1. S \subseteq Slots
  OBVIOUS
<1>2. FirstFreeSlot \in S
  BY <1>1, LowestFound DEF FirstFreeSlot
<1> QED
  BY <1>2

LEMMA FoundWeekly ==
    ASSUME FindWeekly # 0
    PROVE  FindWeekly \in Slots /\ Used(FindWeekly) /\ events[FindWeekly].data = Weekly
<1> DEFINE S == {s \in Slots : Used(s) /\ events[s].data = Weekly}
<1>1. S \subseteq Slots
  OBVIOUS
<1>2. FindWeekly \in S
  BY <1>1, LowestFound DEF FindWeekly
<1> QED
  BY <1>2

(***************************************************************************)
(* Types.                                                                   *)
(***************************************************************************)

EventType == [id : Ids \cup {0}, enabled : BOOLEAN, data : Data, last : Minutes \cup {Never}]

TableType == events \in [Slots -> EventType] /\ nextId \in Ids /\ autoOta \in BOOLEAN

NvsType == nvs \in [next : Ids, auto : BOOLEAN, slots : [Slots -> LineType]]

LoopType ==
    /\ pc \in {"setup", "apply", "idle", "run", "persist"}
    /\ slot \in 0..(SlotCount + 1)
    /\ stamp \in Minutes
    /\ changed \in BOOLEAN

ClockType == now \in Minutes /\ latest \in Minutes /\ timeValid \in BOOLEAN

FailureType ==
    unsaved \in BOOLEAN /\ lost \subseteq Slots \cup {NextIdKey} /\ faults \in 0..MaxFaults

GhostType ==
    /\ ran \in [Slots -> SUBSET Minutes] /\ spent \in [Slots -> BOOLEAN]
    /\ restarted \in BOOLEAN /\ FailureType

\* TypeOK by the tuples of the module, each of which some actions leave alone.
TypeInv == TableType /\ NvsType /\ LoopType /\ ClockType /\ GhostType

LEMMA TypeGroups == TypeInv <=> TypeOK
  BY DEF TypeInv, TableType, NvsType, LoopType, ClockType, GhostType, FailureType,
         TypeOK, EventType

\* Values the operations put into the table.
LEMMA Values ==
    /\ Free \in EventType
    /\ \A id \in Ids, data \in Data, enabled \in BOOLEAN : Event(id, data, enabled) \in EventType
    /\ \A e \in EventType : Serialize(e) \in LineType
    /\ \A line \in LineType : Deserialize(line) \in EventType
    /\ Weekly \in Data
    /\ 1 \in Ids /\ 0 \in Minutes
    /\ \A id \in Ids : Following(id) \in Ids
<1> USE ScheduleAssumption
<1>1. Weekly \in Data /\ 1 \in Ids /\ 0 \in Minutes
  BY DEF Ids, Minutes
<1>2. Free \in EventType
  BY <1>1 DEF Free, EventType
<1>3. \A id \in Ids, data \in Data, enabled \in BOOLEAN : Event(id, data, enabled) \in EventType
  BY DEF Event, EventType
<1>4. \A e \in EventType : Serialize(e) \in LineType
  BY DEF Serialize, EventType, LineType
<1>5. \A line \in LineType : Deserialize(line) \in EventType
  BY DEF Deserialize, Event, EventType, LineType
<1>6. \A id \in Ids : Following(id) \in Ids
  BY DEF Following, Ids
<1> QED
  BY <1>1, <1>2, <1>3, <1>4, <1>5, <1>6

LEMMA PutTypes ==
    ASSUME TypeInv, NEW s \in Slots, NEW e \in EventType, Put(s, e)
    PROVE  events' \in [Slots -> EventType] /\ ran' \in [Slots -> SUBSET Minutes]
           /\ spent' \in [Slots -> BOOLEAN]
  BY DEF Put, TypeInv, TableType, GhostType

LEMMA FailuresKept == TypeInv /\ UNCHANGED failures => FailureType'
  BY DEF TypeInv, GhostType, FailureType, failures

LEMMA FaultTypes == TypeInv /\ (Fault \/ UNCHANGED faults) => faults' \in 0..MaxFaults
  BY ScheduleAssumption DEF TypeInv, GhostType, FailureType, Fault

\* A put lands or is lost.
LEMMA PutKeyTypes ==
    ASSUME TypeInv, NEW key \in Slots \cup {NextIdKey}, NEW image, PutKey(key, image)
    PROVE  /\ nvs' \in {image, nvs} /\ faults' \in 0..MaxFaults
           /\ lost' \subseteq Slots \cup {NextIdKey}
           /\ key \notin lost' => nvs' = image
           /\ key \in lost' => nvs' = nvs
           /\ lost' \ {key} = lost \ {key}
<1>1. lost \subseteq Slots \cup {NextIdKey}
  BY DEF TypeInv, GhostType, FailureType
<1>2. faults' \in 0..MaxFaults
  BY FaultTypes DEF PutKey
<1> QED
  BY <1>1, <1>2 DEF PutKey

LEMMA LoopTypes ==
    ASSUME TypeInv
    PROVE  Persist \/ Return \/ UNCHANGED loop => LoopType'
<1>1. 0 \in 0..(SlotCount + 1) /\ 0 \in Minutes
  BY ScheduleAssumption DEF Minutes
<1>2. Persist \/ Return => LoopType'
  BY <1>1, Zenon DEF Persist, Return, LoopType
<1>3. UNCHANGED loop => LoopType'
  BY DEF loop, TypeInv, LoopType
<1> QED
  BY <1>2, <1>3

LEMMA AddTypes ==
    ASSUME TypeInv, NEW data \in Data, NEW enabled \in BOOLEAN, AddEvent(data, enabled)
    PROVE  /\ events' \in [Slots -> EventType] /\ nextId' \in Ids
           /\ ran' \in [Slots -> SUBSET Minutes] /\ spent' \in [Slots -> BOOLEAN]
           /\ restarted' \in BOOLEAN /\ LoopType'
<1>1. FirstFreeSlot \in Slots /\ nextId \in Ids
  BY FoundFree DEF AddEvent, TypeInv, TableType
<1>2. Event(nextId, data, enabled) \in EventType
  BY <1>1, Values
<1>3. events' \in [Slots -> EventType] /\ ran' \in [Slots -> SUBSET Minutes]
      /\ spent' \in [Slots -> BOOLEAN]
  BY <1>1, <1>2, PutTypes DEF AddEvent
<1>4. nextId' \in Ids
  BY <1>1, Values DEF AddEvent
<1>5. restarted' \in BOOLEAN
  BY DEF AddEvent, TypeInv, GhostType
<1>6. LoopType'
  BY LoopTypes DEF AddEvent
<1> QED
  BY <1>3, <1>4, <1>5, <1>6

LEMMA EditingTypes == TypeInv /\ Editing => TypeInv'
<1> SUFFICES ASSUME TypeInv, Editing PROVE TypeInv'
  OBVIOUS
<1> USE DEF TypeInv, TableType, GhostType, FailureType
<1>1. CASE ScheduleAdd
  <2>1. PICK data \in Data, enabled \in BOOLEAN : AddEvent(data, enabled)
    BY <1>1 DEF ScheduleAdd
  <2>2. NvsType' /\ ClockType' /\ autoOta' \in BOOLEAN /\ FailureType'
    BY <1>1 DEF ScheduleAdd, NvsType, ClockType, clock, failures, FailureType
  <2> QED
    BY <2>1, <2>2, AddTypes
<1>2. CASE ScheduleUpdate
  <2>1. PICK id \in Ids, data \in Data, enabled \in BOOLEAN :
            FindSlotById(id) # 0 /\ Put(FindSlotById(id), Event(id, data, enabled))
    BY <1>2 DEF ScheduleUpdate
  <2>2. events' \in [Slots -> EventType] /\ ran' \in [Slots -> SUBSET Minutes]
        /\ spent' \in [Slots -> BOOLEAN]
    BY <2>1, FoundById, PutTypes, Values
  <2>3. NvsType' /\ ClockType' /\ FailureType'
    BY <1>2 DEF ScheduleUpdate, NvsType, ClockType, clock, failures, FailureType
  <2>4. LoopType'
    BY <1>2, LoopTypes DEF ScheduleUpdate
  <2> QED
    BY <1>2, <2>2, <2>3, <2>4 DEF ScheduleUpdate
<1>3. CASE ScheduleDelete
  <2>1. PICK id \in Ids : FindSlotById(id) # 0 /\ Put(FindSlotById(id), Free)
    BY <1>3 DEF ScheduleDelete
  <2>2. events' \in [Slots -> EventType] /\ ran' \in [Slots -> SUBSET Minutes]
        /\ spent' \in [Slots -> BOOLEAN]
    BY <2>1, FoundById, PutTypes, Values
  <2>3. NvsType' /\ ClockType' /\ FailureType'
    BY <1>3 DEF ScheduleDelete, NvsType, ClockType, clock, failures, FailureType
  <2>4. LoopType'
    BY <1>3, LoopTypes DEF ScheduleDelete
  <2> QED
    BY <1>3, <2>2, <2>3, <2>4 DEF ScheduleDelete
<1>4. CASE SetOtaAutoSchedule
  <2>1. NvsType'
    BY <1>4 DEF SetOtaAutoSchedule, NvsType
  <2>2. LoopType'
    BY <1>4, Zenon DEF SetOtaAutoSchedule, LoopType
  <2>3. ClockType'
    BY <1>4 DEF SetOtaAutoSchedule, ClockType, clock
  <2> QED
    BY <1>4, <2>1, <2>2, <2>3 DEF SetOtaAutoSchedule, ghost, failures
<1> QED
  BY <1>1, <1>2, <1>3, <1>4 DEF Editing

LEMMA ApplyingTypes == TypeInv /\ Applying => TypeInv'
<1> SUFFICES ASSUME TypeInv, Applying PROVE TypeInv'
  OBVIOUS
<1> USE DEF TypeInv, TableType, GhostType, FailureType
<1>1. CASE EnsureAdds
  <2>1. AddEvent(Weekly, TRUE) /\ Weekly \in Data
    BY <1>1, Values DEF EnsureAdds
  <2>2. NvsType' /\ ClockType' /\ autoOta' \in BOOLEAN /\ FailureType'
    BY <1>1 DEF EnsureAdds, NvsType, ClockType, clock, failures, FailureType
  <2> QED
    BY <2>1, <2>2, AddTypes
<1>2. CASE EnsureEnables
  <2>1. FindWeekly \in Slots
    BY <1>2, FoundWeekly DEF EnsureEnables
  <2>2. [events[FindWeekly] EXCEPT !.enabled = TRUE, !.last = Never] \in EventType
    BY <2>1 DEF EventType
  <2>3. events' \in [Slots -> EventType] /\ ran' \in [Slots -> SUBSET Minutes]
        /\ spent' \in [Slots -> BOOLEAN]
    BY <1>2, <2>1, <2>2, PutTypes DEF EnsureEnables
  <2>4. NvsType' /\ ClockType' /\ FailureType'
    BY <1>2 DEF EnsureEnables, NvsType, ClockType, clock, failures, FailureType
  <2>5. LoopType'
    BY <1>2, LoopTypes DEF EnsureEnables
  <2> QED
    BY <1>2, <2>3, <2>4, <2>5 DEF EnsureEnables
<1>3. CASE RemoveRecurring
  <2>1. events' \in [Slots -> EventType] /\ ran' \in [Slots -> SUBSET Minutes]
        /\ spent' \in [Slots -> BOOLEAN]
    BY <1>3, FoundWeekly, PutTypes, Values DEF RemoveRecurring
  <2>2. NvsType' /\ ClockType' /\ FailureType'
    BY <1>3 DEF RemoveRecurring, NvsType, ClockType, clock, failures, FailureType
  <2>3. LoopType'
    BY <1>3, LoopTypes DEF RemoveRecurring
  <2> QED
    BY <1>3, <2>1, <2>2, <2>3 DEF RemoveRecurring
<1>4. CASE ApplyNothing
  <2>1. LoopType'
    BY <1>4, LoopTypes DEF ApplyNothing
  <2>2. TableType' /\ NvsType' /\ ClockType' /\ GhostType'
    BY <1>4 DEF ApplyNothing, table, clock, ghost, failures, NvsType, ClockType
  <2> QED
    BY <2>1, <2>2
<1> QED
  BY <1>1, <1>2, <1>3, <1>4 DEF Applying

LEMMA RunningTypes == TypeInv /\ Running => TypeInv'
<1> SUFFICES ASSUME TypeInv, Running PROVE TypeInv'
  OBVIOUS
<1> USE ScheduleAssumption DEF TypeInv, TableType, GhostType, FailureType
<1>1. CASE Maintain
  <2>1. 1 \in 0..(SlotCount + 1) /\ now \in Minutes
    BY DEF ClockType
  <2>2. LoopType'
    BY <1>1, <2>1, Zenon DEF Maintain, LoopType
  <2> QED
    BY <1>1, <2>2 DEF Maintain, table, clock, ghost, failures, NvsType, ClockType
<1>2. CASE RunSlot
  <2>1. slot \in Slots /\ stamp \in Minutes /\ slot + 1 \in 0..(SlotCount + 1)
    BY <1>2 DEF RunSlot, LoopType, Slots
  <2>2. events[slot] \in EventType /\ events[slot].data.recurring \in BOOLEAN
    BY <2>1 DEF EventType
  <2>3. events' \in [Slots -> EventType]
    BY <1>2, <2>1, <2>2 DEF RunSlot, EventType
  <2>4. ran' \in [Slots -> SUBSET Minutes]
    BY <1>2, <2>1 DEF RunSlot
  <2>5. LoopType'
    <3>1. changed' \in BOOLEAN
      BY <1>2, Zenon DEF RunSlot
    <3> QED
      BY <1>2, <2>1, <3>1 DEF RunSlot, LoopType
  <2> QED
    BY <1>2, <2>3, <2>4, <2>5 DEF RunSlot, NvsType, ClockType, clock, failures
<1>3. CASE SkipSlot
  <2>1. slot' \in 0..(SlotCount + 1)
    BY <1>3 DEF SkipSlot, LoopType, Slots
  <2>2. LoopType'
    BY <1>3, <2>1 DEF SkipSlot, LoopType
  <2> QED
    BY <1>3, <2>2 DEF SkipSlot, table, clock, ghost, failures, NvsType, ClockType
<1>4. CASE EndMaintain
  <2>1. LoopType'
    BY <1>4, LoopTypes DEF EndMaintain
  <2> QED
    BY <1>4, <2>1 DEF EndMaintain, table, clock, ghost, failures, NvsType, ClockType
<1> QED
  BY <1>1, <1>2, <1>3, <1>4 DEF Running

LEMMA SavingTypes == TypeInv /\ Saving => TypeInv'
<1> SUFFICES ASSUME TypeInv, Saving PROVE TypeInv'
  OBVIOUS
<1> USE ScheduleAssumption DEF TypeInv, TableType, GhostType, FailureType
<1>1. CASE PersistUnavailable
  <2>1. LoopType'
    BY <1>1, LoopTypes DEF PersistUnavailable
  <2>2. faults' \in 0..MaxFaults
    BY <1>1, FaultTypes DEF PersistUnavailable
  <2> QED
    BY <1>1, <2>1, <2>2 DEF PersistUnavailable, table, clock, NvsType, ClockType
<1>2. CASE PersistNextId
  <2> DEFINE image == [nvs EXCEPT !.next = nextId]
  <2>1. image \in [next : Ids, auto : BOOLEAN, slots : [Slots -> LineType]]
    BY DEF NvsType
  <2>2. PutKey(NextIdKey, image)
    BY <1>2 DEF PersistNextId
  <2> HIDE DEF image
  <2>3. /\ nvs' \in {image, nvs} /\ faults' \in 0..MaxFaults
        /\ lost' \subseteq Slots \cup {NextIdKey}
    BY <2>2, PutKeyTypes
  <2>4. NvsType'
    BY <2>1, <2>3 DEF NvsType
  <2>5. LoopType'
    BY <1>2 DEF PersistNextId, LoopType
  <2> QED
    BY <1>2, <2>3, <2>4, <2>5 DEF PersistNextId, table, clock, ClockType
<1>3. CASE PersistSlot
  <2> DEFINE image == [nvs EXCEPT !.slots[slot] = Serialize(events[slot])]
  <2>1. image \in [next : Ids, auto : BOOLEAN, slots : [Slots -> LineType]]
    BY <1>3, Values DEF PersistSlot, NvsType
  <2>2. PutKey(slot, image) /\ slot \in Slots
    BY <1>3 DEF PersistSlot
  <2> HIDE DEF image
  <2>3. /\ nvs' \in {image, nvs} /\ faults' \in 0..MaxFaults
        /\ lost' \subseteq Slots \cup {NextIdKey}
    BY <2>2, PutKeyTypes
  <2>4. NvsType'
    BY <2>1, <2>3 DEF NvsType
  <2>5. LoopType'
    BY <1>3 DEF PersistSlot, LoopType, Slots
  <2>6. spent' \in [Slots -> BOOLEAN]
    <3>1. (spent[slot] \/ (slot \notin lost' /\ Ended(slot))) \in BOOLEAN
      BY Zenon
    <3> QED
      BY <1>3, <2>2, <3>1 DEF PersistSlot
  <2> QED
    BY <1>3, <2>3, <2>4, <2>5, <2>6 DEF PersistSlot, table, clock, ClockType
<1>4. CASE Saved
  <2>1. LoopType'
    BY <1>4, LoopTypes DEF Saved
  <2> QED
    BY <1>4, <2>1 DEF Saved, table, clock, NvsType, ClockType
<1> QED
  BY <1>1, <1>2, <1>3, <1>4 DEF Saving

LEMMA WorldTypes ==
    TypeInv /\ (Tick \/ SetTime \/ Reset \/ LoadSettings \/ LoadUnavailable) => TypeInv'
<1> SUFFICES ASSUME TypeInv, Tick \/ SetTime \/ Reset \/ LoadSettings \/ LoadUnavailable
             PROVE  TypeInv'
  OBVIOUS
<1> USE ScheduleAssumption DEF TypeInv, TableType, GhostType, FailureType
<1>1. CASE Tick
  <2>1. now + 1 \in Minutes /\ now + 1 \in Int /\ latest \in Int
    BY <1>1 DEF Tick, ClockType, Minutes
  <2>2. Max({latest, now + 1}) \in {latest, now + 1}
    BY <2>1 DEF Max
  <2>3. ClockType'
    BY <1>1, <2>1, <2>2 DEF Tick, ClockType
  <2> QED
    BY <1>1, <2>3, LoopTypes DEF Tick, table, loop, ghost, failures, NvsType
<1>2. CASE SetTime
  <2>1. ClockType'
    BY <1>2 DEF SetTime, ClockType, Minutes
  <2> QED
    BY <1>2, <2>1, LoopTypes DEF SetTime, table, loop, ghost, failures, NvsType
<1>3. CASE Reset
  <2>1. TableType'
    <3>1. autoOta' \in {nvs.auto, TRUE}
      BY <1>3, Zenon DEF Reset
    <3>2. autoOta' \in BOOLEAN
      BY <3>1 DEF NvsType
    <3> QED
      BY <1>3, <3>2, Values DEF Reset
  <2>2. LoopType'
    <3>1. 0 \in 0..(SlotCount + 1) /\ 0 \in Minutes
      BY DEF Minutes
    <3> QED
      BY <1>3, <3>1, Zenon DEF Reset, LoopType
  <2>3. GhostType'
    <3>1. faults' \in 0..MaxFaults
      BY <1>3, FaultTypes DEF Reset
    <3>2. restarted' \in BOOLEAN
      BY <1>3, Zenon DEF Reset
    <3> QED
      BY <1>3, <3>1, <3>2 DEF Reset
  <2> QED
    BY <1>3, <2>1, <2>2, <2>3 DEF Reset, NvsType, ClockType
<1>4. CASE LoadSettings
  <2>1. \A s \in Slots : (IF nvs.slots[s].id = 0 THEN Free ELSE Deserialize(nvs.slots[s]))
                            \in EventType
    BY Values DEF NvsType
  <2>2. TableType'
    BY <1>4, <2>1 DEF LoadSettings, NvsType
  <2>3. LoopType'
    BY <1>4, Zenon DEF LoadSettings, LoopType
  <2> QED
    BY <1>4, <2>2, <2>3 DEF LoadSettings, NvsType, ClockType, clock, ghost, failures
<1>5. CASE LoadUnavailable
  <2>1. LoopType'
    BY <1>5, Zenon DEF LoadUnavailable, LoopType
  <2>2. GhostType'
    BY <1>5, FaultTypes DEF LoadUnavailable
  <2> QED
    BY <1>5, <2>1, <2>2 DEF LoadUnavailable, table, NvsType, ClockType, clock
<1> QED
  BY <1>1, <1>2, <1>3, <1>4, <1>5

LEMMA InitTypes == Init => TypeInv
<1> SUFFICES ASSUME Init PROVE TypeInv
  OBVIOUS
<1>1. TableType
  BY Values DEF Init, TableType
<1>2. NvsType
  BY Values DEF Init, NvsType
<1>3. LoopType
  <2>1. 0 \in 0..(SlotCount + 1)
    BY ScheduleAssumption
  <2> QED
    BY <2>1, Values, Zenon DEF Init, LoopType
<1>4. FailureType
  <2>1. unsaved \in BOOLEAN
    BY Zenon DEF Init
  <2>2. lost = {} /\ faults = 0
    BY DEF Init
  <2> QED
    BY <2>1, <2>2, ScheduleAssumption DEF FailureType
<1>5. ClockType /\ GhostType
  BY <1>4, Values DEF Init, ClockType, GhostType
<1> QED
  BY <1>1, <1>2, <1>3, <1>5 DEF TypeInv

LEMMA StutterTypes == TypeInv /\ UNCHANGED vars => TypeInv'
  BY DEF TypeInv, TableType, NvsType, LoopType, ClockType, GhostType, FailureType, vars, table, loop, clock,
         ghost, failures

LEMMA NextTypes == TypeInv /\ [Next]_vars => TypeInv'
  BY EditingTypes, ApplyingTypes, RunningTypes, SavingTypes, WorldTypes, StutterTypes DEF Next

\* Every variable stays in its range: ids that are given out fit into uint8_t and are not 0, and
\* no step of maintain(), persistSettings() or setup() leaves the table.
THEOREM Types == Spec => []TypeOK
<1>1. Spec => []TypeInv
  BY InitTypes, NextTypes, PTL DEF Spec
<1> QED
  BY <1>1, TypeGroups, PTL

(***************************************************************************)
(* What flash holds.                                                        *)
(***************************************************************************)

Agrees(s) == IF Used(s) THEN nvs.slots[s] = Serialize(events[s]) ELSE nvs.slots[s].id = 0

NextAgrees == NextIdKey \notin lost => nvs.next = nextId

\* Where no put was lost, flash and RAM agree in the loop and when the weekly event is applied,
\* unless the last save was impossible; maintain() may be ahead of flash when it has something to
\* save, and in persistSettings() the slots before the one it is at are written.
SavedInv ==
    /\ pc \in {"idle", "apply"} /\ ~unsaved =>
           NextAgrees /\ \A s \in Slots \ lost : Agrees(s)
    /\ pc = "run" /\ ~unsaved =>
           NextAgrees /\ (changed \/ \A s \in Slots \ lost : Agrees(s))
    /\ pc = "persist" /\ slot # 0 =>
           NextAgrees /\ \A s \in Slots \ lost : s < slot => Agrees(s)

\* At the start of a save nothing has to be in flash yet.
LEMMA PersistStarts == Persist => SavedInv'
  BY DEF Persist, SavedInv

\* What a boot makes of the table agrees with what it was made from.
LEMMA LoadAgrees ==
    ASSUME TypeInv, LoadSettings, NEW s \in Slots
    PROVE  Agrees(s)'
<1>1. nvs' = nvs /\ nvs.slots[s] \in LineType
      /\ events'[s] = IF nvs.slots[s].id = 0 THEN Free ELSE Deserialize(nvs.slots[s])
  BY DEF LoadSettings, TypeInv, NvsType
<1>2. CASE nvs.slots[s].id = 0
  <2>1. events'[s].id = 0
    BY <1>1, <1>2 DEF Free
  <2> QED
    BY <1>1, <1>2, <2>1 DEF Agrees, Used
<1>3. CASE nvs.slots[s].id # 0
  <2>1. /\ events'[s].id = nvs.slots[s].id
        /\ Serialize(events'[s]) = nvs.slots[s]
    BY <1>1, <1>3 DEF Deserialize, Event, Serialize, LineType
  <2> QED
    BY <1>1, <1>3, <2>1 DEF Agrees, Used
<1> QED
  BY <1>2, <1>3

LEMMA RunAgrees ==
    ASSUME TypeInv, SavedInv, RunSlot
    PROVE  SavedInv'
<1>1. slot \in Slots /\ events \in [Slots -> EventType] /\ events[slot].enabled
  BY DEF RunSlot, ShouldRun, TypeInv, TableType
<1>2. pc = "run" /\ pc' = "run" /\ nvs' = nvs /\ nextId' = nextId /\ unsaved' = unsaved
      /\ lost' = lost
  BY DEF RunSlot, failures
<1>3. changed' = (changed \/ ~events[slot].data.recurring)
  BY DEF RunSlot
<1>4. ASSUME ~changed', NEW s \in Slots, Agrees(s) PROVE Agrees(s)'
  <2>1. events[slot].data.recurring
    BY <1>3, <1>4, Zenon
  <2>2. events'[s].id = events[s].id /\ Serialize(events'[s]) = Serialize(events[s])
    BY <1>1, <2>1, <1>4 DEF RunSlot, Serialize, EventType
  <2> QED
    BY <1>2, <1>4, <2>2 DEF Agrees, Used
<1>5. changed' \/ ~changed
  BY <1>3, Zenon
<1> QED
  BY <1>2, <1>4, <1>5, Zenon DEF SavedInv, NextAgrees

\* What the put of a slot changes, and what it leaves alone.
LEMMA PutSlot ==
    ASSUME TypeInv, PersistSlot
    PROVE  /\ nvs'.next = nvs.next
           /\ \A s \in Slots : s # slot => nvs'.slots[s] = nvs.slots[s]
           /\ slot \notin lost' => nvs'.slots[slot] = Serialize(events[slot])
           /\ slot \in lost' => nvs'.slots[slot] = nvs.slots[slot]
           /\ lost' \ {slot} = lost \ {slot}
<1> DEFINE image == [nvs EXCEPT !.slots[slot] = Serialize(events[slot])]
<1>1. slot \in Slots /\ PutKey(slot, image)
  BY DEF PersistSlot
<1>2. /\ image.next = nvs.next
      /\ \A s \in Slots : s # slot => image.slots[s] = nvs.slots[s]
      /\ image.slots[slot] = Serialize(events[slot])
  BY <1>1 DEF TypeInv, NvsType
<1> HIDE DEF image
<1>3. /\ nvs' \in {image, nvs}
      /\ slot \notin lost' => nvs' = image
      /\ slot \in lost' => nvs' = nvs
      /\ lost' \ {slot} = lost \ {slot}
  BY <1>1, PutKeyTypes
<1> QED
  BY <1>2, <1>3

LEMMA SavingAgrees == TypeInv /\ SavedInv /\ Saving => SavedInv'
<1> SUFFICES ASSUME TypeInv, SavedInv, Saving PROVE SavedInv'
  OBVIOUS
<1> USE ScheduleAssumption
<1>1. CASE PersistUnavailable
  BY <1>1 DEF PersistUnavailable, Return, SavedInv
<1>2. CASE PersistNextId
  <2>1. nextId' = nextId /\ slot' = 1 /\ pc' = "persist"
    BY <1>2 DEF PersistNextId, table
  <2>2. NextAgrees'
    <3> DEFINE image == [nvs EXCEPT !.next = nextId]
    <3>1. image.next = nextId /\ PutKey(NextIdKey, image)
      BY <1>2 DEF PersistNextId, TypeInv, NvsType
    <3> HIDE DEF image
    <3>2. NextIdKey \notin lost' => nvs' = image
      BY <3>1, PutKeyTypes
    <3> QED
      BY <2>1, <3>1, <3>2 DEF NextAgrees
  <2>3. \A s \in Slots : ~(s < slot')
    BY <2>1 DEF Slots
  <2> QED
    BY <2>1, <2>2, <2>3 DEF SavedInv
<1>3. CASE PersistSlot
  <2>1. /\ pc = "persist" /\ pc' = "persist" /\ slot \in Slots /\ slot' = slot + 1
        /\ events' = events /\ nextId' = nextId
    BY <1>3 DEF PersistSlot, table
  <2>2. slot # 0 /\ slot \in Int
    BY <2>1 DEF Slots
  <2>3. /\ nvs'.next = nvs.next
        /\ \A s \in Slots : s # slot => nvs'.slots[s] = nvs.slots[s]
        /\ slot \notin lost' => nvs'.slots[slot] = Serialize(events[slot])
        /\ lost' \ {slot} = lost \ {slot}
    BY <1>3, PutSlot
  <2>4. ASSUME NEW s \in Slots \ lost', s < slot' PROVE Agrees(s)'
    <3>1. CASE s = slot
      <4>1. nvs'.slots[s] = Serialize(events[s])
        BY <2>3, <2>4, <3>1
      <4>2. nvs'.slots[s].id = events[s].id
        BY <4>1 DEF Serialize
      <4> QED
        BY <2>1, <4>1, <4>2 DEF Agrees, Used
    <3>2. CASE s # slot
      <4>1. s < slot /\ s \notin lost
        BY <2>1, <2>2, <2>3, <2>4, <3>2 DEF Slots
      <4>2. Agrees(s)
        BY <2>1, <2>2, <4>1 DEF SavedInv
      <4> QED
        BY <2>1, <2>3, <3>2, <4>2 DEF Agrees, Used
    <3> QED
      BY <3>1, <3>2
  <2>5. NextAgrees'
    BY <2>1, <2>2, <2>3 DEF SavedInv, NextAgrees, NextIdKey
  <2> QED
    BY <2>1, <2>4, <2>5 DEF SavedInv
<1>4. CASE Saved
  <2>1. /\ pc = "persist" /\ slot = SlotCount + 1 /\ pc' = "idle"
        /\ events' = events /\ nextId' = nextId /\ nvs' = nvs /\ lost' = lost
    BY <1>4 DEF Saved, Return, table
  <2>2. slot # 0 /\ \A s \in Slots : s < slot
    BY <2>1 DEF Slots
  <2>3. NextAgrees /\ \A s \in Slots \ lost : Agrees(s)
    BY <2>1, <2>2 DEF SavedInv
  <2> QED
    BY <2>1, <2>3 DEF SavedInv, NextAgrees, Agrees, Used
<1> QED
  BY <1>1, <1>2, <1>3, <1>4 DEF Saving

LEMMA SavedStep == TypeInv /\ SavedInv /\ [Next]_vars => SavedInv'
<1> SUFFICES ASSUME TypeInv, SavedInv, [Next]_vars PROVE SavedInv'
  OBVIOUS
<1>1. CASE Editing
  <2>1. CASE SetOtaAutoSchedule
    BY <2>1 DEF SetOtaAutoSchedule, MayEdit, SavedInv, NextAgrees, Agrees, Used, TypeInv, NvsType, ghost, failures
  <2>2. CASE ScheduleAdd \/ ScheduleUpdate \/ ScheduleDelete
    <3>1. Persist
      BY <2>2 DEF ScheduleAdd, AddEvent, ScheduleUpdate, ScheduleDelete
    <3> QED
      BY <3>1, PersistStarts
  <2> QED
    BY <1>1, <2>1, <2>2 DEF Editing
<1>2. CASE Applying
  <2>1. CASE ApplyNothing
    BY <2>1 DEF ApplyNothing, Return, SavedInv, NextAgrees, Agrees, Used, table, ghost, failures
  <2>2. CASE EnsureAdds \/ EnsureEnables \/ RemoveRecurring
    <3>1. Persist
      BY <2>2 DEF EnsureAdds, AddEvent, EnsureEnables, RemoveRecurring
    <3> QED
      BY <3>1, PersistStarts
  <2> QED
    BY <1>2, <2>1, <2>2 DEF Applying
<1>3. CASE Running
  <2>1. CASE Maintain
    BY <2>1, Zenon DEF Maintain, SavedInv, NextAgrees, Agrees, Used, table, ghost, failures
  <2>2. CASE RunSlot
    BY <2>2, RunAgrees
  <2>3. CASE SkipSlot
    BY <2>3, Zenon DEF SkipSlot, SavedInv, NextAgrees, Agrees, Used, table, ghost, failures
  <2>4. CASE EndMaintain
    <3>1. CASE changed
      BY <2>4, <3>1, PersistStarts DEF EndMaintain
    <3>2. CASE ~changed
      BY <2>4, <3>2, Zenon DEF EndMaintain, Return, SavedInv, NextAgrees, Agrees, Used, table, ghost, failures
    <3> QED
      BY <3>1, <3>2
  <2> QED
    BY <1>3, <2>1, <2>2, <2>3, <2>4 DEF Running
<1>4. CASE Saving
  BY <1>4, SavingAgrees
<1>5. CASE Tick \/ SetTime
  BY <1>5 DEF Tick, SetTime, SavedInv, NextAgrees, Agrees, Used, table, loop, ghost, failures
<1>6. CASE Reset
  BY <1>6 DEF Reset, SavedInv
<1>7. CASE LoadSettings
  BY <1>7, LoadAgrees DEF LoadSettings, SavedInv, NextAgrees
<1>8. CASE LoadUnavailable
  BY <1>8 DEF LoadUnavailable, SavedInv
<1>9. CASE UNCHANGED vars
  BY <1>9 DEF vars, table, loop, ghost, failures, SavedInv, NextAgrees, Agrees, Used
<1> QED
  BY <1>1, <1>2, <1>3, <1>4, <1>5, <1>6, <1>7, <1>8, <1>9 DEF Next

LEMMA SavedInit == Init => SavedInv
  BY DEF Init, SavedInv

\* Once the loop goes on after a save, flash holds the table as it is, but for the keys whose put
\* was lost, whatever was edited, run, left unsaved, lost or interrupted before (SavedMatchesRam).
THEOREM SavedIsRam == Spec => []SavedMatchesRam
<1>1. SavedInv => SavedMatchesRam
  BY DEF SavedInv, SavedMatchesRam, NextAgrees, Agrees
<1>2. TypeInv /\ SavedInv /\ [Next]_vars => (TypeInv /\ SavedInv)'
  BY NextTypes, SavedStep
<1> QED
  BY <1>1, <1>2, InitTypes, SavedInit, PTL DEF Spec

(***************************************************************************)
(* Ids.                                                                     *)
(***************************************************************************)

\* The ids of the table, and how they lie to those in flash: an id in flash is below the next one
\* given out, and below the next one in flash unless the put of that was lost, which a boot does not
\* survive with ids that are distinct; where a slot differs from its image, cut off or lost, the
\* image's id is nobody else's, so that every mixture of old and new slots has distinct ids.
IdsBelow == \A s \in Slots : events[s].id < nextId
ImageBelow ==
    /\ NextIdKey \notin lost => \A s \in Slots : nvs.slots[s].id < nvs.next
    /\ pc # "setup" => \A s \in Slots : nvs.slots[s].id < nextId
    /\ pc = "setup" => NextIdKey \notin lost
Mixed ==
    pc # "setup" => \A s, u \in Slots :
        s # u /\ nvs.slots[s].id # 0 => nvs.slots[s].id # events[u].id
NextFirst == pc = "persist" /\ slot # 0 => NextAgrees

IdInv == ~restarted => /\ Distinct(events) /\ Distinct(nvs.slots)
                       /\ IdsBelow /\ ImageBelow /\ Mixed /\ NextFirst

\* Steps that give out no id and write nothing: a slot keeps its id or loses it.
LEMMA IdsKept ==
    ASSUME TypeInv, IdInv, pc # "setup", nvs' = nvs, lost' = lost, nextId' = nextId,
           restarted' = restarted,
           \A s \in Slots : events'[s].id \in {events[s].id, 0},
           pc' # "setup", pc' # "persist" \/ slot' = 0
    PROVE  IdInv'
<1> SUFFICES ASSUME ~restarted'
             PROVE  /\ Distinct(events)' /\ Distinct(nvs.slots)'
                    /\ IdsBelow' /\ ImageBelow' /\ Mixed' /\ NextFirst'
  BY DEF IdInv
<1>1. ~restarted
  OBVIOUS
<1>2. nextId \in Nat /\ 0 < nextId
  BY ScheduleAssumption DEF TypeInv, TableType, Ids
<1>3. Distinct(events)' /\ Distinct(nvs.slots)'
  BY <1>1 DEF IdInv, Distinct
<1>4. IdsBelow'
  BY <1>1, <1>2 DEF IdInv, IdsBelow
<1>5. ImageBelow' /\ Mixed' /\ NextFirst'
  BY <1>1 DEF IdInv, ImageBelow, Mixed, NextFirst, NextAgrees
<1> QED
  BY <1>3, <1>4, <1>5

\* A new event gets an id that neither the table nor flash holds.
LEMMA AddIds ==
    ASSUME TypeInv, IdInv, NEW data \in Data, NEW enabled \in BOOLEAN,
           AddEvent(data, enabled), nvs' = nvs, lost' = lost, pc # "setup"
    PROVE  IdInv'
<1> SUFFICES ASSUME ~restarted'
             PROVE  /\ Distinct(events)' /\ Distinct(nvs.slots)'
                    /\ IdsBelow' /\ ImageBelow' /\ Mixed' /\ NextFirst'
  BY DEF IdInv
<1>1. ~restarted /\ nextId' = nextId + 1
  BY DEF AddEvent, Following
<1>2. nextId \in Nat /\ nextId # 0
  BY DEF TypeInv, TableType, Ids
<1>3. PICK f \in Slots : \A s \in Slots :
          events'[s].id = IF s = f THEN nextId ELSE events[s].id
  <2>1. FirstFreeSlot \in Slots /\ events' = [events EXCEPT ![FirstFreeSlot] =
                                                Event(nextId, data, enabled)]
    BY FoundFree DEF AddEvent, Put
  <2>2. Event(nextId, data, enabled).id = nextId
    BY DEF Event
  <2> QED
    BY <2>1, <2>2 DEF TypeInv, TableType
<1>4. /\ \A s \in Slots : events[s].id < nextId /\ events[s].id \in Nat
      /\ \A s \in Slots : nvs.slots[s].id < nextId /\ nvs.slots[s].id \in Nat
  BY <1>1 DEF IdInv, IdsBelow, ImageBelow, TypeInv, TableType, NvsType, EventType, LineType, Ids
<1>5. Distinct(events)'
  BY <1>1, <1>2, <1>3, <1>4 DEF IdInv, Distinct
<1>6. IdsBelow'
  BY <1>1, <1>2, <1>3, <1>4 DEF IdsBelow
<1>7. ImageBelow'
  BY <1>1, <1>2, <1>4 DEF IdInv, ImageBelow, AddEvent, Persist
<1>8. Mixed'
  BY <1>1, <1>2, <1>3, <1>4 DEF IdInv, Mixed
<1>9. NextFirst' /\ Distinct(nvs.slots)'
  BY <1>1 DEF AddEvent, Persist, NextFirst, IdInv, Distinct
<1> QED
  BY <1>5, <1>6, <1>7, <1>8, <1>9

LEMMA SaveSlotIds ==
    ASSUME TypeInv, IdInv, PersistSlot
    PROVE  IdInv'
<1> SUFFICES ASSUME ~restarted'
             PROVE  /\ Distinct(events)' /\ Distinct(nvs.slots)'
                    /\ IdsBelow' /\ ImageBelow' /\ Mixed' /\ NextFirst'
  BY DEF IdInv
<1>1. /\ pc = "persist" /\ pc' = pc /\ slot # 0 /\ ~restarted /\ slot \in Slots
      /\ events' = events /\ nextId' = nextId
  BY DEF PersistSlot, Slots, table
<1>2. /\ nvs'.next = nvs.next
      /\ NextIdKey \in lost' <=> NextIdKey \in lost
      /\ \A s \in Slots : nvs'.slots[s].id = IF s = slot /\ slot \notin lost' THEN events[s].id
                                                                          ELSE nvs.slots[s].id
  <2>1. Serialize(events[slot]).id = events[slot].id
    BY DEF Serialize
  <2> QED
    BY <1>1, <2>1, PutSlot DEF NextIdKey
<1>3. Distinct(events)' /\ IdsBelow' /\ NextFirst'
  BY <1>1, <1>2 DEF IdInv, Distinct, IdsBelow, NextFirst, NextAgrees
<1>4. Distinct(nvs.slots)'
  BY <1>1, <1>2 DEF IdInv, Distinct, Mixed
<1>5. ImageBelow'
  BY <1>1, <1>2 DEF IdInv, ImageBelow, IdsBelow, NextFirst, NextAgrees
<1>6. Mixed'
  BY <1>1, <1>2 DEF IdInv, Distinct, Mixed
<1> QED
  BY <1>3, <1>4, <1>5, <1>6

LEMMA SaveNextIds ==
    ASSUME TypeInv, IdInv, PersistNextId
    PROVE  IdInv'
<1> SUFFICES ASSUME ~restarted'
             PROVE  /\ Distinct(events)' /\ Distinct(nvs.slots)'
                    /\ IdsBelow' /\ ImageBelow' /\ Mixed' /\ NextFirst'
  BY DEF IdInv
<1>1. /\ pc = "persist" /\ pc' = pc /\ ~restarted
      /\ events' = events /\ nextId' = nextId
  BY DEF PersistNextId, table
<1>2. /\ nvs'.slots = nvs.slots
      /\ NextIdKey \notin lost' => nvs'.next = nextId
  <2> DEFINE image == [nvs EXCEPT !.next = nextId]
  <2>1. image.next = nextId /\ image.slots = nvs.slots
    BY DEF TypeInv, NvsType
  <2>2. PutKey(NextIdKey, image)
    BY DEF PersistNextId
  <2> HIDE DEF image
  <2>3. nvs' \in {image, nvs} /\ (NextIdKey \notin lost' => nvs' = image)
    BY <2>2, PutKeyTypes
  <2> QED
    BY <2>1, <2>3
<1> QED
  BY <1>1, <1>2 DEF IdInv, Distinct, IdsBelow, ImageBelow, Mixed, NextFirst, NextAgrees

\* The table is read as it lies in flash.
LEMMA LoadIds ==
    ASSUME TypeInv, IdInv, LoadSettings
    PROVE  IdInv'
<1> SUFFICES ASSUME ~restarted'
             PROVE  /\ Distinct(events)' /\ Distinct(nvs.slots)'
                    /\ IdsBelow' /\ ImageBelow' /\ Mixed' /\ NextFirst'
  BY DEF IdInv
<1>1. /\ ~restarted /\ nvs' = nvs /\ nextId' = nvs.next /\ lost' = lost
      /\ pc = "setup" /\ pc' = "apply"
  BY DEF LoadSettings, ghost, failures
<1>2. \A s \in Slots : events'[s].id = nvs.slots[s].id
  <2>1. \A s \in Slots : events'[s] = IF nvs.slots[s].id = 0 THEN Free ELSE Deserialize(nvs.slots[s])
    BY DEF LoadSettings
  <2>2. Free.id = 0
    BY DEF Free
  <2>3. \A line : Deserialize(line).id = line.id
    BY DEF Deserialize, Event
  <2> QED
    BY <2>1, <2>2, <2>3
<1> QED
  BY <1>1, <1>2 DEF IdInv, Distinct, IdsBelow, ImageBelow, Mixed, NextFirst, NextAgrees

LEMMA ResetIds ==
    ASSUME TypeInv, IdInv, Reset
    PROVE  IdInv'
<1> SUFFICES ASSUME ~restarted'
             PROVE  /\ Distinct(events)' /\ Distinct(nvs.slots)'
                    /\ IdsBelow' /\ ImageBelow' /\ Mixed' /\ NextFirst'
  BY DEF IdInv
<1>1. ~restarted /\ NextIdKey \notin lost /\ lost' = {}
      /\ nvs' = nvs /\ nextId' = 1 /\ pc' = "setup"
      /\ \A s \in Slots : events'[s].id = 0
  BY DEF Reset, Free
<1> QED
  BY <1>1 DEF IdInv, Distinct, IdsBelow, ImageBelow, Mixed, NextFirst, NextAgrees

LEMMA IdStep == TypeInv /\ IdInv /\ [Next]_vars => IdInv'
<1> SUFFICES ASSUME TypeInv, IdInv, [Next]_vars PROVE IdInv'
  OBVIOUS
<1>1. CASE ScheduleAdd
  BY <1>1, AddIds DEF ScheduleAdd, MayEdit, failures
<1>2. CASE ScheduleUpdate
  <2>1. PICK id \in Ids, data \in Data, enabled \in BOOLEAN :
            FindSlotById(id) # 0 /\ Put(FindSlotById(id), Event(id, data, enabled))
    BY <1>2 DEF ScheduleUpdate
  <2>2. Event(id, data, enabled).id = id
    BY DEF Event
  <2>3. \A s \in Slots : events'[s].id = events[s].id
    BY <2>1, <2>2, FoundById DEF Put, TypeInv, TableType
  <2> QED
    BY <1>2, <2>3, IdsKept DEF ScheduleUpdate, MayEdit, Persist, failures
<1>3. CASE ScheduleDelete
  <2>1. PICK id \in Ids : FindSlotById(id) # 0 /\ Put(FindSlotById(id), Free)
    BY <1>3 DEF ScheduleDelete
  <2>2. \A s \in Slots : events'[s].id \in {events[s].id, 0}
    BY <2>1, FoundById DEF Put, Free, TypeInv, TableType
  <2> QED
    BY <1>3, <2>2, IdsKept DEF ScheduleDelete, MayEdit, Persist, failures
<1>4. CASE SetOtaAutoSchedule
  <2>1. nvs'.next = nvs.next /\ nvs'.slots = nvs.slots
    BY <1>4 DEF SetOtaAutoSchedule, TypeInv, NvsType
  <2> QED
    BY <1>4, <2>1 DEF SetOtaAutoSchedule, MayEdit, ghost, failures, IdInv, Distinct, IdsBelow, ImageBelow,
                      Mixed, NextFirst, NextAgrees
<1>5. CASE EnsureAdds
  BY <1>5, AddIds, Values DEF EnsureAdds, failures
<1>6. CASE EnsureEnables
  <2>1. \A s \in Slots : events'[s].id = events[s].id
    BY <1>6, FoundWeekly DEF EnsureEnables, Put, TypeInv, TableType, EventType
  <2> QED
    BY <1>6, <2>1, IdsKept DEF EnsureEnables, Persist, failures
<1>7. CASE RemoveRecurring
  <2>1. \A s \in Slots : events'[s].id \in {events[s].id, 0}
    BY <1>7, FoundWeekly DEF RemoveRecurring, Put, Free, TypeInv, TableType
  <2> QED
    BY <1>7, <2>1, IdsKept DEF RemoveRecurring, Persist, failures
<1>8. CASE ApplyNothing
  BY <1>8, IdsKept DEF ApplyNothing, Return, table, ghost, failures
<1>9. CASE RunSlot
  <2>1. \A s \in Slots : events'[s].id = events[s].id
    BY <1>9 DEF RunSlot, TypeInv, TableType, EventType
  <2> QED
    BY <1>9, <2>1, IdsKept DEF RunSlot, failures
<1>10. CASE Maintain \/ SkipSlot \/ EndMaintain
  BY <1>10, IdsKept DEF Maintain, SkipSlot, EndMaintain, Persist, Return, table, ghost, failures
<1>11. CASE PersistUnavailable \/ Saved
  BY <1>11, IdsKept DEF PersistUnavailable, Saved, Return, table
<1>12. CASE PersistNextId
  BY <1>12, SaveNextIds
<1>13. CASE PersistSlot
  BY <1>13, SaveSlotIds
<1>14. CASE Tick \/ SetTime \/ UNCHANGED vars
  BY <1>14 DEF Tick, SetTime, vars, table, loop, ghost, failures, IdInv, Distinct, IdsBelow, ImageBelow,
               Mixed, NextFirst, NextAgrees
<1>15. CASE Reset
  BY <1>15, ResetIds
<1>16. CASE LoadSettings
  BY <1>16, LoadIds
<1>17. CASE LoadUnavailable
  BY <1>17 DEF LoadUnavailable, IdInv
<1> QED
  BY <1>1, <1>2, <1>3, <1>4, <1>5, <1>6, <1>7, <1>8, <1>9, <1>10, <1>11, <1>12, <1>13, <1>14,
     <1>15, <1>16, <1>17 DEF Next, Editing, Applying, Running, Saving

LEMMA IdInit == Init => IdInv
<1> SUFFICES ASSUME Init PROVE IdInv
  OBVIOUS
<1>1. pc = "setup" /\ nextId = 1 /\ nvs.next = 1
      /\ \A s \in Slots : events[s].id = 0 /\ nvs.slots[s].id = 0
  BY DEF Init, Free, Serialize
<1>2. lost = {}
  BY DEF Init
<1> QED
  BY <1>1, <1>2 DEF IdInv, Distinct, IdsBelow, ImageBelow, Mixed, NextFirst, NextAgrees

\* Until the numbering starts again an id names one event, in RAM and in every half written table
\* that resets and lost puts leave in flash (DistinctIds). It starts again where it wraps, after a
\* boot that could not read the table, and after a reset that follows a lost put of the next id.
THEOREM IdsAreDistinct == Spec => []DistinctIds
<1>1. IdInv => DistinctIds
  BY DEF IdInv, DistinctIds
<1>2. TypeInv /\ IdInv /\ [Next]_vars => (TypeInv /\ IdInv)'
  BY NextTypes, IdStep
<1> QED
  BY <1>1, <1>2, InitTypes, IdInit, PTL DEF Spec

(***************************************************************************)
(* Runs.                                                                    *)
(***************************************************************************)

\* The last run of a slot is the latest of its runs, a recurring event ran in minutes of its own
\* residue only, and a one-shot event that ran is off.
RanBy(s) ==
    /\ ran[s] # {} => events[s].last \in ran[s]
    /\ \A m \in ran[s] : m =< events[s].last /\ m =< latest
    /\ events[s].data.recurring => \A m \in ran[s] : m % Period = events[s].data.when
    /\ ~events[s].data.recurring /\ ran[s] # {} => ~events[s].enabled

\* The clock, and with it the minute maintain() works with, stays close to the latest minute seen.
ClockInv ==
    /\ now =< latest /\ latest - MaxBack =< now
    /\ pc = "run" => stamp =< latest /\ latest - MaxBack =< stamp

RunInv ==
    /\ ClockInv
    /\ \A s \in Slots : RanBy(s)
    /\ pc = "setup" => \A s \in Slots : ran[s] = {}

\* Two minutes in which the same recurring event is due lie a period apart.
LEMMA Residue ==
    ASSUME NEW P \in Nat \ {0}, NEW a \in Nat, NEW b \in Nat, a % P = b % P, a < b
    PROVE  b - a >= P
<1> DEFINE q == a \div P
           r == b \div P
<1>1. q \in Int /\ r \in Int /\ a % P \in Int /\ b % P \in Int
  OBVIOUS
<1>2. a = P * q + (a % P) /\ b = P * r + (b % P)
  OBVIOUS
<1> HIDE DEF q, r
<1>3. r - q >= 1
  <2>1. P * q < P * r
    BY <1>1, <1>2
  <2>2. SUFFICES ASSUME r =< q PROVE FALSE
    BY <1>1
  <2>3. P * r =< P * q
    BY <2>2, <1>1
  <2> QED
    BY <2>1, <2>3, <1>1
<1>4. P * (r - q) >= P * 1
  BY <1>3, <1>1
<1>5. b - a = P * (r - q)
  BY <1>1, <1>2
<1> QED
  BY <1>4, <1>5

\* A slot that runs has not run since it was armed, or runs later than ever.
LEMMA RunIsNew ==
    ASSUME TypeInv, RunInv, RunSlot
    PROVE  \A m \in ran[slot] : m < stamp /\ events[slot].data.recurring
<1> SUFFICES ASSUME NEW m \in ran[slot] PROVE m < stamp /\ events[slot].data.recurring
  OBVIOUS
<1>1. /\ slot \in Slots /\ stamp \in Minutes /\ latest \in Minutes
      /\ events[slot] \in EventType /\ ran[slot] \subseteq Minutes
      /\ RanBy(slot) /\ ClockInv
  BY DEF RunSlot, TypeInv, TableType, LoopType, ClockType, GhostType, RunInv
<1>2. events[slot].enabled /\ events[slot].last # stamp /\ pc = "run"
  BY DEF RunSlot, ShouldRun
<1>3. events[slot].data.recurring
  BY <1>1, <1>2 DEF RanBy
<1>4. stamp % Period = events[slot].data.when
  BY <1>3 DEF RunSlot, ShouldRun
<1> DEFINE last == events[slot].last
<1>5. last \in ran[slot] /\ last =< latest /\ m =< last
      /\ last % Period = stamp % Period
  BY <1>1, <1>3, <1>4 DEF RanBy
<1>6. last \in Nat /\ stamp \in Nat /\ m \in Nat /\ latest \in Nat
  BY <1>1, <1>5, ScheduleAssumption DEF Minutes
<1> HIDE DEF last
<1>7. ASSUME stamp < last PROVE FALSE
  <2>1. last - stamp >= Period
    BY <1>5, <1>6, <1>7, Residue, ScheduleAssumption
  <2>2. latest - MaxBack =< stamp
    BY <1>1, <1>2 DEF ClockInv
  <2> QED
    BY <2>1, <2>2, <1>5, <1>6, ScheduleAssumption
<1>8. last # stamp
  BY <1>2 DEF last
<1> QED
  BY <1>3, <1>5, <1>6, <1>7, <1>8

\* Put arms a slot and leaves the others alone.
LEMMA PutRan ==
    ASSUME TypeInv, RunInv, NEW f \in Slots, NEW e, Put(f, e), latest' = latest
    PROVE  \A s \in Slots : RanBy(s)'
<1> SUFFICES ASSUME NEW s \in Slots PROVE RanBy(s)'
  OBVIOUS
<1>1. CASE s = f
  <2>1. ran'[s] = {}
    BY <1>1 DEF Put, TypeInv, GhostType
  <2> QED
    BY <2>1 DEF RanBy
<1>2. CASE s # f
  <2>1. ran'[s] = ran[s] /\ events'[s] = events[s] /\ RanBy(s)
    BY <1>2 DEF Put, TypeInv, TableType, GhostType, RunInv
  <2> QED
    BY <2>1 DEF RanBy
<1> QED
  BY <1>1, <1>2

\* RunSlot adds the latest run.
LEMMA RunSlotRan ==
    ASSUME TypeInv, RunInv, RunSlot
    PROVE  \A s \in Slots : RanBy(s)'
<1> SUFFICES ASSUME NEW s \in Slots PROVE RanBy(s)'
  OBVIOUS
<1>1. /\ slot \in Slots /\ stamp \in Minutes /\ events[slot] \in EventType /\ latest' = latest
      /\ ran \in [Slots -> SUBSET Minutes] /\ events \in [Slots -> EventType]
  BY DEF RunSlot, TypeInv, TableType, LoopType, GhostType, clock
<1>2. CASE s = slot
  <2>1. ran'[s] = ran[s] \cup {stamp}
    BY <1>1, <1>2 DEF RunSlot
  <2>2. /\ events'[s].last = stamp /\ events'[s].data = events[s].data
        /\ events'[s].enabled = events[s].data.recurring
    BY <1>1, <1>2 DEF RunSlot, EventType
  <2>3. \A m \in ran[s] : m < stamp /\ events[s].data.recurring
    BY <1>2, RunIsNew
  <2>4. stamp =< latest /\ stamp \in Int
    BY <1>1 DEF RunInv, ClockInv, RunSlot, Minutes
  <2>5. RanBy(s)
    BY DEF RunInv
  <2>6. \A m \in ran'[s] : m =< stamp /\ m =< latest'
    <3>1. \A m \in ran[s] : m \in Int /\ m =< latest
      BY <1>1, <2>5 DEF RanBy, Minutes
    <3>2. \A m \in ran[s] : m < stamp
      BY <2>3, Zenon
    <3>3. ASSUME NEW m \in ran[s] PROVE m =< stamp /\ m =< latest'
      BY <1>1, <2>4, <3>1, <3>2
    <3>4. stamp =< stamp /\ stamp =< latest'
      BY <1>1, <2>4
    <3> QED
      BY <2>1, <3>3, <3>4, Zenon
  <2>7. events[s].data.recurring => \A m \in ran'[s] : m % Period = events[s].data.when
    <3>1. events[s].data.recurring => stamp % Period = events[s].data.when
      BY <1>2 DEF RunSlot, ShouldRun
    <3> QED
      BY <2>1, <2>5, <3>1 DEF RanBy
  <2> QED
    BY <2>1, <2>2, <2>6, <2>7 DEF RanBy
<1>3. CASE s # slot
  <2>1. ran'[s] = ran[s] /\ events'[s] = events[s] /\ RanBy(s)
    BY <1>1, <1>3 DEF RunSlot, RunInv
  <2> QED
    BY <1>1, <2>1 DEF RanBy
<1> QED
  BY <1>2, <1>3

LEMMA RunStep == TypeInv /\ RunInv /\ [Next]_vars => RunInv'
<1> SUFFICES ASSUME TypeInv, RunInv, [Next]_vars PROVE RunInv'
  OBVIOUS
<1>1. CASE Editing
  <2>1. UNCHANGED clock /\ pc' \in {"persist", "apply"}
    BY <1>1 DEF Editing, ScheduleAdd, ScheduleUpdate, ScheduleDelete, SetOtaAutoSchedule,
                AddEvent, Persist
  <2>2. \A s \in Slots : RanBy(s)'
    <3>1. CASE ScheduleAdd
      BY <2>1, <3>1, FoundFree, PutRan DEF ScheduleAdd, AddEvent, clock
    <3>2. CASE ScheduleUpdate
      BY <2>1, <3>2, FoundById, PutRan DEF ScheduleUpdate, clock
    <3>3. CASE ScheduleDelete
      BY <2>1, <3>3, FoundById, PutRan DEF ScheduleDelete, clock
    <3>4. CASE SetOtaAutoSchedule
      BY <3>4 DEF SetOtaAutoSchedule, clock, ghost, failures, RunInv, RanBy
    <3> QED
      BY <1>1, <3>1, <3>2, <3>3, <3>4 DEF Editing
  <2> QED
    BY <2>1, <2>2 DEF RunInv, ClockInv, clock
<1>2. CASE Applying
  <2>1. UNCHANGED clock /\ pc' \in {"persist", "idle"}
    BY <1>2 DEF Applying, EnsureAdds, EnsureEnables, RemoveRecurring, ApplyNothing,
                AddEvent, Persist, Return
  <2>2. \A s \in Slots : RanBy(s)'
    <3>1. CASE EnsureAdds
      BY <2>1, <3>1, FoundFree, PutRan DEF EnsureAdds, AddEvent, clock
    <3>2. CASE EnsureEnables
      BY <2>1, <3>2, FoundWeekly, PutRan DEF EnsureEnables, clock
    <3>3. CASE RemoveRecurring
      BY <2>1, <3>3, FoundWeekly, PutRan DEF RemoveRecurring, clock
    <3>4. CASE ApplyNothing
      BY <3>4 DEF ApplyNothing, table, clock, ghost, failures, RunInv, RanBy
    <3> QED
      BY <1>2, <3>1, <3>2, <3>3, <3>4 DEF Applying
  <2> QED
    BY <2>1, <2>2 DEF RunInv, ClockInv, clock
<1>3. CASE Maintain
  BY <1>3 DEF Maintain, table, clock, ghost, failures, RunInv, RanBy, ClockInv
<1>4. CASE RunSlot
  <2>1. ClockInv' /\ pc' = "run"
    BY <1>4 DEF RunSlot, RunInv, ClockInv, clock
  <2> QED
    BY <1>4, <2>1, RunSlotRan DEF RunInv
<1>5. CASE SkipSlot \/ EndMaintain
  BY <1>5 DEF SkipSlot, EndMaintain, Persist, Return, table, clock, ghost, failures, RunInv, RanBy, ClockInv
<1>6. CASE Saving
  BY <1>6 DEF Saving, PersistUnavailable, PersistNextId, PersistSlot, Saved, Return, table, clock,
              ghost, failures, RunInv, RanBy, ClockInv
<1>7. CASE Tick
  <2>1. latest \in Int /\ now \in Int /\ pc = "idle" /\ pc' = pc /\ now' = now + 1
    BY <1>7 DEF Tick, TypeInv, ClockType, Minutes, loop
  <2>2. latest' = IF latest < now' THEN now' ELSE latest
    <3>1. Max({latest, now'}) \in {latest, now'} /\ Max({latest, now'}) >= latest
          /\ Max({latest, now'}) >= now'
      BY <2>1 DEF Max
    <3>2. latest' = Max({latest, now'})
      BY <1>7 DEF Tick
    <3> QED
      BY <2>1, <3>1, <3>2
  <2>3. now =< latest /\ latest - MaxBack =< now /\ MaxBack \in Nat
    BY ScheduleAssumption DEF RunInv, ClockInv
  <2>4. now' =< latest' /\ latest' - MaxBack =< now'
    BY <2>1, <2>2, <2>3
  <2>5. ASSUME NEW s \in Slots PROVE RanBy(s)'
    <3>1. RanBy(s) /\ ran'[s] = ran[s] /\ events'[s] = events[s] /\ ran[s] \subseteq Int
      BY <1>7 DEF RunInv, Tick, table, ghost, failures, TypeInv, GhostType, Minutes
    <3>2. \A m \in ran[s] : m =< latest => m =< latest'
      BY <2>1, <2>2, <3>1
    <3> QED
      BY <3>1, <3>2 DEF RanBy
  <2> QED
    BY <2>1, <2>4, <2>5 DEF RunInv, ClockInv
<1>8. CASE SetTime
  <2>1. now' =< latest' /\ latest' - MaxBack =< now' /\ pc' = "idle"
    BY <1>8, ScheduleAssumption DEF SetTime, loop, RunInv, ClockInv, TypeInv, ClockType, Minutes
  <2>2. \A s \in Slots : RanBy(s)'
    BY <1>8 DEF SetTime, table, ghost, failures, RunInv, RanBy
  <2> QED
    BY <2>1, <2>2 DEF RunInv, ClockInv
<1>9. CASE Reset
  <2>1. \A s \in Slots : ran'[s] = {}
    BY <1>9 DEF Reset
  <2> QED
    BY <1>9, <2>1 DEF Reset, RunInv, RanBy, ClockInv
<1>10. CASE LoadSettings
  <2>1. \A s \in Slots : ran'[s] = {}
    BY <1>10 DEF LoadSettings, RunInv, ghost, failures
  <2> QED
    BY <1>10, <2>1 DEF LoadSettings, RunInv, RanBy, ClockInv, clock
<1>11. CASE LoadUnavailable
  BY <1>11 DEF LoadUnavailable, table, clock, RunInv, RanBy, ClockInv
<1>12. CASE UNCHANGED vars
  BY <1>12 DEF vars, table, loop, clock, ghost, failures, RunInv, RanBy, ClockInv
<1> QED
  BY <1>1, <1>2, <1>3, <1>4, <1>5, <1>6, <1>7, <1>8, <1>9, <1>10, <1>11, <1>12 DEF Next, Running

LEMMA RunInit == Init => RunInv
  BY ScheduleAssumption DEF Init, RunInv, RanBy, ClockInv

\* Between resets an event runs at most once in a minute, also when a clock that is set back makes
\* that minute come twice (RunsOncePerMinute): a clock set back by less than the period cannot
\* reach an earlier run's minute of the same event but the last, and that one is remembered.
THEOREM RunsOnce == Spec => RunsOncePerMinute
<1>1. TypeInv /\ RunInv /\ [Next]_vars => (TypeInv /\ RunInv)'
  BY NextTypes, RunStep
<1>2. TypeInv /\ RunInv => (RunSlot => stamp \notin ran[slot])
  <2> SUFFICES ASSUME TypeInv, RunInv, RunSlot, stamp \in ran[slot] PROVE FALSE
    OBVIOUS
  <2>1. stamp < stamp /\ stamp \in Int
    BY RunIsNew DEF TypeInv, LoopType, Minutes
  <2> QED
    BY <2>1
<1> QED
  BY <1>1, <1>2, InitTypes, RunInit, PTL DEF Spec, RunsOncePerMinute

(***************************************************************************)
(* One-shot events across resets.                                           *)
(***************************************************************************)

\* A slot whose one-shot event ran, and was written so, is off in flash and in RAM.
SpentInv == \A s \in Slots : spent[s] => ~nvs.slots[s].enabled /\ ~events[s].enabled

\* Slots that hold other events do not make one due again.
LEMMA PutSpent ==
    ASSUME TypeInv, SpentInv, NEW f \in Slots, NEW e, Put(f, e), nvs' = nvs
    PROVE  SpentInv'
<1>1. \A s \in Slots : spent'[s] => s # f /\ spent[s]
  BY DEF Put, TypeInv, GhostType
<1>2. \A s \in Slots : s # f => events'[s] = events[s]
  BY DEF Put, TypeInv, TableType
<1> QED
  BY <1>1, <1>2 DEF SpentInv

LEMMA SpentStep ==
    TypeInv /\ RunInv /\ SpentInv /\ [Next]_vars => SpentInv'
<1> SUFFICES ASSUME TypeInv, RunInv, SpentInv, [Next]_vars PROVE SpentInv'
  OBVIOUS
<1>1. CASE ScheduleAdd
  BY <1>1, FoundFree, PutSpent DEF ScheduleAdd, AddEvent
<1>2. CASE ScheduleUpdate
  BY <1>2, FoundById, PutSpent DEF ScheduleUpdate
<1>3. CASE ScheduleDelete
  BY <1>3, FoundById, PutSpent DEF ScheduleDelete
<1>4. CASE SetOtaAutoSchedule
  <2>1. nvs'.slots = nvs.slots
    BY <1>4 DEF SetOtaAutoSchedule, TypeInv, NvsType
  <2> QED
    BY <1>4, <2>1 DEF SetOtaAutoSchedule, MayEdit, ghost, failures, SpentInv
<1>5. CASE EnsureAdds
  BY <1>5, FoundFree, PutSpent DEF EnsureAdds, AddEvent
<1>6. CASE EnsureEnables
  BY <1>6, FoundWeekly, PutSpent DEF EnsureEnables
<1>7. CASE RemoveRecurring
  BY <1>7, FoundWeekly, PutSpent DEF RemoveRecurring
<1>8. CASE ApplyNothing \/ Maintain \/ SkipSlot \/ EndMaintain
  BY <1>8 DEF ApplyNothing, Maintain, SkipSlot, EndMaintain, Persist, Return, table, ghost, failures, SpentInv
<1>9. CASE RunSlot
  <2>1. slot \in Slots /\ events[slot].enabled
    BY <1>9 DEF RunSlot, ShouldRun
  <2>2. ~spent[slot]
    BY <2>1 DEF SpentInv
  <2>3. \A s \in Slots : s # slot => events'[s] = events[s]
    BY <1>9 DEF RunSlot, TypeInv, TableType
  <2> QED
    BY <1>9, <2>2, <2>3 DEF RunSlot, SpentInv
<1>10. CASE PersistUnavailable \/ Saved
  BY <1>10 DEF PersistUnavailable, Saved, table, SpentInv
<1>11. CASE PersistNextId
  <2>1. nvs'.slots = nvs.slots
    BY <1>11 DEF PersistNextId, PutKey, TypeInv, NvsType
  <2> QED
    BY <1>11, <2>1 DEF PersistNextId, table, SpentInv
<1>12. CASE PersistSlot
  <2>1. /\ slot \in Slots /\ events' = events /\ spent \in [Slots -> BOOLEAN]
        /\ spent' = [spent EXCEPT ![slot] = @ \/ (slot \notin lost' /\ Ended(slot))]
    BY <1>12 DEF PersistSlot, table, TypeInv, GhostType
  <2>2. ASSUME NEW s \in Slots, s # slot, spent'[s]
        PROVE  ~nvs'.slots[s].enabled /\ ~events'[s].enabled
    <3>1. spent[s]
      BY <2>1, <2>2
    <3> QED
      BY <1>12, <2>1, <2>2, <3>1, PutSlot DEF SpentInv
  <2>3. ASSUME spent'[slot] PROVE ~nvs'.slots[slot].enabled /\ ~events'[slot].enabled
    <3>1. spent[slot] \/ (slot \notin lost' /\ Ended(slot))
      <4>1. spent'[slot] = (spent[slot] \/ (slot \notin lost' /\ Ended(slot)))
        BY <2>1
      <4> QED
        BY <2>3, <4>1, Zenon
    <3>2. ~events[slot].enabled
      <4>1. CASE spent[slot]
        BY <2>1, <4>1 DEF SpentInv
      <4>2. CASE Ended(slot)
        BY <2>1, <4>2 DEF Ended, RunInv, RanBy
      <4> QED
        BY <3>1, <4>1, <4>2
    <3>3. CASE slot \in lost'
      <4>1. spent[slot] /\ nvs'.slots[slot] = nvs.slots[slot]
        BY <1>12, <3>1, <3>3, PutSlot
      <4> QED
        BY <2>1, <3>2, <4>1 DEF SpentInv
    <3>4. CASE slot \notin lost'
      BY <1>12, <2>1, <3>2, <3>4, PutSlot DEF Serialize
    <3> QED
      BY <3>3, <3>4
  <2> QED
    BY <2>2, <2>3 DEF SpentInv
<1>13. CASE Tick \/ SetTime \/ LoadUnavailable \/ UNCHANGED vars
  BY <1>13 DEF Tick, SetTime, LoadUnavailable, vars, table, loop, ghost, failures, SpentInv
<1>14. CASE Reset
  BY <1>14 DEF Reset, Free, SpentInv
<1>15. CASE LoadSettings
  <2>1. ASSUME NEW s \in Slots, spent'[s] PROVE ~nvs'.slots[s].enabled /\ ~events'[s].enabled
    <3>1. nvs' = nvs /\ ~nvs.slots[s].enabled
      BY <1>15, <2>1 DEF LoadSettings, ghost, SpentInv
    <3>2. events'[s] = IF nvs.slots[s].id = 0 THEN Free ELSE Deserialize(nvs.slots[s])
      BY <1>15 DEF LoadSettings
    <3> QED
      BY <3>1, <3>2 DEF Free, Deserialize, Event
  <2> QED
    BY <2>1 DEF SpentInv
<1> QED
  BY <1>1, <1>2, <1>3, <1>4, <1>5, <1>6, <1>7, <1>8, <1>9, <1>10, <1>11, <1>12, <1>13, <1>14,
     <1>15 DEF Next, Editing, Applying, Running, Saving

\* A one-shot event that ran and whose end reached flash does not run again, whatever resets, failed
\* saves, lost puts and clock changes follow (OneShotNeverRepeats): it is off in RAM and in flash.
THEOREM NoRepeat == Spec => OneShotNeverRepeats
<1> DEFINE Inv == TypeInv /\ RunInv /\ SpentInv
<1>1. Init => Inv
  BY InitTypes, RunInit DEF Init, SpentInv
<1>2. Inv /\ [Next]_vars => Inv'
  BY NextTypes, RunStep, SpentStep
<1>3. Inv => (RunSlot => ~spent[slot])
  BY DEF SpentInv, RunSlot, ShouldRun
<1> QED
  BY <1>1, <1>2, <1>3, PTL DEF Spec, OneShotNeverRepeats
=============================================================================
