--------------------------- MODULE CalibrationStore ---------------------------
(***************************************************************************)
(* Persistence of the temperature calibration: the two alternating record  *)
(* slots of src/src/CalibrationRecordStorage.cpp and their use by          *)
(* loadCalibration(), persistCalibration() and the setters of              *)
(* src/src/TemperatureProbeManager.cpp, cut into the steps between which a *)
(* reset may come.                                                         *)
(*                                                                         *)
(* A record is a function from Fields to Values; ValidRecords are those    *)
(* temperatureCalibrationRecordValid() accepts. A blob that cannot be read *)
(* back (absent, cut short, wrong CRC) is NoRecord. What a setter computes  *)
(* for the fields is left open: it is an edit of a subset of them.         *)
(***************************************************************************)
EXTENDS Integers

CONSTANTS
    FieldCount,      \* the legacy keys low_valid .. enabled, in the order of the puts
    Values,          \* what one of them can hold
    ValidRecords,    \* records that pass temperatureCalibrationRecordValid()
    Default,         \* the member initialisers of TemperatureProbeManager.h
    Edits,           \* for each setter, the fields it rewrites
    GenMod           \* 256: the generation is a uint8_t

Fields == 1..FieldCount
Records == [Fields -> Values]

ASSUME StoreAssumption ==
    /\ FieldCount \in Nat
    /\ ValidRecords \subseteq Records
    /\ Default \in ValidRecords
    /\ Edits \subseteq SUBSET Fields
    /\ GenMod \in Nat /\ GenMod > 3

VARIABLES
    slotA, slotB, v2, \* blobs cal_a, cal_b, cal_v2
    legacy,           \* the legacy keys
    ram, prev,        \* the manager's fields, and a setter's copy of them for rollback
    loaded,           \* calibrationLoaded
    generation,       \* calibrationGeneration
    storageSlot,      \* where ram was loaded from or last stored; "none" if NVS failed
    pc,               \* where the loop task is
    return,           \* where persistCalibration() returns: to the load or to the setter
    step,             \* next legacy key to mirror
    edit              \* the fields the setter in progress rewrites

blobs == <<slotA, slotB, v2>>
mgr   == <<loaded, generation, storageSlot>>
call  == <<return, step, edit>>
vars  == <<blobs, legacy, ram, prev, mgr, pc, call>>

Generations == 0..(GenMod - 1)

\* uint8_t addition of 1.
Succ(g) == IF g = GenMod - 1 THEN 0 ELSE g + 1

NoRecord == [rec |-> Default, gen |-> -1]

Blobs == {NoRecord} \cup [rec : Records, gen : Generations]

-----------------------------------------------------------------------------
(* CalibrationRecordStorage.cpp *)

ReadValid(blob) == blob # NoRecord /\ blob.rec \in ValidRecords

\* Mutant: generations compared without wrap.
GenerationNewer_Plain(candidate, current) == candidate > current

\* uint8_t subtraction, less than half of the range.
GenerationNewer(candidate, current) ==
    /\ candidate # current
    /\ 2 * (IF candidate > current THEN candidate - current
            ELSE candidate - current + GenMod) < GenMod

NewestIsB ==
    ReadValid(slotB) /\ (ReadValid(slotA) => GenerationNewer(slotB.gen, slotA.gen))

Found == ReadValid(slotA) \/ ReadValid(slotB)

\* selectNewestCalibration(), when Found.
Newest == IF NewestIsB THEN slotB ELSE slotA

-----------------------------------------------------------------------------
(* loadCalibration(), at the start of every setter. *)

\* Mutants: no wrap; the new record keeps the generation of the old one.
NextGeneration_NoWrap == (IF Found THEN Newest.gen ELSE generation) + 1
NextGeneration_NotAdvanced == IF Found THEN Newest.gen ELSE generation

NextGeneration == Succ(IF Found THEN Newest.gen ELSE generation)

LoadUnavailable ==
    /\ pc = "load" /\ ~loaded
    /\ storageSlot' = "none"
    /\ loaded' = TRUE
    /\ pc' = "edit"
    /\ UNCHANGED <<blobs, legacy, ram, prev, generation, call>>

LoadNewest ==
    /\ pc = "load" /\ ~loaded /\ Found
    /\ ram' = Newest.rec
    /\ generation' = Newest.gen
    /\ storageSlot' = IF NewestIsB THEN "cal_b" ELSE "cal_a"
    /\ loaded' = TRUE
    /\ pc' = "edit"
    /\ UNCHANGED <<blobs, legacy, prev, call>>

LoadV2 ==
    /\ pc = "load" /\ ~loaded /\ ~Found /\ ReadValid(v2)
    /\ ram' = v2.rec
    /\ generation' = v2.gen
    /\ storageSlot' = "cal_v2"
    /\ loaded' = TRUE
    /\ pc' = "persist" /\ return' = "edit"
    /\ UNCHANGED <<blobs, legacy, prev, step, edit>>

LoadLegacy ==
    /\ pc = "load" /\ ~loaded /\ ~Found /\ ~ReadValid(v2)
    /\ ram' = legacy
    /\ storageSlot' = "legacy_keys"
    /\ loaded' = TRUE
    /\ pc' = "persist" /\ return' = "edit"
    /\ UNCHANGED <<blobs, legacy, prev, generation, step, edit>>

AlreadyLoaded ==
    /\ pc = "load" /\ loaded
    /\ pc' = "edit"
    /\ UNCHANGED <<blobs, legacy, ram, prev, mgr, call>>

-----------------------------------------------------------------------------
(* A setter: load, check and change RAM, persist, roll RAM back if that fails. *)

Call ==
    /\ pc = "idle"
    /\ edit' \in Edits
    /\ pc' = "load"
    /\ UNCHANGED <<blobs, legacy, ram, prev, mgr, return, step>>

\* The arguments are refused.
Reject ==
    /\ pc = "edit"
    /\ pc' = "idle"
    /\ UNCHANGED <<blobs, legacy, ram, prev, mgr, call>>

\* A setter that starts from a valid record makes a valid one.
Edit ==
    /\ pc = "edit"
    /\ ram' \in Records
    /\ \A f \in Fields \ edit : ram'[f] = ram[f]
    /\ ram \in ValidRecords => ram' \in ValidRecords
    /\ prev' = ram
    /\ pc' = "persist" /\ return' = "idle"
    /\ UNCHANGED <<blobs, legacy, mgr, step, edit>>

\* Mutant: the setter keeps its change although it was not saved.
PersistFailed_NoRollback == pc' = return /\ UNCHANGED <<ram, prev, mgr, call>>

\* persistCalibration() returned false. The migration ignores that.
PersistFailed ==
    /\ pc' = return
    /\ ram' = IF return = "idle" THEN prev ELSE ram
    /\ UNCHANGED <<prev, mgr, call>>

PersistUnavailable == pc = "persist" /\ PersistFailed /\ UNCHANGED <<blobs, legacy>>

\* Mutant: always the same slot.
TargetIsA_Always == TRUE

TargetIsA == ~Found \/ NewestIsB

Record == [rec |-> ram, gen |-> NextGeneration]

WriteTarget(blob) ==
    IF TargetIsA THEN slotA' = blob /\ UNCHANGED slotB
                 ELSE slotB' = blob /\ UNCHANGED slotA

\* putBytes() stored the record, and it reads back intact and valid.
WriteVerified ==
    /\ pc = "persist" /\ ram \in ValidRecords
    /\ WriteTarget(Record)
    /\ generation' = NextGeneration
    /\ storageSlot' = IF TargetIsA THEN "cal_a" ELSE "cal_b"
    /\ pc' = "mirror" /\ step' = 1
    /\ UNCHANGED <<v2, legacy, ram, prev, loaded, return, edit>>

\* It did not: the record is refused as invalid, the slot keeps its old blob,
\* or holds something that cannot be read.
WriteFailed ==
    /\ pc = "persist"
    /\ \/ ram \notin ValidRecords /\ WriteTarget(Record)
       \/ WriteTarget(NoRecord)
       \/ UNCHANGED <<slotA, slotB>>
    /\ PersistFailed
    /\ UNCHANGED <<v2, legacy>>

\* The legacy keys one by one. The result of a put is ignored: it may be lost.
MirrorField ==
    /\ pc = "mirror" /\ step <= FieldCount
    /\ \/ legacy' = [legacy EXCEPT ![step] = ram[step]]
       \/ UNCHANGED legacy
    /\ step' = step + 1
    /\ UNCHANGED <<blobs, ram, prev, mgr, pc, return, edit>>

\* Then the single v2 slot, which may be cut short too.
MirrorV2 ==
    /\ pc = "mirror" /\ step = FieldCount + 1
    /\ v2' \in {[rec |-> ram, gen |-> generation], NoRecord, v2}
    /\ pc' = return
    /\ UNCHANGED <<slotA, slotB, legacy, ram, prev, mgr, call>>

\* setup() runs to its end. It never loads the calibration: begin() has no caller.
SetupDone ==
    /\ pc = "setup"
    /\ pc' = "idle"
    /\ UNCHANGED <<blobs, legacy, ram, prev, mgr, call>>

\* A reset at any point.
Reset ==
    /\ ram' = Default /\ prev' = Default
    /\ loaded' = FALSE /\ generation' = 0 /\ storageSlot' = "none"
    /\ pc' = "setup" /\ return' = "idle" /\ step' = 1 /\ edit' = {}
    /\ UNCHANGED <<blobs, legacy>>

-----------------------------------------------------------------------------

\* First boot of this firmware: over an older one's keys, with or without a v2 blob.
Init ==
    /\ slotA = NoRecord /\ slotB = NoRecord
    /\ v2 \in {NoRecord} \cup [rec : Records, gen : {0}]
    /\ legacy \in Records
    /\ ram = Default /\ prev = Default
    /\ loaded = FALSE /\ generation = 0 /\ storageSlot = "none"
    /\ pc = "setup" /\ return = "idle" /\ step = 1 /\ edit = {}

Load == LoadUnavailable \/ LoadNewest \/ LoadV2 \/ LoadLegacy \/ AlreadyLoaded

Persist == PersistUnavailable \/ WriteVerified \/ WriteFailed \/ MirrorField \/ MirrorV2

Next == SetupDone \/ Call \/ Load \/ Reject \/ Edit \/ Persist \/ Reset

Spec == Init /\ [][Next]_vars

-----------------------------------------------------------------------------

TypeOK ==
    /\ slotA \in Blobs /\ slotB \in Blobs /\ v2 \in Blobs
    /\ legacy \in Records /\ ram \in Records /\ prev \in Records
    /\ loaded \in BOOLEAN
    /\ generation \in Generations
    /\ storageSlot \in {"none", "cal_a", "cal_b", "cal_v2", "legacy_keys"}
    /\ pc \in {"setup", "idle", "load", "edit", "persist", "mirror"}
    /\ return \in {"idle", "edit"}
    /\ step \in 1..(FieldCount + 1)
    /\ edit \in SUBSET Fields

\* The record the next boot will come up with.
Durable == IF Found THEN Newest.rec
           ELSE IF ReadValid(v2) THEN v2.rec ELSE legacy

\* NVS could not be opened when the calibration was loaded: the manager works on the
\* defaults, and the first setter that saves replaces the whole stored record.
Blind == loaded /\ storageSlot = "none"

\* Between two calls the RAM copy, once read from NVS, is what the next boot will
\* load: after any mix of saved, refused, failed and rolled back setters
\* (persistCalibration() and the rollback in every setter).
RamMatchesStorage == pc = "idle" /\ loaded /\ ~Blind => ram = Durable

\* The two slots are never more than one generation apart, in the order in which
\* they were written, so the wrapping comparison cannot pick the older one
\* (generationNewer(), CalibrationRecordStorage.cpp:21).
GenerationsAdjacent ==
    ReadValid(slotA) /\ ReadValid(slotB) =>
        \/ slotA.gen = Succ(slotB.gen)
        \/ slotB.gen = Succ(slotA.gen)

\* The legacy keys and the v2 blob are half written only while a checksummed slot
\* holds the record (persistCalibration(), "Recovery always prefers the
\* independently checksummed A/B records").
MirrorsCovered ==
    pc = "mirror" => Found /\ Newest.rec = ram

\* README.md:201 "The first 3.x boot migrates the existing `temp_probe` values exactly":
\* once the device runs, the manager works with the stored record.
BootLoadsCalibration == pc = "idle" /\ edit = {} => ram = Durable

\* The setter in progress, as the abstract specification sees it.
Job ==
    IF pc \in {"setup", "idle"} THEN [stage |-> "idle"]
    ELSE IF pc \in {"load", "edit"} \/ return = "edit" THEN [stage |-> "waiting", edit |-> edit]
    ELSE IF pc = "persist" THEN [stage |-> "writing", edit |-> edit, rec |-> ram]
    ELSE [stage |-> "done", edit |-> edit]

Register == INSTANCE CalibrationRegister WITH durable <- Durable, job <- Job, blind <- Blind

\* The two slots, the migration and the mirrors together behave as one record that
\* changes as a whole, only in the fields of the setter that ran unless the load
\* was blind, and that no reset takes back.
ImplementsRegister == Register!Spec
=============================================================================
