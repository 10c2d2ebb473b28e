------------------------ MODULE CalibrationStore_proofs ------------------------
(***************************************************************************)
(* Proofs about CalibrationStore for every number of fields, every set of  *)
(* values and valid records, every set of setters and every generation     *)
(* modulus above 3:                                                        *)
(*   TypeCorrect      the type invariant;                                  *)
(*   SlotsAdjacent    the generations of the slots never drift apart;      *)
(*   StorageAgrees    RAM and storage agree between two calls;             *)
(*   Refinement       the store implements CalibrationRegister.            *)
(* They rest on what one write of the target slot does to the selection:   *)
(* WrittenIsNewest and RefusedKeepsNewest.                                 *)
(***************************************************************************)
EXTENDS CalibrationStore, TLAPS

\* The record after a generation is newer than it, and never the other way round.
LEMMA SuccIsNewer ==
    ASSUME NEW g \in Generations
    PROVE  /\ Succ(g) \in Generations
           /\ GenerationNewer(Succ(g), g)
           /\ ~GenerationNewer(g, Succ(g))
  BY StoreAssumption DEF Generations, Succ, GenerationNewer

\* What the slots hold is typed, and a readable one has a generation.
LEMMA BlobFacts ==
    ASSUME NEW blob \in Blobs
    PROVE  /\ blob.rec \in Records
           /\ ReadValid(blob) => blob.rec \in ValidRecords /\ blob.gen \in Generations
           /\ blob.gen \in Int
  BY StoreAssumption DEF Blobs, NoRecord, ReadValid, Generations

LEMMA NoRecordUnreadable == ~ReadValid(NoRecord) /\ NoRecord \in Blobs
  BY DEF ReadValid, Blobs

\* When the slots hold a record, the newest is a readable one of them.
LEMMA NewestReadable ==
    ASSUME Found
    PROVE  ReadValid(Newest) /\ Newest \in {slotA, slotB}
  BY DEF Found, Newest, NewestIsB

SlotsType == slotA \in Blobs /\ slotB \in Blobs /\ generation \in Generations

\* The generation of the next record fits in its byte.
LEMMA NextGenerationType ==
    ASSUME SlotsType
    PROVE  NextGeneration \in Generations
<1>1. CASE Found
  <2>1. Newest.gen \in Generations
    BY <1>1, NewestReadable, BlobFacts DEF SlotsType
  <2> QED BY <1>1, <2>1, SuccIsNewer DEF NextGeneration
<1>2. CASE ~Found
  BY <1>2, SuccIsNewer DEF NextGeneration, SlotsType
<1> QED BY <1>1, <1>2

\* A verified write makes its record the newest.
LEMMA WrittenIsNewest ==
    ASSUME SlotsType, ram \in ValidRecords, ram \in Records, WriteTarget(Record)
    PROVE  /\ Found' /\ Newest' = Record
           /\ slotA' \in Blobs /\ slotB' \in Blobs
           /\ GenerationsAdjacent'
<1>1. Record \in Blobs /\ ReadValid(Record)
  BY NextGenerationType, StoreAssumption
  DEF Record, Blobs, ReadValid, NoRecord, Generations
<1>2. CASE ~Found
  BY <1>1, <1>2 DEF Found, WriteTarget, TargetIsA, Newest, NewestIsB, SlotsType,
     ReadValid, GenerationsAdjacent
<1>3. CASE Found /\ NewestIsB
  <2>1. slotA' = Record /\ slotB' = slotB /\ ReadValid(slotB)
    BY <1>3 DEF WriteTarget, TargetIsA, NewestIsB
  <2>2. Record.gen = Succ(slotB.gen) /\ slotB.gen \in Generations
    BY <1>3, <2>1, BlobFacts DEF SlotsType, Record, NextGeneration, Newest
  <2>3. ~GenerationNewer(slotB.gen, Record.gen)
    BY <2>2, SuccIsNewer
  <2>4. ~NewestIsB'
    BY <2>1, <2>3, <1>1 DEF NewestIsB, ReadValid, GenerationNewer
  <2> QED BY <1>1, <2>1, <2>2, <2>4
          DEF Found, Newest, SlotsType, GenerationsAdjacent, Succ, ReadValid
<1>4. CASE Found /\ ~NewestIsB
  <2>1. slotB' = Record /\ slotA' = slotA /\ ReadValid(slotA)
    BY <1>4 DEF WriteTarget, TargetIsA, NewestIsB, Found
  <2>2. Record.gen = Succ(slotA.gen) /\ slotA.gen \in Generations
    BY <1>4, <2>1, BlobFacts DEF SlotsType, Record, NextGeneration, Newest
  <2>3. GenerationNewer(Record.gen, slotA.gen)
    BY <2>2, SuccIsNewer
  <2>4. NewestIsB'
    BY <2>1, <2>3, <1>1 DEF NewestIsB, ReadValid, GenerationNewer
  <2> QED BY <1>1, <2>1, <2>2, <2>4
          DEF Found, Newest, SlotsType, GenerationsAdjacent, Succ, ReadValid
<1> QED BY <1>2, <1>3, <1>4

\* A write that leaves nothing readable in the target slot, or leaves it alone,
\* does not touch the newest record.
LEMMA RefusedKeepsNewest ==
    ASSUME SlotsType, GenerationsAdjacent, NEW blob \in Blobs, ~ReadValid(blob),
           WriteTarget(blob) \/ UNCHANGED <<slotA, slotB>>
    PROVE  /\ Found' = Found /\ (Found => Newest' = Newest)
           /\ slotA' \in Blobs /\ slotB' \in Blobs
           /\ GenerationsAdjacent'
<1>1. CASE UNCHANGED <<slotA, slotB>>
  BY <1>1 DEF Found, Newest, NewestIsB, ReadValid, GenerationNewer, GenerationsAdjacent,
     Succ, SlotsType
<1>2. CASE WriteTarget(blob) /\ TargetIsA
  BY <1>2 DEF WriteTarget, TargetIsA, Found, Newest, NewestIsB, ReadValid,
     GenerationNewer, GenerationsAdjacent, Succ, SlotsType
<1>3. CASE WriteTarget(blob) /\ ~TargetIsA
  BY <1>3 DEF WriteTarget, TargetIsA, Found, Newest, NewestIsB, ReadValid,
     GenerationNewer, GenerationsAdjacent, Succ, SlotsType
<1> QED BY <1>1, <1>2, <1>3

-----------------------------------------------------------------------------
(* The inductive invariant. *)

RamType == ram \in Records /\ prev \in Records /\ legacy \in Records

StoreType ==
    /\ v2 \in Blobs
    /\ storageSlot \in {"none", "cal_a", "cal_b", "cal_v2", "legacy_keys"}

ControlType ==
    /\ loaded \in BOOLEAN
    /\ pc \in {"setup", "idle", "load", "edit", "persist", "mirror"}
    /\ return \in {"idle", "edit"}
    /\ step \in 1..(FieldCount + 1)
    /\ edit \in SUBSET Fields

\* What the manager's copy has to do with the stored record at each point of a call.
Agreement ==
    /\ pc = "setup" => ~loaded
    /\ pc \in {"edit", "persist", "mirror"} => loaded
    /\ pc \notin {"setup", "idle"} => edit \in Edits
    /\ pc \in {"idle", "load", "edit"} /\ loaded /\ ~Blind => ram = Durable
    /\ pc = "persist" /\ return = "edit" => ram = Durable /\ ~Blind
    /\ pc = "persist" /\ return = "idle" /\ ~Blind => prev = Durable
    /\ pc = "mirror" => Found /\ Newest.rec = ram /\ ~Blind

IInv == SlotsType /\ StoreType /\ RamType /\ ControlType /\ GenerationsAdjacent /\ Agreement

LEMMA InitIInv == Init => IInv
<1> SUFFICES ASSUME Init PROVE IInv
  OBVIOUS
<1>1. NoRecord \in Blobs /\ ~ReadValid(NoRecord)
  BY NoRecordUnreadable
<1>2. Default \in Records
  BY StoreAssumption
<1>3. SlotsType /\ GenerationsAdjacent
  BY <1>1, StoreAssumption DEF Init, SlotsType, GenerationsAdjacent, Generations
<1>4. StoreType
  <2>1. 0 \in Generations
    BY StoreAssumption DEF Generations
  <2>2. [rec : Records, gen : {0}] \subseteq Blobs
    BY <2>1 DEF Blobs
  <2> QED BY <1>1, <2>2 DEF Init, StoreType
<1>5. RamType
  BY <1>2 DEF Init, RamType
<1>6. ControlType
  <2>1. 1 \in 1..(FieldCount + 1)
    BY StoreAssumption
  <2> QED BY <2>1 DEF Init, ControlType
<1>7. Agreement
  BY DEF Init, Agreement
<1> QED BY <1>3, <1>4, <1>5, <1>6, <1>7 DEF IInv

\* The selection depends on the slots only.
LEMMA SameSlots ==
    ASSUME UNCHANGED <<slotA, slotB>>
    PROVE  Found' = Found /\ Newest' = Newest /\ GenerationsAdjacent' = GenerationsAdjacent
  BY DEF Found, Newest, NewestIsB, ReadValid, GenerationNewer, GenerationsAdjacent, Succ

\* So does the record the next boot loads, as long as a slot is readable.
LEMMA SameBlobs ==
    ASSUME UNCHANGED <<slotA, slotB>>, Found \/ UNCHANGED <<v2, legacy>>
    PROVE  Durable' = Durable
  BY SameSlots DEF Durable, ReadValid

\* A refused or failed write changes nothing the next boot loads.
LEMMA WriteFailedKeeps ==
    ASSUME SlotsType, RamType, StoreType, GenerationsAdjacent, WriteFailed
    PROVE  /\ Durable' = Durable
           /\ slotA' \in Blobs /\ slotB' \in Blobs
           /\ GenerationsAdjacent'
<1>1. NoRecord \in Blobs /\ ~ReadValid(NoRecord)
  BY NoRecordUnreadable
<1>2. Record \in Blobs
  BY NextGenerationType DEF Record, Blobs, RamType
<1>3. ram \notin ValidRecords => ~ReadValid(Record)
  BY DEF ReadValid, Record
<1>4. PICK blob \in Blobs : ~ReadValid(blob)
                            /\ (WriteTarget(blob) \/ UNCHANGED <<slotA, slotB>>)
  BY <1>1, <1>2, <1>3 DEF WriteFailed
<1>5. /\ Found' = Found /\ (Found => Newest' = Newest)
      /\ slotA' \in Blobs /\ slotB' \in Blobs
      /\ GenerationsAdjacent'
  BY <1>4, RefusedKeepsNewest
<1>6. UNCHANGED <<v2, legacy>>
  BY DEF WriteFailed
<1>7. Durable' = Durable
  BY <1>5, <1>6 DEF Durable, ReadValid
<1> QED BY <1>5, <1>7

LEMMA NextIInv == IInv /\ [Next]_vars => IInv'
<1> SUFFICES ASSUME IInv, [Next]_vars PROVE IInv'
  OBVIOUS
<1> USE DEF IInv
<1>1. CASE SetupDone
  <2>1. UNCHANGED <<slotA, slotB, v2, legacy>>
    BY <1>1 DEF SetupDone, blobs
  <2>2. SlotsType' /\ StoreType' /\ RamType' /\ GenerationsAdjacent' /\ Durable' = Durable
    BY <1>1, <2>1, SameSlots, SameBlobs
    DEF SetupDone, blobs, mgr, call, SlotsType, StoreType, RamType
  <2>3. ControlType'
    BY <1>1 DEF SetupDone, mgr, call, ControlType
  <2>4. Agreement'
    BY <1>1, <2>2 DEF SetupDone, mgr, call, Agreement, Blind
  <2> QED BY <2>2, <2>3, <2>4
<1>2. CASE Call
  <2>1. UNCHANGED <<slotA, slotB, v2, legacy>>
    BY <1>2 DEF Call, blobs
  <2>2. SlotsType' /\ StoreType' /\ RamType' /\ GenerationsAdjacent' /\ Durable' = Durable
    BY <1>2, <2>1, SameSlots, SameBlobs
    DEF Call, blobs, mgr, call, SlotsType, StoreType, RamType
  <2>3. ControlType'
    BY <1>2, StoreAssumption DEF Call, mgr, call, ControlType
  <2>4. Agreement'
    BY <1>2, <2>2 DEF Call, mgr, call, Agreement, Blind
  <2> QED BY <2>2, <2>3, <2>4
<1>3. CASE LoadUnavailable
  <2>1. UNCHANGED <<slotA, slotB, v2, legacy>>
    BY <1>3 DEF LoadUnavailable, blobs
  <2>2. SlotsType' /\ StoreType' /\ RamType' /\ GenerationsAdjacent' /\ Durable' = Durable
    BY <1>3, <2>1, SameSlots, SameBlobs
    DEF LoadUnavailable, blobs, call, SlotsType, StoreType, RamType
  <2>3. ControlType'
    BY <1>3 DEF LoadUnavailable, call, ControlType
  <2>4. Agreement'
    BY <1>3, <2>2 DEF LoadUnavailable, call, Agreement, Blind
  <2> QED BY <2>2, <2>3, <2>4
<1>4. CASE LoadNewest
  <2>1. UNCHANGED <<slotA, slotB, v2, legacy>>
    BY <1>4 DEF LoadNewest, blobs
  <2>2. Newest \in Blobs /\ Newest.gen \in Generations /\ Newest.rec \in Records
    BY <1>4, NewestReadable, BlobFacts DEF LoadNewest, SlotsType
  <2>3. SlotsType' /\ StoreType' /\ RamType' /\ GenerationsAdjacent' /\ Durable' = Durable
    BY <1>4, <2>1, <2>2, SameSlots, SameBlobs
    DEF LoadNewest, blobs, call, SlotsType, StoreType, RamType
  <2>4. ControlType'
    BY <1>4 DEF LoadNewest, call, ControlType
  <2>5. Agreement'
    BY <1>4, <2>3 DEF LoadNewest, call, Agreement, Blind, Durable
  <2> QED BY <2>3, <2>4, <2>5
<1>5. CASE LoadV2
  <2>1. UNCHANGED <<slotA, slotB, v2, legacy>>
    BY <1>5 DEF LoadV2, blobs
  <2>2. v2.gen \in Generations /\ v2.rec \in Records
    BY <1>5, BlobFacts DEF LoadV2, StoreType
  <2>3. SlotsType' /\ StoreType' /\ RamType' /\ GenerationsAdjacent' /\ Durable' = Durable
    BY <1>5, <2>1, <2>2, SameSlots, SameBlobs
    DEF LoadV2, blobs, call, SlotsType, StoreType, RamType
  <2>4. ControlType'
    BY <1>5 DEF LoadV2, call, ControlType
  <2>5. Agreement'
    BY <1>5, <2>3 DEF LoadV2, call, Agreement, Blind, Durable
  <2> QED BY <2>3, <2>4, <2>5
<1>6. CASE LoadLegacy
  <2>1. UNCHANGED <<slotA, slotB, v2, legacy>>
    BY <1>6 DEF LoadLegacy, blobs
  <2>2. SlotsType' /\ StoreType' /\ RamType' /\ GenerationsAdjacent' /\ Durable' = Durable
    BY <1>6, <2>1, SameSlots, SameBlobs
    DEF LoadLegacy, blobs, call, SlotsType, StoreType, RamType
  <2>3. ControlType'
    BY <1>6 DEF LoadLegacy, call, ControlType
  <2>4. Agreement'
    BY <1>6, <2>2 DEF LoadLegacy, call, Agreement, Blind, Durable
  <2> QED BY <2>2, <2>3, <2>4
<1>7. CASE AlreadyLoaded \/ Reject
  <2>1. UNCHANGED <<slotA, slotB, v2, legacy, ram, prev, loaded, generation, storageSlot,
                    return, step, edit>>
        /\ pc' \in {"idle", "edit"} /\ pc \in {"load", "edit"} /\ (pc' = "edit" => loaded)
    BY <1>7 DEF AlreadyLoaded, Reject, blobs, mgr, call
  <2>2. SlotsType' /\ StoreType' /\ RamType' /\ GenerationsAdjacent' /\ Durable' = Durable
    BY <2>1, SameSlots, SameBlobs DEF SlotsType, StoreType, RamType
  <2>3. ControlType'
    BY <2>1 DEF ControlType
  <2>4. Agreement'
    BY <2>1, <2>2 DEF Agreement, Blind
  <2> QED BY <2>2, <2>3, <2>4
<1>8. CASE Edit
  <2>1. UNCHANGED <<slotA, slotB, v2, legacy>>
    BY <1>8 DEF Edit, blobs
  <2>2. SlotsType' /\ StoreType' /\ RamType' /\ GenerationsAdjacent' /\ Durable' = Durable
    BY <1>8, <2>1, SameSlots, SameBlobs
    DEF Edit, blobs, mgr, SlotsType, StoreType, RamType
  <2>3. ControlType'
    BY <1>8 DEF Edit, mgr, ControlType
  <2>4. Agreement'
    BY <1>8, <2>2 DEF Edit, mgr, Agreement, Blind
  <2> QED BY <2>2, <2>3, <2>4
<1>9. CASE PersistUnavailable \/ WriteFailed
  <2>1. /\ Durable' = Durable /\ slotA' \in Blobs /\ slotB' \in Blobs
        /\ GenerationsAdjacent' /\ UNCHANGED <<v2, legacy>>
    <3>1. CASE PersistUnavailable
      <4>1. UNCHANGED <<slotA, slotB, v2, legacy>>
        BY <3>1 DEF PersistUnavailable, blobs
      <4> QED BY <4>1, SameSlots, SameBlobs DEF SlotsType
    <3>2. CASE WriteFailed
      BY <3>2, WriteFailedKeeps DEF WriteFailed
    <3> QED BY <1>9, <3>1, <3>2
  <2>2. pc = "persist" /\ PersistFailed
    BY <1>9 DEF PersistUnavailable, WriteFailed
  <2>3. SlotsType' /\ StoreType' /\ RamType'
    BY <2>1, <2>2 DEF PersistFailed, mgr, call, SlotsType, StoreType, RamType
  <2>4. ControlType'
    BY <2>2 DEF PersistFailed, mgr, call, ControlType
  <2>5. Agreement'
    BY <2>1, <2>2 DEF PersistFailed, mgr, call, Agreement, Blind, ControlType
  <2> QED BY <2>1, <2>3, <2>4, <2>5
<1>10. CASE WriteVerified
  <2>1. /\ Found' /\ Newest' = Record /\ slotA' \in Blobs /\ slotB' \in Blobs
        /\ GenerationsAdjacent'
    BY <1>10, WrittenIsNewest DEF WriteVerified, RamType
  <2>2. SlotsType' /\ StoreType' /\ RamType'
    BY <1>10, <2>1, NextGenerationType DEF WriteVerified, SlotsType, StoreType, RamType
  <2>3. ControlType'
    BY <1>10, StoreAssumption DEF WriteVerified, ControlType
  <2>4. Agreement'
    BY <1>10, <2>1 DEF WriteVerified, Agreement, Blind, Record
  <2> QED BY <2>1, <2>2, <2>3, <2>4
<1>11. CASE MirrorField
  <2>1. UNCHANGED <<slotA, slotB, v2>>
    BY <1>11 DEF MirrorField, blobs
  <2>2. Durable' = Durable /\ Found' = Found /\ Newest' = Newest /\ GenerationsAdjacent'
    BY <1>11, <2>1, SameSlots, SameBlobs DEF MirrorField, Agreement
  <2>3. step \in Fields
    BY <1>11, StoreAssumption DEF MirrorField, ControlType, Fields
  <2>4. ram[step] \in Values
    BY <2>3 DEF RamType, Records
  <2>5. RamType'
    BY <1>11, <2>3, <2>4 DEF MirrorField, RamType, Records
  <2>6. SlotsType' /\ StoreType'
    BY <1>11, <2>1 DEF MirrorField, mgr, SlotsType, StoreType
  <2>7. ControlType'
    BY <1>11, StoreAssumption DEF MirrorField, mgr, ControlType
  <2>8. Agreement'
    BY <1>11, <2>2 DEF MirrorField, mgr, Agreement, Blind
  <2> QED BY <2>2, <2>5, <2>6, <2>7, <2>8
<1>12. CASE MirrorV2
  <2>1. UNCHANGED <<slotA, slotB, legacy>> /\ Found /\ Newest.rec = ram
    BY <1>12 DEF MirrorV2, Agreement
  <2>2. Durable' = Durable /\ Durable = ram /\ GenerationsAdjacent'
    BY <2>1, SameSlots, SameBlobs DEF Durable
  <2>3. [rec |-> ram, gen |-> generation] \in Blobs /\ NoRecord \in Blobs
    BY NoRecordUnreadable DEF Blobs, RamType, SlotsType
  <2>4. SlotsType' /\ StoreType' /\ RamType'
    BY <1>12, <2>3 DEF MirrorV2, mgr, SlotsType, StoreType, RamType
  <2>5. ControlType'
    BY <1>12 DEF MirrorV2, mgr, call, ControlType
  <2>6. Agreement'
    BY <1>12, <2>2 DEF MirrorV2, mgr, call, Agreement, Blind, ControlType
  <2> QED BY <2>2, <2>4, <2>5, <2>6
<1>13. CASE Reset
  <2>1. UNCHANGED <<slotA, slotB, v2, legacy>>
    BY <1>13 DEF Reset, blobs
  <2>2. Default \in Records /\ 0 \in Generations
    BY StoreAssumption DEF Generations
  <2>3. SlotsType' /\ StoreType' /\ RamType' /\ GenerationsAdjacent'
    BY <1>13, <2>1, <2>2, SameSlots DEF Reset, SlotsType, StoreType, RamType
  <2>4. ControlType'
    <3>1. 1 \in 1..(FieldCount + 1)
      BY StoreAssumption
    <3> QED BY <1>13, <3>1 DEF Reset, ControlType
  <2>5. Agreement'
    BY <1>13 DEF Reset, Agreement
  <2> QED BY <2>3, <2>4, <2>5
<1>14. CASE UNCHANGED vars
  <2>1. UNCHANGED <<slotA, slotB, v2, legacy, ram, prev, loaded, generation, storageSlot,
                    pc, return, step, edit>>
    BY <1>14 DEF vars, blobs, mgr, call
  <2>2. GenerationsAdjacent' /\ Durable' = Durable /\ Found' = Found /\ Newest' = Newest
    BY <2>1, SameSlots, SameBlobs
  <2>3. SlotsType' /\ StoreType' /\ RamType'
    BY <2>1 DEF SlotsType, StoreType, RamType
  <2>4. ControlType'
    BY <2>1 DEF ControlType
  <2>5. Agreement'
    BY <2>1, <2>2 DEF Agreement, Blind
  <2> QED BY <2>2, <2>3, <2>4, <2>5
<1> QED BY <1>1, <1>2, <1>3, <1>4, <1>5, <1>6, <1>7, <1>8, <1>9, <1>10, <1>11, <1>12,
           <1>13, <1>14 DEF Next, Load, Persist

LEMMA Invariance == Spec => []IInv
  BY InitIInv, NextIInv, PTL DEF Spec

-----------------------------------------------------------------------------
(* The theorems. *)

\* Every variable keeps its type through every call, migration and reset.
THEOREM TypeCorrect == Spec => []TypeOK
<1>1. IInv => TypeOK
  BY DEF IInv, TypeOK, SlotsType, StoreType, RamType, ControlType
<1> QED BY <1>1, Invariance, PTL

\* The wrapping generation comparison never has to choose between slots that are
\* more than one save apart (generationNewer()).
THEOREM SlotsAdjacent == Spec => []GenerationsAdjacent
<1>1. IInv => GenerationsAdjacent
  BY DEF IInv
<1> QED BY <1>1, Invariance, PTL

\* Between two calls the manager shows what the next boot will load, whatever was
\* refused, failed, rolled back or cut off by a reset.
THEOREM StorageAgrees == Spec => []RamMatchesStorage
<1>1. IInv => RamMatchesStorage
  BY DEF IInv, Agreement, RamMatchesStorage
<1> QED BY <1>1, Invariance, PTL

\* While the downgrade mirrors are being written a checksummed slot holds the record.
THEOREM MirrorsAreCovered == Spec => []MirrorsCovered
<1>1. IInv => MirrorsCovered
  BY DEF IInv, Agreement, MirrorsCovered
<1> QED BY <1>1, Invariance, PTL

-----------------------------------------------------------------------------
(* The store implements CalibrationRegister. *)

AbstractVars == <<Durable, Job, Blind>>

LEMMA InitRefines == Init => Register!Init
<1> SUFFICES ASSUME Init PROVE Register!Init
  OBVIOUS
<1>1. Durable \in Records
  BY NoRecordUnreadable, BlobFacts, InitIInv
  DEF Durable, Found, Init, IInv, StoreType, RamType
<1>2. Job = [stage |-> "idle"] /\ Blind = FALSE
  BY DEF Init, Job, Blind
<1> QED BY <1>1, <1>2 DEF Register!Init, Register!Idle, Register!Records, Records

LEMMA StepRefines == IInv /\ [Next]_vars => [Register!Next]_AbstractVars
<1> SUFFICES ASSUME IInv, [Next]_vars PROVE Register!Next \/ UNCHANGED AbstractVars
  BY DEF AbstractVars
<1> USE DEF IInv
<1>1. CASE SetupDone \/ AlreadyLoaded
  <2>1. UNCHANGED <<slotA, slotB, v2, legacy, ram, loaded, storageSlot, return, edit>>
    BY <1>1 DEF SetupDone, AlreadyLoaded, blobs, mgr, call
  <2>2. Durable' = Durable
    BY <2>1, SameBlobs
  <2>3. Job' = Job /\ Blind' = Blind
    BY <1>1, <2>1 DEF SetupDone, AlreadyLoaded, Job, Blind
  <2> QED BY <2>2, <2>3 DEF AbstractVars
<1>2. CASE Call
  <2>1. UNCHANGED <<slotA, slotB, v2, legacy, loaded, storageSlot>>
    BY <1>2 DEF Call, blobs, mgr
  <2>2. Durable' = Durable /\ Blind' = Blind
    BY <2>1, SameBlobs DEF Blind
  <2>3. Job = [stage |-> "idle"] /\ Job' = [stage |-> "waiting", edit |-> edit']
    BY <1>2 DEF Call, Job
  <2>4. Register!Start(edit') /\ edit' \in Edits
    BY <1>2, <2>2, <2>3 DEF Call, Register!Start, Register!Idle, Register!Waiting
  <2> QED BY <2>4 DEF Register!Next
<1>3. CASE LoadUnavailable
  <2>1. UNCHANGED <<slotA, slotB, v2, legacy>>
    BY <1>3 DEF LoadUnavailable, blobs
  <2>2. Durable' = Durable /\ Blind' = TRUE
    BY <1>3, <2>1, SameBlobs DEF LoadUnavailable, Blind
  <2>3. Job = [stage |-> "waiting", edit |-> edit] /\ Job' = Job
    BY <1>3 DEF LoadUnavailable, Job, call
  <2>4. Register!LoseSight(edit) /\ edit \in Edits
    BY <1>3, <2>2, <2>3 DEF LoadUnavailable, Agreement, Register!LoseSight, Register!Waiting
  <2> QED BY <2>4 DEF Register!Next
<1>4. CASE LoadNewest \/ LoadV2 \/ LoadLegacy
  <2>1. UNCHANGED <<slotA, slotB, v2, legacy, edit>>
    BY <1>4 DEF LoadNewest, LoadV2, LoadLegacy, blobs, call
  <2>2. Durable' = Durable
    BY <2>1, SameBlobs
  <2>3. Job' = Job /\ Blind' = Blind
    BY <1>4, <2>1 DEF LoadNewest, LoadV2, LoadLegacy, Job, Blind, call
  <2> QED BY <2>2, <2>3 DEF AbstractVars
<1>5. CASE Reject
  <2>1. UNCHANGED <<slotA, slotB, v2, legacy, loaded, storageSlot>>
    BY <1>5 DEF Reject, blobs, mgr
  <2>2. Durable' = Durable /\ Blind' = Blind
    BY <2>1, SameBlobs DEF Blind
  <2>3. Job = [stage |-> "waiting", edit |-> edit] /\ Job' = [stage |-> "idle"]
    BY <1>5 DEF Reject, Job
  <2>4. Register!Fail(edit) /\ edit \in Edits
    BY <1>5, <2>2, <2>3
    DEF Reject, Agreement, Register!Fail, Register!Waiting, Register!Idle
  <2> QED BY <2>4 DEF Register!Next
<1>6. CASE Edit
  <2>1. UNCHANGED <<slotA, slotB, v2, legacy, loaded, storageSlot, edit>>
    BY <1>6 DEF Edit, blobs, mgr
  <2>2. Durable' = Durable /\ Blind' = Blind
    BY <2>1, SameBlobs DEF Blind
  <2>3. Job = [stage |-> "waiting", edit |-> edit]
        /\ Job' = [stage |-> "writing", edit |-> edit, rec |-> ram']
    BY <1>6, <2>1 DEF Edit, Job
  <2>4. Blind \/ \A f \in Fields \ edit : ram'[f] = Durable[f]
    BY <1>6 DEF Edit, Agreement
  <2>5. Register!Choose(edit, ram') /\ edit \in Edits /\ ram' \in Register!Records
    BY <1>6, <2>2, <2>3, <2>4
    DEF Edit, Agreement, Records, Register!Records, Register!Choose, Register!Waiting,
        Register!Writing
  <2> QED BY <2>5 DEF Register!Next
<1>7. CASE PersistUnavailable \/ WriteFailed
  <2>1. Durable' = Durable
    <3>1. CASE PersistUnavailable
      BY <3>1, SameBlobs DEF PersistUnavailable, blobs
    <3>2. CASE WriteFailed
      BY <3>2, WriteFailedKeeps
    <3> QED BY <1>7, <3>1, <3>2
  <2>2. pc = "persist" /\ PersistFailed
    BY <1>7 DEF PersistUnavailable, WriteFailed
  <2>3. Blind' = Blind
    BY <2>2 DEF PersistFailed, mgr, Blind
  <2>4. CASE return = "edit"
    <3>1. Job' = Job
      BY <2>2, <2>4 DEF PersistFailed, Job, call
    <3> QED BY <2>1, <2>3, <3>1 DEF AbstractVars
  <2>5. CASE return = "idle"
    <3>1. Job = [stage |-> "writing", edit |-> edit, rec |-> ram] /\ Job' = [stage |-> "idle"]
      BY <2>2, <2>5 DEF PersistFailed, Job
    <3>2. Register!Fail(edit) /\ edit \in Edits
      BY <2>1, <2>2, <2>3, <3>1
      DEF Agreement, RamType, Records, Register!Records, Register!Fail, Register!Waiting,
          Register!Writing, Register!Idle
    <3> QED BY <3>2 DEF Register!Next
  <2> QED BY <2>4, <2>5 DEF ControlType
<1>8. CASE WriteVerified
  <2>1. Found' /\ Newest' = Record
    BY <1>8, WrittenIsNewest DEF WriteVerified, RamType
  <2>2. Durable' = ram /\ Blind' = FALSE
    BY <1>8, <2>1 DEF WriteVerified, Durable, Record, Blind
  <2>3. CASE return = "edit"
    <3>1. Job' = Job /\ Durable = ram /\ Blind = FALSE
      BY <1>8, <2>3 DEF WriteVerified, Job, Agreement, Blind
    <3> QED BY <2>2, <3>1 DEF AbstractVars
  <2>4. CASE return = "idle"
    <3>1. Job = [stage |-> "writing", edit |-> edit, rec |-> ram]
          /\ Job' = [stage |-> "done", edit |-> edit]
      BY <1>8, <2>4 DEF WriteVerified, Job
    <3>2. Register!Take(edit, ram) /\ edit \in Edits /\ ram \in Register!Records
      BY <1>8, <2>2, <3>1
      DEF WriteVerified, Agreement, RamType, Records, Register!Records, Register!Take,
          Register!Writing, Register!Done
    <3> QED BY <3>2 DEF Register!Next
  <2> QED BY <2>3, <2>4 DEF ControlType
<1>9. CASE MirrorField
  <2>1. UNCHANGED <<slotA, slotB, ram, loaded, storageSlot, pc, return, edit>> /\ Found
    BY <1>9 DEF MirrorField, blobs, mgr, Agreement
  <2>2. Durable' = Durable /\ Job' = Job /\ Blind' = Blind
    BY <2>1, SameBlobs DEF Job, Blind
  <2> QED BY <2>2 DEF AbstractVars
<1>10. CASE MirrorV2
  <2>1. UNCHANGED <<slotA, slotB, loaded, storageSlot, edit, return>> /\ Found
    BY <1>10 DEF MirrorV2, mgr, call, Agreement
  <2>2. Durable' = Durable /\ Blind' = Blind
    BY <2>1, SameBlobs DEF Blind
  <2>3. CASE return = "edit"
    <3>1. Job' = Job
      BY <1>10, <2>1, <2>3 DEF MirrorV2, Job
    <3> QED BY <2>2, <3>1 DEF AbstractVars
  <2>4. CASE return = "idle"
    <3>1. Job = [stage |-> "done", edit |-> edit] /\ Job' = [stage |-> "idle"]
      BY <1>10, <2>4 DEF MirrorV2, Job
    <3>2. Register!Finish(edit) /\ edit \in Edits
      BY <1>10, <2>2, <3>1
      DEF MirrorV2, Agreement, Register!Finish, Register!Done, Register!Idle
    <3> QED BY <3>2 DEF Register!Next
  <2> QED BY <2>3, <2>4 DEF ControlType
<1>11. CASE Reset
  <2>1. UNCHANGED <<slotA, slotB, v2, legacy>>
    BY <1>11 DEF Reset, blobs
  <2>2. Durable' = Durable /\ Job' = [stage |-> "idle"] /\ Blind' = FALSE
    BY <1>11, <2>1, SameBlobs DEF Reset, Job, Blind
  <2> QED BY <2>2 DEF Register!Next, Register!Reset, Register!Idle
<1>12. CASE UNCHANGED vars
  <2>1. UNCHANGED <<slotA, slotB, v2, legacy, ram, loaded, storageSlot, pc, return, edit>>
    BY <1>12 DEF vars, blobs, mgr, call
  <2>2. Durable' = Durable /\ Job' = Job /\ Blind' = Blind
    BY <2>1, SameBlobs DEF Job, Blind
  <2> QED BY <2>2 DEF AbstractVars
<1> QED BY <1>1, <1>2, <1>3, <1>4, <1>5, <1>6, <1>7, <1>8, <1>9, <1>10, <1>11, <1>12
        DEF Next, Load, Persist

\* A calibration is replaced as a whole or not at all, a reported success is never
\* undone and a reported failure never shows: the two slots, the migration of older
\* storage and the downgrade mirrors implement one register.
THEOREM Refinement == Spec => ImplementsRegister
<1>1. Register!Init /\ [][Register!Next]_AbstractVars => ImplementsRegister
  BY PTL DEF ImplementsRegister, Register!Spec, AbstractVars
<1> QED BY <1>1, InitRefines, StepRefines, Invariance, PTL DEF Spec
=============================================================================
