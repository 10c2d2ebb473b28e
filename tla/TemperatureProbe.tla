-------------------------- MODULE TemperatureProbe --------------------------
(***************************************************************************)
(* The temperature probe: the filter that decides from ADC samples whether *)
(* a probe is connected (ProbePresenceFilter.cpp), and the manager that    *)
(* keeps its reading, the two calibration references and the monitoring    *)
(* switch (TemperatureProbeManager.cpp).                                   *)
(*                                                                         *)
(* A setter changes RAM first, saves, and undoes its changes when the save *)
(* fails: two steps here. How a save survives a reset is the subject of    *)
(* CalibrationStore; `stored` is the one durable record it promises. The   *)
(* trim only goes into the displayed value and is left out.                *)
(***************************************************************************)
EXTENDS Integers, Sequences

CONSTANTS
    PresentSamples, AbsentSamples, \* TEMP_PROBE_..._STABLE_SAMPLES
    MinRaw, MaxRaw,                \* TEMP_PROBE_PRESENT_MIN_RAW, ..._MAX_RAW
    Raws,                          \* what analogRead() returns
    Temps,                         \* reference temperatures
    MaxHistory                     \* bound: samples since the filter was last cleared

ASSUME ProbeAssumption ==
    /\ PresentSamples \in Nat \ {0} /\ AbsentSamples \in Nat \ {0}
    /\ MinRaw \in Int /\ MaxRaw \in Int
    /\ Raws \subseteq Nat /\ Temps \subseteq Int
    /\ MaxHistory \in Nat

VARIABLES
    filter,      \* probePresenceFilter
    reading,     \* probePresent, lastRawReading, savedCurrentTemperatureRaw
    resting,     \* less than the sample interval has passed since lastSampleAtMs
    calib,       \* lowPoint, highPoint, enabled
    calibLoaded, \* calibrationLoaded
    stored,      \* the calibration record in flash
    undo,        \* what a setter that is saving copied before its changes
    samples,     \* history: the samples since the filter was last cleared
    settled      \* history: maintain() has run since the settings were loaded

sensor    == <<filter, reading, resting, samples>>
probeVars == <<sensor, calib, calibLoaded, stored, undo, settled>>

InRange(raw) == MinRaw < raw /\ raw < MaxRaw

\* A reference that is not valid has raw -1 (CalibrationPoint of the header).
NoPoint == [raw |-> -1, temp |-> 0]
Points  == {NoPoint} \cup [raw : Raws, temp : Temps]
IsSet(point) == point.raw >= 0

Calibrations == [low : Points, high : Points, enabled : BOOLEAN]
DefaultCalibration == [low |-> NoPoint, high |-> NoPoint, enabled |-> TRUE]

\* temperatureCalibrationPairValid(), and the part of the record's check that is about pairs.
PairValid(low, high) == low.raw # high.raw /\ low.temp < high.temp
RecordValid(c) == IsSet(c.low) /\ IsSet(c.high) => PairValid(c.low, c.high)

-----------------------------------------------------------------------------
(* ProbePresenceFilter *)

ClearFilter == [inRange |-> 0, outOfRange |-> 0, raw |-> -1, present |-> FALSE]

\* Mutant: the counters pass their limit by one.
Capped_OnePast(n, top) == IF n <= top THEN n + 1 ELSE n

Capped(n, top) == IF n < top THEN n + 1 ELSE n

GoodSample(f, raw) ==
    LET present == f.present \/ Capped(f.inRange, PresentSamples) >= PresentSamples
    IN  [inRange    |-> Capped(f.inRange, PresentSamples),
         outOfRange |-> 0,
         raw        |-> IF present THEN raw ELSE f.raw,
         present    |-> present]

BadSample(f) ==
    LET lost == f.present /\ Capped(f.outOfRange, AbsentSamples) >= AbsentSamples
    IN  [inRange    |-> 0,
         outOfRange |-> Capped(f.outOfRange, AbsentSamples),
         raw        |-> IF lost THEN -1 ELSE f.raw,
         present    |-> f.present /\ ~lost]

\* update() while monitoring is on.
Updated(f, raw) == IF InRange(raw) THEN GoodSample(f, raw) ELSE BadSample(f)

\* stableRaw()
StableRaw(f) == IF f.present THEN f.raw ELSE -1

-----------------------------------------------------------------------------
(* maintain() *)

NoReading == [present |-> FALSE, last |-> -1, saved |-> -1]

\* The manager forgets what the filter knows.
ForgetReading ==
    /\ filter' = ClearFilter
    /\ reading' = NoReading
    /\ samples' = <<>>

MaintainDisabled ==
    /\ undo = <<>> /\ ~calib.enabled
    /\ ForgetReading
    /\ settled' = TRUE
    /\ UNCHANGED <<resting, calib, calibLoaded, stored, undo>>

Sample(raw) ==
    /\ undo = <<>> /\ calib.enabled /\ ~resting
    /\ Len(samples) < MaxHistory
    /\ filter' = Updated(filter, raw)
    /\ reading' = [present |-> filter'.present, last |-> raw, saved |-> StableRaw(filter')]
    /\ samples' = Append(samples, raw)
    /\ resting' = TRUE
    /\ settled' = TRUE
    /\ UNCHANGED <<calib, calibLoaded, stored, undo>>

IntervalOver ==
    /\ resting
    /\ resting' = FALSE
    /\ UNCHANGED <<filter, reading, samples, calib, calibLoaded, stored, undo, settled>>

-----------------------------------------------------------------------------
(* The setters. Each begins with loadCalibration(), which only the first one after a boot feels:  *)
(* begin() has no caller. NVS that cannot be opened leaves the defaults.                          *)

LoadCalibration(c) ==
    /\ undo = <<>>
    /\ IF calibLoaded THEN c = calib ELSE c \in {stored, calib}
    /\ calibLoaded' = TRUE
    /\ settled' = (settled /\ (c.enabled \/ ~calib.enabled))

Snapshot(c) == <<[calib |-> c, filter |-> filter, reading |-> reading,
                  resting |-> resting, samples |-> samples]>>

\* The setter's values go into RAM and to persistCalibration(), from the loaded values c.
StartSave(c, new) ==
    /\ calib' = new
    /\ undo' = Snapshot(c)
    /\ UNCHANGED stored

\* Out of range arguments, a missing reading, a pair that does not fit: the load stays.
Refuse ==
    \E c \in {calib, stored} :
        /\ LoadCalibration(c)
        /\ calib' = c
        /\ UNCHANGED <<sensor, stored, undo>>

SetEnabled(on) ==
    \E c \in {calib, stored} :
        /\ LoadCalibration(c)
        /\ StartSave(c, [c EXCEPT !.enabled = on])
        /\ ForgetReading
        /\ resting' = FALSE

\* hasValidReadingForCapture()
HasReading == reading.present /\ reading.saved >= 0

CaptureLow(c, temp) ==
    LET point == [raw |-> reading.saved, temp |-> temp]
    IN  /\ LoadCalibration(c)
        /\ HasReading
        /\ IsSet(c.high) => PairValid(point, c.high)
        /\ StartSave(c, [c EXCEPT !.low = point])
        /\ UNCHANGED sensor

CaptureHigh(c, temp) ==
    LET point == [raw |-> reading.saved, temp |-> temp]
    IN  /\ LoadCalibration(c)
        /\ HasReading
        /\ IsSet(c.low) => PairValid(c.low, point)
        /\ StartSave(c, [c EXCEPT !.high = point])
        /\ UNCHANGED sensor

\* POST /temperature/capture-low and -high.
HandleCaptureLow  == \E c \in {calib, stored}, temp \in Temps : CaptureLow(c, temp)
HandleCaptureHigh == \E c \in {calib, stored}, temp \in Temps : CaptureHigh(c, temp)

\* temp-low and temp-high: the reference temperatures stay.
CaptureUsingSaved ==
    \E c \in {calib, stored} :
        \/ IsSet(c.low) /\ CaptureLow(c, c.low.temp)
        \/ IsSet(c.high) /\ CaptureHigh(c, c.high.temp)

\* shouldRunTemperatureDependentFunctions(), asked before the load, and only by the schedule:
\* the serial console captures without it.
ShouldRun == calib.enabled /\ reading.present
RunScheduled == ShouldRun /\ CaptureUsingSaved
RunSerial    == CaptureUsingSaved

ResetCalibration ==
    \E c \in {calib, stored} :
        /\ LoadCalibration(c)
        /\ StartSave(c, [c EXCEPT !.low = NoPoint, !.high = NoPoint])
        /\ UNCHANGED sensor

SetTrimOffset ==
    \E c \in {calib, stored} :
        /\ LoadCalibration(c)
        /\ StartSave(c, c)
        /\ UNCHANGED sensor

\* Mutant: a restore that switches monitoring off leaves the reading.
RestoreCalibration_KeepsReading(low, high, on) ==
    \E c \in {calib, stored} :
        /\ LoadCalibration(c)
        /\ PairValid(low, high)
        /\ StartSave(c, [low |-> low, high |-> high, enabled |-> on])
        /\ UNCHANGED sensor

RestoreCalibration(low, high, on) ==
    \E c \in {calib, stored} :
        /\ LoadCalibration(c)
        /\ PairValid(low, high)
        /\ StartSave(c, [low |-> low, high |-> high, enabled |-> on])
        /\ IF on THEN UNCHANGED sensor ELSE ForgetReading /\ resting' = FALSE

SaveSucceeds ==
    /\ undo # <<>> /\ RecordValid(calib)
    /\ stored' = calib
    /\ undo' = <<>>
    /\ UNCHANGED <<sensor, calib, calibLoaded, settled>>

\* Mutant: the filter is not among the things restored.
SaveFails_KeepsFilter ==
    /\ undo # <<>>
    /\ LET old == undo[1]
       IN  /\ calib' = old.calib
           /\ reading' = old.reading
           /\ resting' = old.resting
           /\ samples' = old.samples
    /\ undo' = <<>>
    /\ UNCHANGED <<filter, calibLoaded, stored, settled>>

SaveFails ==
    /\ undo # <<>>
    /\ LET old == undo[1]
       IN  /\ calib' = old.calib
           /\ filter' = old.filter
           /\ reading' = old.reading
           /\ resting' = old.resting
           /\ samples' = old.samples
    /\ undo' = <<>>
    /\ UNCHANGED <<calibLoaded, stored, settled>>

\* During a save the record may have reached flash or not.
Restart ==
    /\ stored' \in {stored} \cup {c \in {calib} : undo # <<>> /\ RecordValid(c)}
    /\ filter' = ClearFilter
    /\ reading' = NoReading
    /\ samples' = <<>>
    /\ resting' = FALSE
    /\ calib' = DefaultCalibration
    /\ calibLoaded' = FALSE
    /\ undo' = <<>>
    /\ settled' = TRUE

-----------------------------------------------------------------------------
ProbeInit ==
    /\ filter = ClearFilter /\ reading = NoReading /\ resting = FALSE /\ samples = <<>>
    /\ calib = DefaultCalibration /\ calibLoaded = FALSE
    /\ stored = DefaultCalibration
    /\ undo = <<>>
    /\ settled = TRUE

\* POST /temperature/enabled
HandleMonitoring == \E on \in BOOLEAN : SetEnabled(on)

\* The server's calibration message brings both references, or is refused.
UnifiedCalibration ==
    \E low, high \in Points \ {NoPoint}, on \in BOOLEAN : RestoreCalibration(low, high, on)

Setter ==
    \/ HandleMonitoring \/ HandleCaptureLow \/ HandleCaptureHigh
    \/ RunScheduled \/ RunSerial
    \/ ResetCalibration \/ SetTrimOffset \/ UnifiedCalibration \/ Refuse

ProbeNext ==
    \/ \E raw \in Raws : Sample(raw)
    \/ MaintainDisabled \/ IntervalOver
    \/ Setter \/ SaveSucceeds \/ SaveFails
    \/ Restart

ProbeSpec == ProbeInit /\ [][ProbeNext]_probeVars

-----------------------------------------------------------------------------
Filters  == [inRange : 0..PresentSamples, outOfRange : 0..AbsentSamples,
             raw : Raws \cup {-1}, present : BOOLEAN]
ProbeReadings == [present : BOOLEAN, last : Raws \cup {-1}, saved : Raws \cup {-1}]
Sensors  == [calib : Calibrations, filter : Filters, reading : ProbeReadings,
             resting : BOOLEAN, samples : Seq(Raws)]

\* Type invariant; the sample counters of the filter stay within their limits.
ProbeTypeOK ==
    /\ filter \in Filters /\ reading \in ProbeReadings /\ resting \in BOOLEAN
    /\ calib \in Calibrations /\ stored \in Calibrations
    /\ calibLoaded \in BOOLEAN /\ settled \in BOOLEAN
    /\ undo \in Seq(Sensors) /\ Len(undo) <= 1
    /\ samples \in Seq(Raws)

AllInRange(from, to)  == \A i \in from..to : InRange(samples[i])
NoneInRange(from, to) == \A i \in from..to : ~InRange(samples[i])

FoundAt(k) == k >= PresentSamples /\ AllInRange(k - PresentSamples + 1, k)
LostAt(k)  == k >= AbsentSamples /\ NoneInRange(k - AbsentSamples + 1, k)

\* The reference: some run of good samples found the probe and no run of bad ones lost it since.
Connected ==
    \E k \in 1..Len(samples) : FoundAt(k) /\ \A j \in (k + 1)..Len(samples) : ~LostAt(j)

IsLastGood(raw) ==
    \E k \in 1..Len(samples) :
        /\ InRange(samples[k]) /\ raw = samples[k]
        /\ NoneInRange(k + 1, Len(samples))

\* The filter's counters, the presence everybody asks for and the raw value that captures and
\* the temperature are taken from say what the samples since monitoring was last switched say:
\* across disabling, restores, and setters whose save failed and which put everything back.
ReadingMatchesHistory ==
    /\ filter.present = Connected
    /\ reading.present = Connected
    /\ reading.saved = StableRaw(filter)
    /\ IF Connected THEN IsLastGood(reading.saved) ELSE reading.saved = -1

\* While monitoring is off there is no probe and no value to capture. The exception is the code's:
\* the first setter after a boot may load "off" while a reading is there, until maintain() runs.
DisabledReadsNothing ==
    ~calib.enabled /\ settled => ~reading.present /\ reading.saved = -1
=============================================================================
