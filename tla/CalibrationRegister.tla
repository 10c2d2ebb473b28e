------------------------- MODULE CalibrationRegister -------------------------
(***************************************************************************)
(* What the calibration storage promises: one record that a setter         *)
(* replaces as a whole or not at all, in the fields that setter is about;  *)
(* a setter that reported success is never undone, one that reported       *)
(* failure never shows, whatever reset comes when.                         *)
(* CalibrationStore.tla implements it.                                     *)
(***************************************************************************)
CONSTANTS
    Fields, Values, \* a record is a function from Fields to Values
    Edits           \* for each setter, the fields it rewrites

VARIABLES
    durable,        \* the record the next boot will use
    job,            \* the setter in progress
    blind           \* NVS could not be read since the last reset

Records == [Fields -> Values]

Idle == [stage |-> "idle"]
Waiting(edit)     == [stage |-> "waiting", edit |-> edit]
Writing(edit, r)  == [stage |-> "writing", edit |-> edit, rec |-> r]
Done(edit)        == [stage |-> "done", edit |-> edit]

Init == durable \in Records /\ job = Idle /\ blind = FALSE

Start(edit) == job = Idle /\ job' = Waiting(edit) /\ UNCHANGED <<durable, blind>>

\* The setter found NVS unreadable and goes on from the defaults.
LoseSight(edit) == job = Waiting(edit) /\ blind' = TRUE /\ UNCHANGED <<durable, job>>

\* The setter has computed its record: unless it is blind, only its own fields differ.
Choose(edit, r) ==
    /\ job = Waiting(edit)
    /\ blind \/ \A f \in Fields \ edit : r[f] = durable[f]
    /\ job' = Writing(edit, r)
    /\ UNCHANGED <<durable, blind>>

\* The one point at which the change happens.
Take(edit, r) ==
    /\ job = Writing(edit, r)
    /\ durable' = r
    /\ job' = Done(edit)
    /\ blind' = FALSE

\* Success is reported.
Finish(edit) == job = Done(edit) /\ job' = Idle /\ UNCHANGED <<durable, blind>>

\* Failure is reported.
Fail(edit) ==
    /\ job = Waiting(edit) \/ \E r \in Records : job = Writing(edit, r)
    /\ job' = Idle
    /\ UNCHANGED <<durable, blind>>

Reset == job' = Idle /\ blind' = FALSE /\ UNCHANGED durable

Next == \/ \E edit \in Edits :
              \/ Start(edit) \/ LoseSight(edit) \/ Finish(edit) \/ Fail(edit)
              \/ \E r \in Records : Choose(edit, r) \/ Take(edit, r)
        \/ Reset

Spec == Init /\ [][Next]_<<durable, job, blind>>
=============================================================================
