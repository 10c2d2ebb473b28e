----------------------------- MODULE ScheduleMC -----------------------------
(* ScheduleManager with two slots, the weekly OTA event, and a one-shot event. *)
(* Three minutes with a period of two let the first be due again, and five ids wrap. *)
EXTENDS ScheduleManager

MCWeekly == [recurring |-> TRUE, when |-> 0, command |-> "ota-update"]
MCData == {MCWeekly, [recurring |-> FALSE, when |-> 1, command |-> "toggle"]}
=============================================================================
