---------------------------- MODULE CalibrationMC ----------------------------
(* CalibrationStore with two fields, and one combination of them that is not *)
(* a valid calibration: enough for a setter that edits one field, one that   *)
(* edits both, mirrors that are half written and legacy keys that cannot be  *)
(* migrated. Five generations wrap after five saves.                         *)
EXTENDS CalibrationStore

MCValidRecords == Records \ {<<1, 0>>}
MCDefault == <<0, 0>>
MCEdits == {{1}, {2}, {1, 2}}
=============================================================================
