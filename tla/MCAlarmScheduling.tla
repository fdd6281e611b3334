--------------------------- MODULE MCAlarmScheduling ---------------------------
(* Instances of AlarmScheduling for TLC. *)
EXTENDS AlarmScheduling
=============================================================================
