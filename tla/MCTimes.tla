------------------------------ MODULE MCTimes ------------------------------
(* Small instances of Times for TLC. *)
EXTENDS Times

CONSTANT d1

MCDays == {-33, -1, 0, 1, 33}
MCSeconds == {0, 1, 59, 60, 3599, 3600, 43261, 86399}
MCMicros == {0, 1, 10, 120000, 500000, 999000, 999999}
=============================================================================
