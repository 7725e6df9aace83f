-------------------------- MODULE MCConnectionLock --------------------------
(* Small instances of ConnectionLock for TLC. *)
EXTENDS ConnectionLock, TLC

CONSTANTS t1, t2, t3, stored, streamed

MCThreads == {t1, t2}
MCThreeThreads == {t1, t2, t3}
MCResults == {stored, streamed}

(* Everything a program can do; its callbacks use the connection too, but  *)
(* drop no result object of it.                                            *)
MCCalls == AllCalls
MCSafeCallbacks == {"command", "literal", "close", "store", "fetch"}

MCUnsafeCallbacks == MCSafeCallbacks \cup {"drop"}

MCSymmetry == Permutations(MCThreeThreads)
=============================================================================
