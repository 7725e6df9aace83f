------------------------------ MODULE MCSession ------------------------------
(* Small instances of Session for TLC. *)
EXTENDS Session

MCNames == {"latin1", "utf8mb4", "LATIN1"}
MCServerNames == {"latin1", "utf8mb4"}
=============================================================================
