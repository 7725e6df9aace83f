------------------------------ MODULE MCCursors ------------------------------
(* Small instances of Cursors for TLC. *)
EXTENDS Cursors

CONSTANTS c1, c2

MCAnswers == {<<OkSet>>, <<ErrorSet>>, <<Rows(0)>>, <<Rows(2)>>,
              <<Rows(1), Rows(2), OkSet>>, <<OkSet, ErrorSet>>, <<Rows(1), ErrorSet>>}
MCFewAnswers == {<<ErrorSet>>, <<OkSet>>, <<Rows(2), Rows(1), OkSet>>}
=============================================================================
