----------------------------- MODULE MCDatalog -----------------------------
(* Small instances of Datalog.                                              *)
EXTENDS Datalog
=============================================================================
