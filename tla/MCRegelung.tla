----------------------------- MODULE MCRegelung -----------------------------
(* Small instances of Regelung.                                              *)
EXTENDS Regelung
=============================================================================
