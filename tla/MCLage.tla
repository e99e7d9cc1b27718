------------------------------- MODULE MCLage -------------------------------
(* Small instances of Lage.                                                  *)
EXTENDS Lage
=============================================================================
