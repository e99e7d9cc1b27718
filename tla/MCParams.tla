------------------------------ MODULE MCParams ------------------------------
(* Small instances of Params.                                                *)
EXTENDS Params
MCAll == {"list", "set", "load", "save"}
=============================================================================
