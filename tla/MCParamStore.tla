---------------------------- MODULE MCParamStore ----------------------------
(* Small instances of ParamStore.                                            *)
EXTENDS ParamStore
MCHalf == {0, 1}
MCDefault == [lo |-> 0, hi |-> 0]
=============================================================================
