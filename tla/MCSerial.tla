------------------------------ MODULE MCSerial ------------------------------
(* Small instances of Serial: frames and queues of two bytes, so that frames *)
(* do not fit while others wait.                                             *)
EXTENDS Serial
=============================================================================
