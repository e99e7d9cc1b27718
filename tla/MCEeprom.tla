------------------------------ MODULE MCEeprom ------------------------------
(* Small instances of Eeprom: three addresses, three or four records a page.  *)
EXTENDS Eeprom

MCAddr == {10, 11, 12}
\* The table as the driver would need it, and a table that is too short.
MCTable == [i \in 0..2 |-> 10 + i]
MCShortTable == [i \in 0..1 |-> 10 + i]
MCData == {0, 3, 65535}
MCTwoValues == {0, 3}
\* What an uninitialised local holds: not by chance the right version, or that.
MCGarbage == {0}
MCUnluckyGarbage == {0, 3}
=============================================================================
