--------------------------- MODULE MCKalibrierung ---------------------------
EXTENDS Kalibrierung, Sequences

MCTable == [i \in 0..4 |->
    <<<<"roll", "max">>, <<"roll", "min">>, <<"roll", "null">>,
      <<"schub", "max">>, <<"schub", "null">>>>[i + 1]]
=============================================================================
