---------------------------- MODULE MCSerialHal ----------------------------
(* Every function of the two drivers; data written and host acknowledge as  *)
(* the executor and the flash driver use them.                              *)
EXTENDS SerialHal

C(p, op, d, m) == [port |-> p, op |-> op, data |-> d, mack |-> m]

MCCalls == {C("twi", "start", 0, 0), C("twi", "stop", 0, 0), C("twi", "data", 160, 0),
            C("twi", "data", 255, 1), C("spi", "cs_en", 0, 0), C("spi", "cs_dis", 0, 0),
            C("spi", "data", 5, 0)}
=============================================================================
