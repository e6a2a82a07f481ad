------------------------------ MODULE MCAsrI2c ------------------------------
(* Instance of AsrI2c: 6 ticks, a scale of 2, short time-outs.             *)
EXTENDS AsrI2c, TLC
=============================================================================
