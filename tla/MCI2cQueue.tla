----------------------------- MODULE MCI2cQueue ------------------------------
(***************************************************************************)
(* An instance of I2cQueue for TLC.                                        *)
(***************************************************************************)
EXTENDS I2cQueue

CONSTANTS mainLoop, timerTask
==============================================================================
