-------------------------- MODULE MCMoonrakerParts --------------------------
(* MoonrakerParts for TLC, with the reports of MCMoonrakerState and a value *)
(* within the range of a fan and one below.                                 *)
EXTENDS MCMoonrakerState, MoonrakerParts

MCValues == {-5, 128}
=============================================================================
