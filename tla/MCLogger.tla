------------------------------ MODULE MCLogger ------------------------------
(***************************************************************************)
(* Instances of Logger for TLC.                                            *)
(***************************************************************************)
EXTENDS Logger, TLC

LoggerSymmetry == Permutations(Loggers)
=============================================================================
