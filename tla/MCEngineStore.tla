---------------------------- MODULE MCEngineStore ----------------------------
(***************************************************************************)
(* Model-checking instance of EngineStore.                                 *)
(* Ids are 0 .. IdLimit - 1: with IdLimit = 6 the fifth entity grows every *)
(* array from 4 to 8 and the sixth wraps the id counter.                   *)
(***************************************************************************)
EXTENDS EngineStore
=============================================================================
