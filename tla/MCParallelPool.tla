-------------------------- MODULE MCParallelPool --------------------------
(***************************************************************************)
(* Constants for model checking the worker pool.                           *)
(***************************************************************************)
EXTENDS ParallelPoolProps

CONSTANTS d1, d2, d3

TwoDevices   == <<d1, d2>>
ThreeDevices == <<d1, d2, d3>>
=============================================================================
