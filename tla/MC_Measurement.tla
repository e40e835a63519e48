--------------------------- MODULE MC_Measurement ---------------------------
(***************************************************************************)
(* Small instances of Measurement.  Keys are interchangeable.              *)
(***************************************************************************)
EXTENDS Measurement, TLC

KeySymmetry == Permutations(Key)
=============================================================================
