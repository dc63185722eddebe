----------------------------- MODULE MCCuidGen -----------------------------
(***************************************************************************)
(* The generator with a 2-bit counter field (counterMax = 3) and a 1-bit *)
(* device field, device id 1, and the clock panic at second 8.            *)
(***************************************************************************)
EXTENDS CuidGen
=============================================================================
